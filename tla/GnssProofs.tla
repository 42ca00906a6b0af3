----------------------------- MODULE GnssProofs ------------------------------
(***************************************************************************)
(* Proofs about GnssReceiver, and about GpsTrace, which reads what the       *)
(* receiver stores, for a fix of any number of parts, a buffer of any size   *)
(* that holds one, and a trace of any length.                               *)
(***************************************************************************)
EXTENDS GpsTrace, TLAPS

\* What is stored so far is the front of a buffer that passed the test.
Storing ==
    pc = "store" => Matches /\ \A w \in Words : w < word => oem4[w] = buffer[w]

Fixes == TypeOK /\ Storing /\ KeepsWholeFixes

LEMMA PlacesFacts ==
    /\ 0 .. (Parts - 1) \subseteq Places
    /\ Words \subseteq Places
    /\ 0 \in Words /\ Words \subseteq 0 .. (Parts - 1)
    /\ Parts * MaxFix \in Nat
BY PartsAssumption DEF Places, Words

LEMMA FixesInit == Init => Fixes
BY PartsAssumption, PlacesFacts
   DEF Init, Fixes, TypeOK, Storing, KeepsWholeFixes, Words

LEMMA FixesNext == Fixes /\ [Next]_vars => Fixes'
<1> SUFFICES ASSUME Fixes, [Next]_vars PROVE Fixes'
  OBVIOUS
<1>0. TypeOK /\ Storing /\ KeepsWholeFixes
  BY DEF Fixes
<1> USE PartsAssumption, PlacesFacts
<1>1. CASE Send
  <2>1. TypeOK'
    BY <1>0, <1>1 DEF Send, TypeOK
  <2> QED BY <1>0, <1>1, <2>1 DEF Send, Fixes, Storing, KeepsWholeFixes, Matches,
     Cleared, WholeFix
<1>2. CASE Receive
  <2>1. PICK k \in 1 .. Cap :
          /\ got + k <= sent
          /\ got' = got + k
          /\ buffer' = [j \in Places |-> IF j < k THEN got + 1 + j ELSE buffer[j]]
    BY <1>2 DEF Receive
  <2>2. TypeOK'
    BY <1>0, <1>2, <2>1 DEF Receive, TypeOK, Places
  <2> QED BY <1>0, <1>2, <2>2 DEF Receive, Fixes, Storing, KeepsWholeFixes
<1>3. CASE Reconnect \/ Fail \/ EndTurn
  BY <1>0, <1>3 DEF Reconnect, Fail, EndTurn, Fixes, TypeOK, Storing,
     KeepsWholeFixes
<1>4. CASE Check
  <2>1. TypeOK'
    BY <1>0, <1>4 DEF Check, TypeOK
  <2>2. Storing'
    BY <1>0, <1>4 DEF Check, TypeOK, Storing, Matches, Cleared, WholeFix, Words
  <2> QED BY <1>0, <1>4, <2>1, <2>2 DEF Check, Fixes, KeepsWholeFixes
<1>5. CASE Store
  <2> USE <1>5 DEF Store
  <2>0. /\ word \in Words /\ word \in Places
        /\ oem4' = [oem4 EXCEPT ![word] = buffer[word]]
        /\ buffer' = buffer /\ Matches /\ Matches'
        /\ \A w \in Words : oem4'[w] = IF w = word THEN buffer[word] ELSE oem4[w]
    BY <1>0 DEF TypeOK, Storing, Matches, Cleared, WholeFix
  <2>1. TypeOK'
    BY <1>0, <2>0 DEF TypeOK, Words
  <2>2. \A w \in Words : w <= word => oem4'[w] = buffer[w]
    BY <1>0, <2>0 DEF Storing, Words
  <2>3. CASE word < Parts - 2
    <3>1. Storing'
      BY <2>0, <2>2, <2>3 DEF Storing, Words
    <3> QED BY <2>1, <2>3, <3>1 DEF Fixes, KeepsWholeFixes
  <2>4. CASE word = Parts - 2
    <3>1. \A w \in Words : oem4'[w] = buffer[w]
      BY <2>2, <2>4 DEF Words
    <3>2. CASE Cleared
      <4>1. \A w \in Words : oem4'[w] = 0
        BY <3>1, <3>2 DEF Cleared
      <4> QED BY <2>1, <2>4, <4>1 DEF Fixes, Storing, KeepsWholeFixes
    <3>3. CASE WholeFix
      <4>1. /\ oem4'[0] = buffer[0] /\ buffer[0] > 0
            /\ (buffer[0] - 1) % Parts = 0
            /\ \A w \in Words : oem4'[w] = buffer[0] + w
        BY <3>1, <3>3 DEF WholeFix
      <4> QED BY <2>1, <2>4, <4>1 DEF Fixes, Storing, KeepsWholeFixes
    <3> QED BY <2>0, <3>2, <3>3 DEF Matches
  <2>5. word < Parts - 2 \/ word = Parts - 2
    BY <2>0 DEF Words
  <2> QED BY <2>3, <2>4, <2>5
<1>6. CASE Restart
  BY <1>0, <1>6 DEF Restart, Fixes, TypeOK, Storing, KeepsWholeFixes, Places
<1>7. CASE UNCHANGED vars
  BY <1>0, <1>7 DEF vars, Fixes, TypeOK, Storing, KeepsWholeFixes, Matches,
     Cleared, WholeFix
<1> QED BY <1>1, <1>2, <1>3, <1>4, <1>5, <1>6, <1>7 DEF Next

\* Wherever recv cuts the stream, whatever the buffer holds and whenever the
\* process is restarted, a turn that stores keeps one whole fix.
THEOREM KeepsWholeFixesAlways == Spec => []KeepsWholeFixes
<1>1. Fixes => KeepsWholeFixes
  BY DEF Fixes
<1> QED BY <1>1, FixesInit, FixesNext, PTL DEF Spec

(***************************************************************************)
(* The trace.  Times are parts of the stream: a larger one is a later fix.  *)
(***************************************************************************)
\* Nothing that is still to come at a word is older than x: not what the buffer
\* holds there, unless it was cleared, nor what the next receive brings.
NotAhead(x, w) == x \in Nat /\ x <= got /\ (buffer[w] # 0 => x <= buffer[w])

\* Nor is the word that is stored.
Past(x, w) == NotAhead(x, w) /\ (oem4[w] # 0 => x <= oem4[w])

TraceTypeOK ==
    /\ copied \in Seq(Nat) /\ Len(copied) <= Parts - 2
    /\ trace \in Seq([fix : Seq(Nat), overlap : BOOLEAN])
    /\ \A i \in 1 .. Len(trace) : Len(trace[i].fix) = Parts - 1
    /\ half \in BOOLEAN /\ overlap \in BOOLEAN

StoredPast == \A w \in Words : NotAhead(oem4[w], w)
CopiedPast == \A w \in Words : w < Len(copied) => Past(copied[w + 1], w)
TracePast ==
    \A i \in 1 .. Len(trace), w \in Words :
        /\ Past(trace[i].fix[w + 1], w)
        /\ w < Len(copied) /\ copied[w + 1] # 0 => trace[i].fix[w + 1] <= copied[w + 1]

\* What is stored is a fix, each word in its place, or nothing but zeros.
OneFix ==
    \/ \A w \in Words : oem4[w] = 0
    \/ \A w \in Words : oem4[w] = oem4[0] + w

WholeWhenStored == ~half => OneFix
CopyOfOne ==
    copied # <<>> /\ ~overlap =>
        /\ ~half
        /\ \A w \in Words : w < Len(copied) => copied[w + 1] = oem4[w]

Traced ==
    /\ Fixes /\ TraceTypeOK
    /\ StoredPast /\ CopiedPast /\ TracePast /\ TraceInOrder
    /\ WholeWhenStored /\ CopyOfOne /\ TornByOverlapOnly

LEMMA TracedInit == TraceInit => Traced
<1> SUFFICES ASSUME TraceInit PROVE Traced
  OBVIOUS
<1>1. Fixes
  BY FixesInit DEF TraceInit
<1>2. /\ copied = <<>> /\ trace = <<>> /\ half = FALSE /\ overlap = FALSE
      /\ got = 0 /\ \A w \in Words : oem4[w] = 0 /\ buffer[w] = 0
  BY PlacesFacts DEF TraceInit, Init
<1>3. TraceTypeOK
  <2>1. Len(copied) = 0 /\ Len(trace) = 0 /\ 0 <= Parts - 2
    BY <1>2, PartsAssumption
  <2>2. copied \in Seq(Nat) /\ trace \in Seq([fix : Seq(Nat), overlap : BOOLEAN])
    BY <1>2
  <2>3. half \in BOOLEAN /\ overlap \in BOOLEAN
    BY <1>2
  <2>4. \A i \in 1 .. Len(trace) : Len(trace[i].fix) = Parts - 1
    BY <2>1
  <2> QED BY <2>1, <2>2, <2>3, <2>4 DEF TraceTypeOK
<1>4. StoredPast /\ CopiedPast /\ TracePast
  BY <1>2 DEF StoredPast, CopiedPast, TracePast, NotAhead, Words
<1>5. TraceInOrder /\ TornByOverlapOnly
  BY <1>2 DEF TraceInOrder, TornByOverlapOnly, Drawn
<1>6. WholeWhenStored /\ CopyOfOne
  BY <1>2 DEF WholeWhenStored, CopyOfOne, OneFix
<1> QED BY <1>1, <1>3, <1>4, <1>5, <1>6 DEF Traced

\* No step of the receiver makes what was seen at a word newer than what comes.
LEMMA NotAheadStays ==
    ASSUME TypeOK, Next, NEW w \in Words, NEW x, NotAhead(x, w)
    PROVE  NotAhead(x, w)'
<1> USE DEF NotAhead
<1>0. w \in Places /\ got \in Nat /\ sent \in Nat /\ got <= sent /\ buffer[w] \in Nat
  BY PlacesFacts DEF TypeOK
<1>1. CASE Receive
  <2>1. PICK k \in 1 .. Cap :
          /\ got' = got + k
          /\ buffer' = [j \in Places |-> IF j < k THEN got + 1 + j ELSE buffer[j]]
    BY <1>1 DEF Receive
  <2>2. buffer'[w] = IF w < k THEN got + 1 + w ELSE buffer[w]
    BY <1>0, <2>1
  <2>3. k \in Nat /\ w \in Nat
    BY PartsAssumption DEF Words
  <2> QED BY <1>0, <2>1, <2>2, <2>3
<1>2. CASE Reconnect \/ Restart
  BY <1>0, <1>2 DEF Reconnect, Restart
<1>3. CASE Send \/ Fail \/ Check \/ Store \/ EndTurn
  BY <1>3 DEF Send, Fail, Check, Store, EndTurn
<1> QED BY <1>1, <1>2, <1>3 DEF Next

\* A step of the receiver stores the word of its buffer or leaves the word alone.
LEMMA StoredStep ==
    ASSUME TypeOK, Next, NEW w \in Words
    PROVE  oem4'[w] = oem4[w] \/ (oem4'[w] = buffer[w] /\ buffer' = buffer /\ got' = got)
<1>1. CASE Store
  BY <1>1 DEF Store, TypeOK
<1>2. CASE ~Store
  BY <1>2 DEF Next, Send, Receive, Reconnect, Fail, Check, EndTurn, Restart
<1> QED BY <1>1, <1>2

LEMMA PastStays ==
    ASSUME TypeOK, Next, NEW w \in Words, NEW x, Past(x, w)
    PROVE  Past(x, w)'
<1>1. NotAhead(x, w) /\ NotAhead(x, w)'
  BY NotAheadStays DEF Past
<1>2. oem4'[w] # 0 => x <= oem4'[w]
  BY <1>1, StoredStep DEF Past, NotAhead
<1> QED BY <1>1, <1>2 DEF Past

LEMMA TracedReceiver == Traced /\ Receiver => Traced'
<1> SUFFICES ASSUME Traced, Receiver PROVE Traced'
  OBVIOUS
<1>0. /\ Fixes /\ TypeOK /\ KeepsWholeFixes /\ TraceTypeOK /\ StoredPast /\ CopiedPast
      /\ TracePast /\ TraceInOrder /\ WholeWhenStored /\ CopyOfOne /\ TornByOverlapOnly
  BY DEF Traced, Fixes
<1>1. Next /\ copied' = copied /\ trace' = trace
  BY DEF Receiver
<1>2. Fixes'
  BY <1>0, <1>1, FixesNext
<1>3. TraceTypeOK'
  BY <1>0, <1>1 DEF TraceTypeOK, Receiver
<1>4. StoredPast'
  <2> SUFFICES ASSUME NEW w \in Words PROVE NotAhead(oem4[w], w)'
    BY DEF StoredPast
  <2>1. NotAhead(oem4[w], w)
    BY <1>0 DEF StoredPast
  <2>2. CASE oem4'[w] = oem4[w]
    <3>1. NotAhead(oem4[w], w) => got' \in Nat /\ oem4[w] <= got' /\ (buffer'[w] # 0 => oem4[w] <= buffer'[w])
      BY <1>0, <1>1, <1>2, NotAheadStays DEF NotAhead, Fixes, TypeOK
    <3> QED BY <2>1, <2>2, <3>1 DEF NotAhead
  <2>3. CASE oem4'[w] = buffer[w] /\ buffer' = buffer /\ got' = got
    <3>1. w \in Places /\ buffer[w] \in 0 .. got /\ got \in Nat
      BY <1>0, PlacesFacts DEF TypeOK
    <3> QED BY <2>3, <3>1 DEF NotAhead
  <2> QED BY <1>0, <1>1, <2>2, <2>3, StoredStep
<1>5. CopiedPast'
  BY <1>0, <1>1, PastStays DEF CopiedPast
<1>6. TracePast'
  BY <1>0, <1>1, PastStays DEF TracePast
<1>7. TraceInOrder' /\ TornByOverlapOnly'
  BY <1>0, <1>1 DEF TraceInOrder, TornByOverlapOnly, Drawn
<1>8. WholeWhenStored'
  <2>1. CASE pc' = "kept"
    BY <1>2, <2>1 DEF Fixes, KeepsWholeFixes, WholeWhenStored, OneFix
  <2>2. CASE pc' # "kept" /\ oem4' = oem4
    BY <1>0, <2>2 DEF Receiver, WholeWhenStored, OneFix
  <2>3. CASE pc' # "kept" /\ oem4' # oem4
    BY <2>3 DEF Receiver, WholeWhenStored
  <2> QED BY <2>1, <2>2, <2>3
<1>9. CopyOfOne'
  BY <1>0, <1>1 DEF Receiver, CopyOfOne, TraceTypeOK
<1> QED BY <1>2, <1>3, <1>4, <1>5, <1>6, <1>7, <1>8, <1>9 DEF Traced

\* The word that is copied next.
LEMMA NextWord ==
    ASSUME Traced, Len(copied) <= Parts - 2
    PROVE  /\ Len(copied) \in Words
           /\ oem4[Len(copied)] \in Nat
           /\ \A w \in Words : oem4[w] \in Nat /\ Past(oem4[w], w)
<1>1. Len(copied) \in Words
  BY PartsAssumption DEF Traced, TraceTypeOK, Words
<1>2. \A w \in Words : oem4[w] \in Nat
  BY PlacesFacts DEF Traced, Fixes, TypeOK
<1>3. \A w \in Words : Past(oem4[w], w)
  BY <1>2 DEF Traced, StoredPast, Past
<1> QED BY <1>1, <1>2, <1>3

LEMMA TracedCopy == Traced /\ CopyWord => Traced'
<1> SUFFICES ASSUME Traced, CopyWord PROVE Traced'
  OBVIOUS
<1> DEFINE n == Len(copied)
<1>0. /\ Fixes /\ TypeOK /\ TraceTypeOK /\ StoredPast /\ CopiedPast /\ TracePast
      /\ TraceInOrder /\ WholeWhenStored /\ CopyOfOne /\ TornByOverlapOnly
  BY DEF Traced, Fixes
<1>1. /\ UNCHANGED <<sent, got, buffer, pc, word, oem4, trace, half>>
      /\ n < Parts - 2 /\ copied' = Append(copied, oem4[n])
      /\ overlap' = IF copied = <<>> THEN half ELSE overlap
  BY DEF CopyWord, vars
<1>2. n \in Words /\ oem4[n] \in Nat /\ \A w \in Words : Past(oem4[w], w)
  BY <1>1, NextWord, PartsAssumption DEF Traced, TraceTypeOK
<1>3. /\ copied \in Seq(Nat) /\ copied' \in Seq(Nat) /\ Len(copied') = n + 1
      /\ copied'[n + 1] = oem4[n]
      /\ \A w \in Words : w < n => copied'[w + 1] = copied[w + 1]
  BY <1>0, <1>1, <1>2 DEF TraceTypeOK, Words
<1> HIDE DEF n
<1>4. n \in Nat /\ \A w \in Words : w \in Nat
  BY <1>2 DEF Words
<1>5. Fixes'
  BY <1>0, <1>1, FixesNext DEF vars
<1>6. TraceTypeOK'
  BY <1>0, <1>1, <1>3, <1>4, PartsAssumption DEF TraceTypeOK
<1>7. StoredPast' /\ TraceInOrder' /\ TornByOverlapOnly' /\ WholeWhenStored'
  BY <1>0, <1>1 DEF StoredPast, NotAhead, TraceInOrder, TornByOverlapOnly, Drawn,
     WholeWhenStored, OneFix
<1>8. ASSUME NEW w \in Words, w < n + 1
      PROVE  /\ w < n => copied'[w + 1] = copied[w + 1]
             /\ ~ (w < n) => w = n /\ copied'[w + 1] = oem4[w]
  BY <1>3, <1>4, <1>8
<1>9. CopiedPast'
  <2> SUFFICES ASSUME NEW w \in Words, w < n + 1
               PROVE  /\ copied'[w + 1] <= got' /\ copied'[w + 1] \in Nat
                      /\ buffer'[w] # 0 => copied'[w + 1] <= buffer'[w]
                      /\ oem4'[w] # 0 => copied'[w + 1] <= oem4'[w]
    BY <1>3 DEF CopiedPast, Past, NotAhead
  <2>1. Past(copied'[w + 1], w)
    BY <1>0, <1>2, <1>8 DEF CopiedPast, n
  <2> QED BY <2>1, <1>1 DEF Past, NotAhead
<1>10. TracePast'
  <2> SUFFICES ASSUME NEW i \in 1 .. Len(trace), NEW w \in Words
               PROVE  /\ Past(trace[i].fix[w + 1], w)
                      /\ w < n + 1 /\ copied'[w + 1] # 0
                            => trace[i].fix[w + 1] <= copied'[w + 1]
    BY <1>1, <1>3 DEF TracePast, Past, NotAhead
  <2>1. Past(trace[i].fix[w + 1], w)
    BY <1>0 DEF TracePast
  <2>2. CASE w < n
    BY <1>0, <1>3, <2>1, <2>2 DEF TracePast, n
  <2>3. CASE ~ (w < n) /\ w < n + 1
    BY <1>8, <2>1, <2>3 DEF Past
  <2> QED BY <2>1, <2>2, <2>3
<1>11. CopyOfOne'
  <2> SUFFICES ASSUME ~overlap'
               PROVE  ~half /\ \A w \in Words : w < n + 1 => copied'[w + 1] = oem4[w]
    BY <1>1, <1>3 DEF CopyOfOne
  <2>1. CASE copied = <<>>
    <3>1. n = 0
      BY <2>1 DEF n
    <3> QED BY <1>1, <1>8, <2>1, <3>1, <1>4
  <2>2. CASE copied # <<>>
    BY <1>0, <1>1, <1>8, <2>2 DEF CopyOfOne, n
  <2> QED BY <2>1, <2>2
<1> QED BY <1>5, <1>6, <1>7, <1>9, <1>10, <1>11 DEF Traced

LEMMA TracedPush == Traced /\ PushBack => Traced'
<1> SUFFICES ASSUME Traced, PushBack PROVE Traced'
  OBVIOUS
<1> DEFINE n == Len(copied)  m == Len(trace)  f == Append(copied, oem4[n])
           o == IF copied = <<>> THEN half ELSE overlap
<1>0. /\ Fixes /\ TypeOK /\ TraceTypeOK /\ StoredPast /\ CopiedPast /\ TracePast
      /\ TraceInOrder /\ WholeWhenStored /\ CopyOfOne /\ TornByOverlapOnly
  BY DEF Traced, Fixes
<1>1. /\ UNCHANGED <<sent, got, buffer, pc, word, oem4, half>>
      /\ n = Parts - 2 /\ trace' = Append(trace, [fix |-> f, overlap |-> o])
      /\ copied' = <<>> /\ overlap' = FALSE
  BY DEF PushBack, vars
<1>2. n \in Words /\ oem4[n] \in Nat /\ \A w \in Words : Past(oem4[w], w)
  BY <1>1, NextWord, PartsAssumption DEF Traced, TraceTypeOK
<1>3. /\ copied \in Seq(Nat) /\ f \in Seq(Nat) /\ Len(f) = n + 1 /\ f[n + 1] = oem4[n]
      /\ \A w \in Words : w < n => f[w + 1] = copied[w + 1]
  BY <1>0, <1>1, <1>2 DEF TraceTypeOK, Words
<1>4. o \in BOOLEAN
  BY <1>0 DEF TraceTypeOK
<1>5. /\ m \in Nat /\ Len(trace') = m + 1
      /\ trace'[m + 1] = [fix |-> f, overlap |-> o]
      /\ \A i \in 1 .. m : trace'[i] = trace[i]
      /\ trace' \in Seq([fix : Seq(Nat), overlap : BOOLEAN])
  BY <1>0, <1>1, <1>3, <1>4 DEF TraceTypeOK
<1>6. \A w \in Words : w \in Nat /\ (w < n \/ w = n)
  BY <1>1, PartsAssumption DEF Words
<1> HIDE DEF n, m, f, o
<1>7. \A w \in Words :
        /\ Past(f[w + 1], w)
        /\ \A i \in 1 .. m : f[w + 1] # 0 => trace[i].fix[w + 1] <= f[w + 1]
  <2> SUFFICES ASSUME NEW w \in Words
               PROVE  /\ Past(f[w + 1], w)
                      /\ \A i \in 1 .. m : f[w + 1] # 0 => trace[i].fix[w + 1] <= f[w + 1]
    OBVIOUS
  <2>1. CASE w < n
    BY <1>0, <1>3, <2>1 DEF CopiedPast, TracePast, n, m
  <2>2. CASE w = n
    BY <1>0, <1>2, <1>3, <2>2 DEF TracePast, Past, m
  <2> QED BY <1>6, <2>1, <2>2
<1>8. Fixes'
  BY <1>0, <1>1, FixesNext DEF vars
<1>9. TraceTypeOK'
  <2>1. Len(copied') = 0 /\ copied' \in Seq(Nat)
    BY <1>1
  <2>2. ASSUME NEW i \in 1 .. m + 1 PROVE Len(trace'[i].fix) = Parts - 1
    <3>1. CASE i \in 1 .. m
      BY <1>0, <1>5, <3>1 DEF TraceTypeOK, m
    <3>2. CASE i = m + 1
      BY <1>1, <1>3, <1>5, <3>2, PartsAssumption
    <3> QED BY <1>5, <3>1, <3>2
  <2>3. half' \in BOOLEAN /\ overlap' \in BOOLEAN
    BY <1>0, <1>1 DEF TraceTypeOK
  <2>4. Len(copied') <= Parts - 2
    BY <2>1, PartsAssumption
  <2>5. \A i \in 1 .. Len(trace') : Len(trace'[i].fix) = Parts - 1
    BY <1>5, <2>2
  <2> QED BY <1>5, <2>1, <2>3, <2>4, <2>5 DEF TraceTypeOK
<1>10. StoredPast' /\ WholeWhenStored'
  BY <1>0, <1>1 DEF StoredPast, NotAhead, WholeWhenStored, OneFix
<1>11. CopiedPast' /\ CopyOfOne'
  <2>1. Len(copied') = 0
    BY <1>1
  <2> QED BY <1>1, <1>6, <2>1 DEF CopiedPast, CopyOfOne
<1>12. TracePast'
  <2> SUFFICES ASSUME NEW i \in 1 .. m + 1, NEW w \in Words
               PROVE  Past(trace'[i].fix[w + 1], w)
    <3>1. Len(copied') = 0 /\ \A w \in Words : ~ (w < Len(copied'))
      BY <1>1, <1>6
    <3> QED BY <1>1, <1>5, <3>1 DEF TracePast, Past, NotAhead
  <2>1. CASE i \in 1 .. m
    BY <1>0, <1>5, <2>1 DEF TracePast, m
  <2>2. CASE i = m + 1
    BY <1>5, <1>7, <2>2
  <2> QED BY <1>5, <2>1, <2>2
<1>13. TraceInOrder'
  <2> SUFFICES ASSUME NEW i \in 1 .. m + 1, NEW j \in 1 .. m + 1, i < j,
                      NEW w \in 1 .. Parts - 1, trace'[j].fix[w] # 0
               PROVE  trace'[i].fix[w] <= trace'[j].fix[w]
    BY <1>5 DEF TraceInOrder
  <2>1. CASE j \in 1 .. m
    <3>1. i \in 1 .. m /\ trace'[i] = trace[i] /\ trace'[j] = trace[j]
      BY <1>5, <2>1
    <3> QED BY <1>0, <2>1, <3>1 DEF TraceInOrder, m
  <2>2. CASE j = m + 1
    <3>1. i \in 1 .. m /\ trace'[i] = trace[i] /\ trace'[j].fix = f
      BY <1>5, <2>2
    <3>2. PICK v \in Words : w = v + 1
      <4>1. w - 1 \in Words /\ w = (w - 1) + 1
        BY PartsAssumption DEF Words
      <4> QED BY <4>1
    <3> QED BY <1>7, <3>1, <3>2
  <2> QED BY <1>5, <2>1, <2>2
<1>14. TornByOverlapOnly'
  <2> SUFFICES ASSUME NEW i \in 1 .. m + 1, trace'[i].fix[Parts - 1] # 0,
                      ~trace'[i].overlap, NEW w \in 1 .. Parts - 1
               PROVE  trace'[i].fix[w] = trace'[i].fix[1] + w - 1
    BY <1>5 DEF TornByOverlapOnly, Drawn
  <2>1. CASE i \in 1 .. m
    BY <1>0, <1>5, <2>1 DEF TornByOverlapOnly, Drawn, m
  <2>2. CASE i = m + 1
    <3>1. trace'[i].fix = f /\ ~o /\ f[Parts - 1] # 0
      BY <1>5, <2>2
    <3>2. ~half /\ \A v \in Words : v < n => copied[v + 1] = oem4[v]
      <4>1. CASE copied = <<>>
        <5>1. n = 0
          BY <4>1 DEF n
        <5> QED BY <1>6, <3>1, <4>1, <5>1 DEF o
      <4>2. CASE copied # <<>>
        BY <1>0, <3>1, <4>2 DEF o, CopyOfOne, n
      <4> QED BY <4>1, <4>2
    <3>3. \A v \in Words : f[v + 1] = oem4[v]
      BY <1>3, <1>6, <3>2
    <3>4. OneFix
      BY <1>0, <3>2 DEF WholeWhenStored
    <3>5. /\ Parts - 2 \in Words /\ (Parts - 2) + 1 = Parts - 1
          /\ 0 \in Words /\ 0 + 1 = 1
          /\ w - 1 \in Words /\ (w - 1) + 1 = w
      BY PartsAssumption DEF Words
    <3>6. oem4[Parts - 2] # 0 /\ f[1] = oem4[0] /\ f[w] = oem4[w - 1]
      BY <3>1, <3>3, <3>5
    <3>7. oem4[w - 1] = oem4[0] + (w - 1)
      BY <3>4, <3>5, <3>6 DEF OneFix
    <3>8. oem4[0] \in Nat
      BY <1>0, <3>5 DEF TypeOK
    <3> QED BY <3>1, <3>6, <3>7, <3>8
  <2> QED BY <1>5, <2>1, <2>2
<1> QED BY <1>8, <1>9, <1>10, <1>11, <1>12, <1>13, <1>14 DEF Traced

LEMMA TracedAlways == TraceSpec => []Traced
<1>1. Traced /\ [TraceNext]_traceVars => Traced'
  <2> SUFFICES ASSUME Traced, [TraceNext]_traceVars PROVE Traced'
    OBVIOUS
  <2>1. CASE UNCHANGED traceVars
    <3>1. Fixes'
      BY <2>1, FixesNext DEF Traced, traceVars
    <3> QED BY <2>1, <3>1 DEF Traced, traceVars, vars, reader, TraceTypeOK, StoredPast,
       CopiedPast, TracePast, Past, NotAhead, TraceInOrder, TornByOverlapOnly, Drawn,
       WholeWhenStored, CopyOfOne, OneFix
  <2> QED BY <2>1, TracedReceiver, TracedCopy, TracedPush DEF TraceNext
<1> QED BY <1>1, TracedInit, PTL DEF TraceSpec

\* GPS::update beside the loop of the GNSS module: wherever recv cuts the stream,
\* whatever is lost or repeated, and whenever the receiver is restarted, even in the
\* middle of a store, no coordinate of the trace is older than one before it.
THEOREM TraceInOrderAlways == TraceSpec => []TraceInOrder
<1>1. Traced => TraceInOrder
  BY DEF Traced
<1> QED BY <1>1, TracedAlways, PTL

\* A point of the trace that draw joins is one fix, word by word, unless its copy met
\* a store that was not complete, of a running receiver or of one that ended there.
THEOREM TornByOverlapOnlyAlways == TraceSpec => []TornByOverlapOnly
<1>1. Traced => TornByOverlapOnly
  BY DEF Traced
<1> QED BY <1>1, TracedAlways, PTL
==============================================================================
