----------------------------- MODULE LaserProofs -----------------------------
(***************************************************************************)
(* Proofs about LaserScan, for telegrams of any lengths the array has room *)
(* for.  Scans is the inductive invariant: what is stored so far is a      *)
(* prefix of the scan being parsed, over what the number covers, which is  *)
(* at least as new as the last whole scan.                                 *)
(***************************************************************************)
EXTENDS LaserScan, TLAPS

Bounded == \A i \in Places : cell[i] <= scan
Prefix == \A i \in Places : Lead <= i /\ i < Lead + at => cell[i] = scan
Counted == \A i \in Places : Lead <= i /\ i < Lead + count => cell[i] >= Whole
Drawing ==
    /\ since <= Whole
    /\ reader = "draw" => next < Cap
    /\ reader = "draw" /\ next >= Lead => cell[next] >= since
Parsing ==
    /\ writer = "idle" => at = len
    /\ writer = "parse" => scan > 0

Scans ==
    /\ TypeOK /\ Parsing /\ Bounded /\ Prefix /\ Counted /\ Drawing
    /\ NewestFirst

LEMMA ScansInit == Init => Scans
BY LengthsAssumption
   DEF Init, Scans, TypeOK, Parsing, Bounded, Prefix, Counted, Drawing,
       NewestFirst, Places, Whole

\* Any step keeps the types; the length of a telegram fits the array.
LEMMA Types == TypeOK /\ Parsing /\ Drawing /\ [Next]_vars => TypeOK'
<1> SUFFICES ASSUME TypeOK, Parsing, Drawing, [Next]_vars PROVE TypeOK'
  OBVIOUS
<1> USE LengthsAssumption DEF TypeOK
<1>1. CASE Receive
  BY <1>1 DEF Receive, memory, view
<1>2. CASE Malformed \/ RunsOut
  BY <1>2 DEF Malformed, RunsOut, memory, view
<1>3. CASE StorePoint
  BY <1>3 DEF StorePoint, view, Places
<1>4. CASE Publish
  BY <1>4 DEF Publish, view
<1>5. CASE TestCount
  <2>1. Whole \in 0 .. MaxScan
    BY DEF Whole, Parsing, Drawing
  <2> QED BY <1>5, <2>1 DEF TestCount, memory, parser
<1>6. CASE DrawPoint
  BY <1>6 DEF DrawPoint, memory, parser, Drawing
<1>7. CASE UNCHANGED vars
  BY <1>7 DEF vars, memory, parser, view
<1> QED BY <1>1, <1>2, <1>3, <1>4, <1>5, <1>6, <1>7 DEF Next

LEMMA ScansNext == Scans /\ [Next]_vars => Scans'
<1> SUFFICES ASSUME Scans, [Next]_vars PROVE Scans'
  OBVIOUS
<1>0. TypeOK /\ TypeOK'
  BY Types DEF Scans
<1> USE LengthsAssumption, <1>0
    DEF Scans, TypeOK, Parsing, Bounded, Prefix, Counted, Drawing,
        NewestFirst, Places, Whole
<1>1. CASE Receive
  BY <1>1 DEF Receive, memory, view
<1>2. CASE Malformed \/ RunsOut
  BY <1>2 DEF Malformed, RunsOut, memory, view
<1>3. CASE StorePoint
  <2> USE <1>3 DEF StorePoint, view
  <2>1. Lead + at \in Places /\ cell' = [cell EXCEPT ![Lead + at] = scan]
    OBVIOUS
  <2>2. /\ \A i \in Places : cell'[i] = IF i = Lead + at THEN scan ELSE cell[i]
        /\ \A i \in Places : cell'[i] >= cell[i]
    BY <2>1
  <2>3. Bounded' /\ Prefix' /\ Parsing' /\ Counted'
    BY <2>2
  <2>4. NewestFirst'
    BY <2>2
  <2>5. Drawing'
    BY <2>2
  <2> QED BY <2>3, <2>4, <2>5
<1>4. CASE Publish
  BY <1>4 DEF Publish, view
<1>5. CASE TestCount
  BY <1>5 DEF TestCount, memory, parser
<1>6. CASE DrawPoint
  BY <1>6 DEF DrawPoint, memory, parser
<1>7. CASE UNCHANGED vars
  BY <1>7 DEF vars, memory, parser, view
<1> QED BY <1>1, <1>2, <1>3, <1>4, <1>5, <1>6, <1>7 DEF Next

\* For any lengths of the telegrams, any interleaving of the two processes and
\* a parser that may break off anywhere, the display draws no ghosts.
THEOREM NoGhostsAlways == Spec => []NoGhosts
<1>1. Scans => NoGhosts
  BY DEF Scans, Drawing, NoGhosts
<1> QED BY <1>1, ScansInit, ScansNext, PTL DEF Spec

\* Under the same conditions the array is at every instant made of sectors, the
\* newest scan first.
THEOREM NewestFirstAlways == Spec => []NewestFirst
<1>1. Scans => NewestFirst
  BY DEF Scans
<1> QED BY <1>1, ScansInit, ScansNext, PTL DEF Spec
==============================================================================
