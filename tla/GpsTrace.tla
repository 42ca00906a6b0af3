------------------------------- MODULE GpsTrace -------------------------------
(***************************************************************************)
(* The display's trace of the vehicle (GPS::update and GPS::draw,           *)
(* DisplayModule/src/GPS.cpp) beside the GNSS module that writes the fix it *)
(* samples.  About once a second the display copies the fix, word by word   *)
(* and with no lock, to the end of a vector that only grows.                *)
(*                                                                         *)
(* The display's timer decides when a copy starts; here it may start at any *)
(* time.  draw leaves out the points whose height is zero.                  *)
(***************************************************************************)
EXTENDS GnssReceiver, Sequences

CONSTANT MaxTrace   \* bound on the points of the trace

ASSUME TraceAssumption == MaxTrace \in Nat

VARIABLES
    copied,     \* words of the fix being copied, in their order
    trace,      \* GPS::data: the points, and what their copies overlapped with
    half,       \* history: a store of the fix has begun and is not complete
    overlap     \* history: the fix changed, or was half stored, during the copy

reader == <<copied, trace, overlap>>
traceVars == <<vars, reader, half>>

TraceInit == Init /\ copied = <<>> /\ trace = <<>> /\ half = FALSE /\ overlap = FALSE

\* A step of the GNSS module or its server.
Receiver ==
    /\ Next
    /\ half' = IF oem4' # oem4 \/ pc' = "kept" THEN pc' # "kept" ELSE half
    /\ overlap' = (overlap \/ (copied # <<>> /\ (half' \/ oem4' # oem4)))
    /\ UNCHANGED <<copied, trace>>

\* Copy the next word, starting the copy with the first.
CopyWord ==
    /\ Len(trace) < MaxTrace
    /\ Len(copied) < Parts - 2
    /\ copied' = Append(copied, oem4[Len(copied)])
    /\ overlap' = IF copied = <<>> THEN half ELSE overlap
    /\ UNCHANGED <<vars, trace, half>>

\* A mutant of PushBack: the newest point comes first.
PushFront ==
    /\ Len(trace) < MaxTrace
    /\ Len(copied) = Parts - 2
    /\ trace' = <<[fix |-> Append(copied, oem4[Len(copied)]),
                   overlap |-> IF copied = <<>> THEN half ELSE overlap]>> \o trace
    /\ copied' = <<>> /\ overlap' = FALSE
    /\ UNCHANGED <<vars, half>>

\* data.push_back, with the last word.
PushBack ==
    /\ Len(trace) < MaxTrace
    /\ Len(copied) = Parts - 2
    /\ trace' = Append(trace, [fix |-> Append(copied, oem4[Len(copied)]),
                               overlap |-> IF copied = <<>> THEN half ELSE overlap])
    /\ copied' = <<>> /\ overlap' = FALSE
    /\ UNCHANGED <<vars, half>>

TraceNext == Receiver \/ CopyWord \/ PushBack

TraceSpec == TraceInit /\ [][TraceNext]_traceVars

(***************************************************************************)
(* Properties.                                                             *)
(***************************************************************************)
\* The points draw joins: the ones with a height.
Drawn == {i \in 1 .. Len(trace) : trace[i].fix[Parts - 1] # 0}

\* The line follows the vehicle: whatever is lost, cut, repeated or torn on the
\* way from the receiver to the display, no coordinate of a point is older than
\* the same coordinate of a point before it, where both are of a fix.
TraceInOrder ==
    \A i, j \in 1 .. Len(trace) : i < j =>
        \A w \in 1 .. Parts - 1 :
            trace[j].fix[w] # 0 => trace[i].fix[w] <= trace[j].fix[w]

\* A point mixes two fixes only if the copy met the receiver in the middle of
\* storing one, or met what a receiver that ended there left behind.
TornByOverlapOnly ==
    \A i \in Drawn : ~trace[i].overlap =>
        \A w \in 1 .. Parts - 1 : trace[i].fix[w] = trace[i].fix[1] + w - 1
==============================================================================
