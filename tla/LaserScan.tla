------------------------------ MODULE LaserScan ------------------------------
(***************************************************************************)
(* The laser's region of shared memory, written by LaserModule/src/Main.cpp *)
(* and drawn by LIDAR::draw (DisplayModule/src/LIDAR.cpp) with no lock      *)
(* between them.  parsePointCloud stores one point after the other and its  *)
(* caller stores their number; the display tests the number and reads a     *)
(* point, for every point of every frame.                                   *)
(*                                                                         *)
(* A point is modelled as the scan that wrote it: 0 is the (0, 0) of fresh  *)
(* shared memory.  The loop that stores the points counts the tokens of the *)
(* telegram and uses the same counter as the index into the array, so the   *)
(* first point is stored Lead (6) places into it.                           *)
(***************************************************************************)
EXTENDS Integers

CONSTANTS
    Lead,       \* tokens before the first distance
    Cap,        \* places in the array of points
    Lengths,    \* the numbers of distances (numData) a telegram announces
    MaxScan     \* bound on the number of scans

VARIABLES
    cell,       \* points, as the scan each was stored by
    count,      \* *numPoints
    writer,     \* where the laser module is
    scan,       \* the scan it is parsing
    len, have,  \* distances it announces, and distances it holds
    at,         \* distances stored
    reader,     \* where the display is in LIDAR::draw
    next,       \* the point it is at
    since       \* history: the last whole scan when it tested the number

\* The array has room for every telegram: the code never checks it.
ASSUME LengthsAssumption ==
    /\ Lead \in Nat /\ Cap \in Nat /\ MaxScan \in Nat
    /\ Lengths \subseteq 0 .. (Cap - Lead)

memory == <<cell, count>>
parser == <<writer, scan, len, have, at>>
view == <<reader, next, since>>
vars == <<memory, parser, view>>

Places == 0 .. (Cap - 1)

Init ==
    /\ cell = [i \in Places |-> 0]
    /\ count = 0
    /\ writer = "idle" /\ scan = 0 /\ len = 0 /\ have = 0 /\ at = 0
    /\ reader = "test" /\ next = 0 /\ since = 0

\* The last scan that was stored whole.
Whole == IF writer = "parse" \/ at < len THEN scan - 1 ELSE scan

(***************************************************************************)
(* The laser module.                                                       *)
(***************************************************************************)
\* A mutant of Receive: the number is stored ahead of the points.
ReceiveAndCount ==
    /\ writer = "idle" /\ scan < MaxScan
    /\ scan' = scan + 1 /\ at' = 0
    /\ len' \in Lengths /\ have' \in 0 .. len'
    /\ count' = len'
    /\ writer' = "parse"
    /\ UNCHANGED <<cell, view>>

\* A telegram, whole or cut short by the buffer or by recv.  After a recv that
\* failed it is the previous one again.
Receive ==
    /\ writer = "idle" /\ scan < MaxScan
    /\ scan' = scan + 1 /\ at' = 0
    /\ len' \in Lengths /\ have' \in 0 .. len'
    /\ writer' = "parse"
    /\ UNCHANGED <<memory, view>>

\* No DIST1, or a header that is not there: substr, at, stod or stoi throws.
Malformed ==
    /\ writer = "idle"
    /\ writer' = "dead"
    /\ UNCHANGED <<memory, scan, len, have, at, view>>

\* A mutant of StorePoint: the points are stored from the last place down.
StoreBackwards ==
    /\ writer = "parse" /\ at < len /\ at < have
    /\ cell' = [cell EXCEPT ![Lead + len - 1 - at] = scan]
    /\ at' = at + 1
    /\ UNCHANGED <<count, writer, scan, len, have, view>>

\* One turn of the loop ...
StorePoint ==
    /\ writer = "parse" /\ at < len /\ at < have
    /\ cell' = [cell EXCEPT ![Lead + at] = scan]
    /\ at' = at + 1
    /\ UNCHANGED <<count, writer, scan, len, have, view>>

\* ... or dataVector.at(i) throws, and nothing catches it.
RunsOut ==
    /\ writer = "parse" /\ at < len /\ at >= have
    /\ writer' = "dead"
    /\ UNCHANGED <<memory, scan, len, have, at, view>>

\* *numPoints = numData
Publish ==
    /\ writer = "parse" /\ at = len
    /\ count' = len
    /\ writer' = "idle"
    /\ UNCHANGED <<cell, scan, len, have, at, view>>

(***************************************************************************)
(* The display.                                                            *)
(***************************************************************************)
\* i < *numPoints, read anew for every point: the frame is over if it fails.
TestCount ==
    /\ reader = "test"
    /\ \/ next < count /\ reader' = "draw" /\ next' = next
       \/ next >= count /\ reader' = "test" /\ next' = 0
    /\ since' = Whole
    /\ UNCHANGED <<memory, parser>>

DrawPoint ==
    /\ reader = "draw"
    /\ reader' = "test" /\ next' = next + 1
    /\ UNCHANGED <<memory, parser, since>>

Next ==
    \/ Receive \/ Malformed \/ StorePoint \/ RunsOut \/ Publish
    \/ TestCount \/ DrawPoint

Spec == Init /\ [][Next]_vars

(***************************************************************************)
(* Properties.                                                             *)
(***************************************************************************)
\* Every variable has its type.
TypeOK ==
    /\ cell \in [Places -> 0 .. MaxScan]
    /\ count \in Lengths \cup {0}
    /\ writer \in {"idle", "parse", "dead"}
    /\ scan \in 0 .. MaxScan
    /\ len \in Lengths \cup {0} /\ have \in 0 .. len /\ at \in 0 .. len
    /\ reader \in {"test", "draw"}
    /\ next \in 0 .. Cap
    /\ since \in 0 .. MaxScan

\* A display that draws while scans are stored, get shorter or break off never
\* draws the ghost of an older scan: a point within the number it tested is of
\* the last whole scan at that time or of a newer one, for the number follows
\* the points it counts.
NoGhosts == reader = "draw" /\ next >= Lead => cell[next] >= since

\* However scans of different lengths overlay each other or break off, the array is
\* at every instant a sequence of sectors, each of one scan and none of a newer scan
\* than the one before it.  A drawing takes many steps: one that the laser module
\* overtakes meets an older point before a newer one.
NewestFirst == \A i, j \in Lead .. (Cap - 1) : i < j => cell[i] >= cell[j]

\* LaserModule/src/Main.cpp:73,74: the number stored with a scan is the length
\* of the array of its points, so that the display draws all of them.
LengthOfCoords ==
    writer = "idle" => \A i \in Places : scan > 0 /\ cell[i] = scan => i < count
==============================================================================
