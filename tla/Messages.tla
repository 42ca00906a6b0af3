------------------------------- MODULE Messages ------------------------------
(***************************************************************************)
(* The texts in which vehicles and obstacles are told (DisplayModule/src/   *)
(* Messages.cpp): what operator<< writes, and what the functions that read  *)
(* it make of a text some of whose characters are missing.                 *)
(*                                                                         *)
(* A text is the sequence of its fields; the seven numbers of a shape's     *)
(* place and colour are one field.  sscanf counts the numbers that it finds *)
(* and does not ask for the bracket behind the last: a field that is cut    *)
(* ("cut") lacks a number and is refused, one that only lost the end of a   *)
(* number ("short") is taken, with another number.                         *)
(***************************************************************************)
EXTENDS Integers, Sequences, FiniteSets

CONSTANT MaxShapes  \* bound on the shapes of a model, and on the length of a list

ASSUME MessageAssumption == MaxShapes \in Nat

VARIABLES
    model,      \* the shapes of the model that is told
    message,    \* its text, a sequence of one record for each shape
    hurt,       \* history: for each shape, what of it is lost
    readBack,   \* the shapes that GetVehicleModels makes of it
    isRead,     \* it is read
    listed      \* a list: of what, how many it announces, its text, what is read

messageVars == <<model, message, hurt, readBack, isRead, listed>>

Kinds == {"rect", "tri", "trap", "cyl"}

\* The members of ShapeParameter, by their places in its structures.
Arity(kind) == [rect |-> 3, tri |-> 4, trap |-> 5, cyl |-> 2][kind]

\* operator<<(ostream, ShapeInit): the order in which the members are written.
WriteOrder(kind) ==
    [rect |-> <<1, 2, 3>>, tri |-> <<1, 3, 2, 4>>, trap |-> <<1, 4, 2, 5, 3>>, cyl |-> <<2, 1>>][kind]

\* GetVehicleModels: the order in which they are read.
ReadOrder(kind) ==
    [rect |-> <<1, 2, 3>>, tri |-> <<1, 2, 3, 4>>, trap |-> <<1, 2, 3, 4, 5>>, cyl |-> <<1, 2>>][kind]

Attributes(kind) == IF kind = "cyl" THEN BOOLEAN ELSE {FALSE}
ShapesOf(kind) ==
    [kind : {kind}, params : {[i \in 1 .. Arity(kind) |-> i]},
     rolling : Attributes(kind), steering : Attributes(kind)]
Shapes == UNION {ShapesOf(kind) : kind \in Kinds}

\* What is written of a shape: wheel and steer only of a cylinder.
Written(s) ==
    [type |-> s.kind,
     params |-> [i \in 1 .. Arity(s.kind) |-> s.params[WriteOrder(s.kind)[i]]],
     place |-> "whole",
     attrs |-> IF s.kind = "cyl" THEN {<<"wheel", s.rolling>>, <<"steer", s.steering>>} ELSE {}]

\* The attributes are asked for until the text ends: one that is not found is FALSE.
HasAttr(t, name) == <<name, TRUE>> \in t.attrs

\* The type is known, and sscanf counts every parameter and the seven of the place.
Understood(t) == t.type \in Kinds /\ Len(t.params) >= Arity(t.type) /\ t.place # "cut"

Index(order, i) == CHOOSE j \in 1 .. Len(order) : order[j] = i

ReadShape(t) ==
    [kind |-> t.type,
     params |-> [i \in 1 .. Arity(t.type) |-> t.params[Index(ReadOrder(t.type), i)]],
     rolling |-> HasAttr(t, "wheel"), steering |-> HasAttr(t, "steer"), place |-> t.place]

\* What a loop of n turns has in its vector that adds item i in its turn i of good.
Collected(n, good, item) ==
    LET ret[i \in 0 .. n] ==
            IF i = 0 THEN <<>>
            ELSE IF i \in good THEN Append(ret[i - 1], item[i]) ELSE ret[i - 1]
    IN  ret[n]

\* A mutant of ReadModel: the first shape that is not understood ends the model.
ReadModelUntil(m) ==
    LET n == CHOOSE n \in 0 .. Len(m) :
                /\ \A i \in 1 .. n : Understood(m[i])
                /\ n < Len(m) => ~Understood(m[n + 1])
    IN  [i \in 1 .. n |-> ReadShape(m[i])]

\* GetVehicleModels: shape by shape, and those that are understood are added.
ReadModel(m) ==
    Collected(Len(m), {i \in 1 .. Len(m) : Understood(m[i])},
              [i \in 1 .. Len(m) |-> ReadShape(m[i])])

Lists == {"obstacles", "vehicles", "departed", "goal"}
Items == {"whole", "short", "cut"}
Legible(told, i) == i <= Len(told) /\ told[i] # "cut"

\* GetObstacles and GetVehicleStates: item by item, as many as are announced, and
\* those are added in which sscanf counts every number.
ReadChecked(n, told) == Collected(n, {i \in 1 .. n : Legible(told, i)}, told)

\* A mutant of ReadUnchecked: one more is read than is announced.
ReadOneMore(n, told) ==
    [i \in 1 .. n + 1 |-> IF \A j \in 1 .. i : Legible(told, j) THEN told[i] ELSE "any"]

\* GetVehicleDisconnects and GetGoalState take n numbers and do not ask whether
\* there were as many: from the first that cannot be read they are indeterminate.
ReadUnchecked(n, told) ==
    [i \in 1 .. n |-> IF \A j \in 1 .. i : Legible(told, j) THEN told[i] ELSE "any"]

ReadList(of, n, told) ==
    IF of \in {"obstacles", "vehicles"} THEN ReadChecked(n, told) ELSE ReadUnchecked(n, told)

NoList == [of |-> "vehicles", announced |-> 0, told |-> <<>>, read |-> <<>>]

MessageInit ==
    /\ model = <<>> /\ message = <<>> /\ hurt = <<>> /\ readBack = <<>> /\ isRead = FALSE
    /\ listed = NoList

\* One more shape is written.
TellShape ==
    /\ ~isRead /\ Len(model) < MaxShapes
    /\ \E s \in Shapes : model' = Append(model, s) /\ message' = Append(message, Written(s))
    /\ hurt' = Append(hurt, "nothing")
    /\ listed' = NoList
    /\ UNCHANGED <<isRead, readBack>>

\* The text of a shape when something of it is lost: its type; a whole parameter, or
\* the end of one; the end of a number of its place, or that number; an attribute.
Without(t, what) ==
    CASE what = "nothing"   -> {t}
      [] what = "type"      -> {[t EXCEPT !.type = "?"]}
      [] what = "parameter" -> {[t EXCEPT !.params = Tail(@)]}
      [] what = "digit"     -> {[t EXCEPT !.params[j] = 0] : j \in 1 .. Len(t.params)}
      [] what = "place"     -> {[t EXCEPT !.place = "cut"]}
      [] what = "colour"    -> {[t EXCEPT !.place = "short"]}
      [] what = "attribute" -> {[t EXCEPT !.attrs = @ \ {a}] : a \in t.attrs}

Losses == {"type", "parameter", "digit", "place", "colour", "attribute"}

\* Something of a shape is lost on the way.
LoseField ==
    /\ ~isRead
    /\ \E i \in 1 .. Len(message), what \in Losses :
        /\ hurt[i] = "nothing"
        /\ \E t \in Without(message[i], what) : message' = [message EXCEPT ![i] = t]
        /\ hurt' = [hurt EXCEPT ![i] = what]
    /\ UNCHANGED <<model, isRead, readBack, listed>>

GetModel ==
    /\ ~isRead
    /\ isRead' = TRUE /\ readBack' = ReadModel(message)
    /\ UNCHANGED <<model, message, hurt, listed>>

\* A text of another kind, some of it lost: a count and as many items, of which the
\* last may be missing; a goal has two numbers, and vehicles are not counted.
GetList ==
    /\ model = <<>>
    /\ \E of \in Lists, announced \in 0 .. MaxShapes :
        \E n \in 0 .. announced : \E told \in [1 .. n -> Items] :
            /\ of = "goal" => announced = 2
            /\ of = "vehicles" => n = announced
            /\ listed' = [of |-> of, announced |-> announced, told |-> told,
                          read |-> ReadList(of, announced, told)]
    /\ UNCHANGED <<model, message, hurt, isRead, readBack>>

\* The next text is told.
NextMessage ==
    /\ isRead /\ isRead' = FALSE
    /\ model' = <<>> /\ message' = <<>> /\ hurt' = <<>> /\ readBack' = <<>>
    /\ listed' = listed

MessageNext == TellShape \/ LoseField \/ GetModel \/ GetList \/ NextMessage

MessageSpec == MessageInit /\ [][MessageNext]_messageVars

(***************************************************************************)
(* Properties.                                                             *)
(***************************************************************************)
\* What is lost of a shape never touches another: without its type, a parameter or
\* its place it is left out; every other shape is there, in its order.  One of which
\* less is lost is taken all the same: a digit makes one of its numbers another,
\* a wheel without its attribute no longer rolls or steers, but none begins to.  Of a
\* whole shape the numbers are there, each once; but only a rectangular prism has all
\* of them in their places (Messages.cpp:224-237 and 106-128 differ).
ComesAs(s, r, what) ==
    LET n == Arity(s.kind)
        numbers == {r.params[j] : j \in 1 .. n}
    IN  /\ r.kind = s.kind /\ (r.place = "whole" <=> what # "colour")
        /\ r.rolling => s.rolling
        /\ r.steering => s.steering
        /\ what # "attribute" => r.rolling = s.rolling /\ r.steering = s.steering
        /\ what = "digit" => \E k \in 1 .. n : numbers = ((1 .. n) \ {k}) \cup {0}
        /\ what # "digit" => numbers = 1 .. n /\ (s.kind = "rect" <=> r.params = s.params)

LossCostsOneShape ==
    isRead =>
        LET left == {i \in 1 .. Len(model) : hurt[i] \notin {"type", "parameter", "place"}}
        IN  /\ Len(readBack) = Cardinality(left)
            /\ \A i \in left :
                ComesAs(model[i], readBack[Cardinality((1 .. i) \cap left)], hurt[i])

\* Every obstacle or vehicle of which no number is missing is read, as told and in its
\* order, and no other: one that lost the end of a number is taken for another.  A
\* departed vehicle or a goal is made up if a number is missing, and only then; as many
\* are read as are announced in any case.
CutItemsLeftOut ==
    LET legible == {i \in 1 .. listed.announced : Legible(listed.told, i)}
        read == listed.read
    IN  /\ listed.of \in {"obstacles", "vehicles"} =>
            /\ Len(read) = Cardinality(legible)
            /\ \A i \in legible : read[Cardinality((1 .. i) \cap legible)] = listed.told[i]
        /\ listed.of \notin {"obstacles", "vehicles"} =>
            /\ Len(read) = listed.announced
            /\ legible = 1 .. listed.announced <=> "any" \notin {read[i] : i \in 1 .. Len(read)}
            /\ legible = 1 .. listed.announced =>
                \A i \in 1 .. Len(read) : read[i] = listed.told[i]
==============================================================================
