---------------------------- MODULE MCChangeDiff ----------------------------
(***************************************************************************)
(* Small changes for TLC, over two keys, two strings, the empty string and  *)
(* one number, with the markers Terraform can put beside them: they mirror  *)
(* the value, and unknown parts are absent from it.  One family explores    *)
(* the sensitivity markers, one the shapes of values and one long lists.    *)
(***************************************************************************)
EXTENDS ChangeDiff, MCTrees

a == Key(1)
b == Key(2)

S == Scalar("s")
T == Scalar("t")
E == Scalar("")
N == Scalar("7")

MCStrings == {"s", "t", ""}
MCAtoms == {"7"}

Change(old, new) ==
    [before |-> old[1], beforeSensitive |-> old[2],
     after |-> new[1], afterUnknown |-> new[2], afterSensitive |-> new[3]]

Changed(befores, afters) == {Change(old, new) : old \in befores, new \in afters}

\* A map with x at key a, and with x at a and y at b.
One(xs) == {Map(a :> x) : x \in xs}
Two(xs, ys) == {Map(a :> x @@ b :> y) : x \in xs, y \in ys}

-----------------------------------------------------------------------------
(* Masking: every sensitivity marker over a few shapes. *)

Blocks == {S, E, Map(a :> S), List(<<T, S>>)}
Marks ==
    LET inner == {Yes, Map(a :> Yes), List(<<No, Yes>>)}
    IN  {No, Yes, Map(b :> Yes)} \cup One(inner) \cup Two(inner, {Yes})

MaskedFamily ==
    Changed(BeforesOver({Null} \cup One(Blocks) \cup Two(Blocks, {S}), Marks),
            AftersOver({Map(<< >>), Map(b :> S)} \cup One(Blocks) \cup Two(Blocks, {T}),
                       {No, Map(a :> Yes)}, Marks))

-----------------------------------------------------------------------------
(* Shapes: every unknown marker over many shapes, nothing sensitive. *)

Shapes ==
    {S, N, Null, Map(<< >>), List(<< >>), Map(a :> S), Map(a :> Null), Map(a :> S @@ b :> T),
     List(<<S>>), List(<<S, T>>), List(<<Map(a :> S)>>)}
Unknowns ==
    LET inner == {Yes, Map(<< >>), Map(a :> Yes), Map(b :> Yes), List(<<Yes>>),
                  List(<<No, Yes>>), List(<<Map(a :> Yes)>>)}
    IN  {No, Yes, Map(<< >>), Map(b :> Yes)} \cup One(inner) \cup Two(inner, {Yes})
Roots == {Null, S, Map(<< >>), List(<< >>)}

ShapeFamily ==
    Changed(BeforesOver(Roots \cup One(Shapes) \cup Two(Shapes, {S}), {No}),
            AftersOver(Roots \cup One(Shapes) \cup Two({S, N, Map(a :> S)}, {S, Null}), Unknowns, {No}))

-----------------------------------------------------------------------------
(* Long lists, of scalars or blocks and in a block, around ten elements. *)

Repeated(x, n) == List([i \in 1 .. n |-> x])
LongFamily ==
    Changed(BeforesOver(One({Repeated(S, 11), List(<<Map(b :> Repeated(Map(a :> S), 11))>>)}), {No}),
            AftersOver({Null} \cup One({Repeated(S, 3), Repeated(Map(a :> T), 11)}), {No}, {No}))

MCChanges == MaskedFamily \cup ShapeFamily \cup LongFamily

=============================================================================
