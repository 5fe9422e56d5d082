----------------------------- MODULE PlanAddress -----------------------------
(***************************************************************************)
(* Addresses of resource instances and how the plan builder reads them      *)
(* (parseAddress of internal/planfix/planfix.go).  An address is a sequence *)
(* of tokens: the characters . [ ] " and \, the digit 9, and words, which   *)
(* stand for the letters between them.  No word continues an escape.        *)
(***************************************************************************)
EXTENDS Integers, SequencesExt

(* splitSteps: an address is cut at the dots outside of brackets and quotes. *)

Splitting == [steps |-> << >>, cur |-> << >>, depth |-> 0, quote |-> "out"]

\* SplitToken that does not know escapes.
SplitTokenWithoutEscapes(s, c) ==
    LET written == [s EXCEPT !.cur = Append(@, c)]
    IN  CASE c = "\"" -> [written EXCEPT !.quote = IF @ = "in" THEN "out" ELSE "in"]
          [] c = "[" /\ s.quote = "out" -> [written EXCEPT !.depth = @ + 1]
          [] c = "]" /\ s.quote = "out" -> [written EXCEPT !.depth = @ - 1]
          [] c = "." /\ s.quote = "out" /\ s.depth = 0 ->
               [s EXCEPT !.steps = Append(@, s.cur), !.cur = << >>]
          [] OTHER -> written

SplitToken(s, c) ==
    LET written == [s EXCEPT !.cur = Append(@, c)]
    IN  CASE s.quote = "escaped" -> [written EXCEPT !.quote = "in"]
          [] s.quote = "in" ->
               [written EXCEPT !.quote = CASE c = "\\" -> "escaped"
                                           [] c = "\"" -> "out"
                                           [] OTHER -> "in"]
          [] s.quote = "out" /\ c = "\"" -> [written EXCEPT !.quote = "in"]
          [] s.quote = "out" /\ c = "[" -> [written EXCEPT !.depth = @ + 1]
          [] s.quote = "out" /\ c = "]" -> [written EXCEPT !.depth = @ - 1]
          [] s.quote = "out" /\ c = "." /\ s.depth = 0 ->
               [s EXCEPT !.steps = Append(@, s.cur), !.cur = << >>]
          [] OTHER -> written

\* Functions that may fail return the set of their result, empty on an error.
SplitSteps(text) ==
    LET s == FoldLeft(SplitToken, Splitting, text)
    IN  IF s.quote # "out" \/ s.depth # 0 THEN {} ELSE {Append(s.steps, s.cur)}

-----------------------------------------------------------------------------
(* strconv, on what stands in brackets. *)

Atoi(idx) ==
    IF idx # << >> /\ \A i \in DOMAIN idx : idx[i] = "9"
    THEN {FoldLeft(LAMBDA n, c : 10 * n + 9, 0, idx)} ELSE {}

UnquoteToken(s, c) ==
    CASE s.escaped -> [out |-> Append(s.out, c), escaped |-> FALSE,
                       ok |-> s.ok /\ c \in {"\"", "\\"}]
      [] ~s.escaped /\ c = "\\" -> [s EXCEPT !.escaped = TRUE]
      [] OTHER -> [s EXCEPT !.out = Append(@, c), !.ok = @ /\ c # "\""]

Unquote(idx) ==
    IF Len(idx) < 2 \/ idx[1] # "\"" \/ Last(idx) # "\"" THEN {}
    ELSE LET s == FoldLeft(UnquoteToken, [out |-> << >>, escaped |-> FALSE, ok |-> TRUE],
                           SubSeq(idx, 2, Len(idx) - 1))
         IN  IF s.ok /\ ~s.escaped THEN {s.out} ELSE {}

-----------------------------------------------------------------------------
(* parseAddress *)

NoIndex == <<"null">>

\* The index in idx, an int or the text of a string.
ReadIndex(idx) ==
    IF Atoi(idx) # {} THEN {<<"int", n>> : n \in Atoi(idx)}
    ELSE {<<"string", key>> : key \in Unquote(idx)}

\* The name and the index of the last step: what is before the first bracket,
\* and what is after it, without a closing bracket at the end.
ReadName(step) ==
    LET b == SelectInSeq(step, LAMBDA c : c = "[")
        inside == SubSeq(step, b + 1, Len(step))
        idx == IF inside # << >> /\ Last(inside) = "]" THEN Front(inside) ELSE inside
    IN  IF b = 0 THEN {[name |-> step, index |-> NoIndex, indexText |-> << >>]}
        ELSE {[name |-> SubSeq(step, 1, b - 1), index |-> i,
               indexText |-> <<"[">> \o idx \o <<"]">>] : i \in ReadIndex(idx)}

\* How many pairs of module and a name the steps begin with.
ModuleDepth(steps) ==
    Max({k \in 0 .. (Len(steps) \div 2) :
            \A j \in 1 .. k : steps[2 * j - 1] = <<"module">>})

ReadSteps(steps) ==
    LET m == ModuleDepth(steps)
        rest == SubSeq(steps, 2 * m + 1, Len(steps))
        data == rest # << >> /\ rest[1] = <<"data">>
        names == IF data THEN Tail(rest) ELSE rest
    IN  IF Len(names) # 2 THEN {}
        ELSE {[modulePath |-> [k \in 1 .. m |-> steps[2 * k]],
               mode |-> IF data THEN "data" ELSE "managed",
               type |-> names[1], name |-> n.name,
               index |-> n.index, indexText |-> n.indexText] :
                n \in {n \in ReadName(names[2]) : names[1] # << >> /\ n.name # << >>}}

ParseAddress(text) == UNION {ReadSteps(steps) : steps \in SplitSteps(text)}

\* address.String
ModuleText(path) == FlattenSeq([k \in DOMAIN path |-> <<"module", ".">> \o path[k] \o <<".">>])
AddressText(a) ==
    ModuleText(a.modulePath) \o (IF a.mode = "data" THEN <<"data", ".">> ELSE << >>)
      \o a.type \o <<".">> \o a.name \o a.indexText

-----------------------------------------------------------------------------
(* How Terraform writes the address of an instance: keys are quoted, with    *)
(* quotes and backslashes in them escaped.                                   *)

Quoted(key) ==
    <<"\"">> \o FlattenSeq([i \in DOMAIN key |->
                    IF key[i] \in {"\"", "\\"} THEN <<"\\", key[i]>> ELSE <<key[i]>>])
      \o <<"\"">>

WrittenIndex(index) ==
    CASE index[1] = "null"   -> << >>
      [] index[1] = "int"    -> <<"[">> \o [i \in 1 .. (IF index[2] = 9 THEN 1 ELSE 2) |-> "9"] \o <<"]">>
      [] index[1] = "string" -> <<"[">> \o Quoted(index[2]) \o <<"]">>

\* An instance: the calls of modules it is in, each with a name and an index,
\* and its mode, type, name and index.
WrittenAs(x) ==
    FlattenSeq([k \in DOMAIN x.modules |->
        <<"module", ".">> \o x.modules[k].name \o WrittenIndex(x.modules[k].index) \o <<".">>])
      \o (IF x.mode = "data" THEN <<"data", ".">> ELSE << >>)
      \o x.type \o <<".">> \o x.name \o WrittenIndex(x.index)

=============================================================================
