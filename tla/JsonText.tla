------------------------------ MODULE JsonText ------------------------------
(***************************************************************************)
(* The JSON writer and parser the configuration and the compatibility      *)
(* database each have a copy of (src/config/config.cpp, src/compat/        *)
(* compat.cpp).  A text is a sequence of characters; a number, a keyword   *)
(* and a run of letters count as one character each.  The copies differ in *)
(* one escape: Unicode says whether \u is read.                            *)
(***************************************************************************)
EXTENDS Naturals, Sequences, SequencesExt, TLC

CONSTANT Unicode

Num(n) == [t |-> "num", n |-> n]
Bool(b) == [t |-> "bool", b |-> b]
Str(s) == [t |-> "str", s |-> s]
Arr(a) == [t |-> "arr", a |-> a]
Obj(o) == [t |-> "obj", o |-> o]

Numerals == [n \in 0 .. 9 |-> <<"0", "1", "2", "3", "4", "5", "6", "7", "8", "9">>[n + 1]]
Space == {"nl", " "}

\* What an escape stands for; "ctl" is a control character that has none of its own.
Escapes == ("q" :> "q") @@ ("bs" :> "bs") @@ ("n" :> "nl")

-----------------------------------------------------------------------------
(* Writing. *)

\* Variant for the mutant runs: a backslash is written as it is.
EscapedQuotesOnly(c) == IF c = "q" THEN <<"bs", "q">> ELSE <<c>>

Escaped(c) ==
    IF \E e \in DOMAIN Escapes : Escapes[e] = c THEN <<"bs", CHOOSE e \in DOMAIN Escapes : Escapes[e] = c>>
    ELSE IF c = "ctl" THEN <<"bs", "u", "ctl">> ELSE <<c>>

WriteString(s) == <<"q">> \o FlattenSeq([i \in DOMAIN s |-> Escaped(s[i])]) \o <<"q">>

Separated(texts) == FlattenSeq([i \in DOMAIN texts |-> (IF i = 1 THEN <<"nl">> ELSE <<",", "nl">>) \o texts[i]])

\* Written(v): a value whose elements Inner writes.
Written(v, Inner(_)) ==
    CASE v.t = "num"  -> <<Numerals[v.n]>>
      [] v.t = "bool" -> <<IF v.b THEN "true" ELSE "false">>
      [] v.t = "str"  -> WriteString(v.s)
      [] v.t = "arr"  -> <<"[">> \o Separated([i \in DOMAIN v.a |-> Inner(v.a[i])]) \o <<"nl", "]">>
      [] OTHER -> LET keys == SetToSeq(DOMAIN v.o) IN
                  <<"{">> \o Separated([i \in DOMAIN keys |-> WriteString(<<keys[i]>>) \o <<":", " ">> \o Inner(v.o[keys[i]])])
                          \o <<"nl", "}">>

\* The depth of the texts written, bound: a file, a section, a list, its items, their fields.
WriteField(v) == Written(v, LAMBDA none : <<>>)
WriteItem(v) == Written(v, WriteField)
WriteList(v) == Written(v, WriteItem)
WriteSection(v) == Written(v, WriteList)
WriteJson(v) == Written(v, WriteSection)

-----------------------------------------------------------------------------
(* Reading: the value and the place after it, or no value. *)

Fail == [ok |-> FALSE]
Got(v, at) == [ok |-> TRUE, v |-> v, at |-> at]
CharAt(text, i) == IF i <= Len(text) THEN text[i] ELSE "end"

\* The first place from i on that is no space.
SkipWs(text, i) == CHOOSE at \in i .. Len(text) + 1 :
    (at > Len(text) \/ text[at] \notin Space) /\ \A k \in i .. at - 1 : text[k] \in Space
Next(text, i) == CharAt(text, SkipWs(text, i))

\* What r read comes after c.
After(c, r) == IF r.ok THEN Got(Str(<<c>> \o r.v.s), r.at) ELSE Fail

ParseChars(text, from) ==
    LET chars[i \in Nat] ==
          CASE CharAt(text, i) = "q" -> Got(Str(<<>>), i + 1)
            [] CharAt(text, i) = "bs" /\ CharAt(text, i + 1) \in DOMAIN Escapes -> After(Escapes[text[i + 1]], chars[i + 2])
            [] CharAt(text, i) = "bs" /\ CharAt(text, i + 1) = "u" /\ Unicode /\ i + 2 <= Len(text) ->
                  After(text[i + 2], chars[i + 3])
            [] CharAt(text, i) \notin {"q", "bs", "end"} -> After(text[i], chars[i + 1])
            [] OTHER -> Fail
    IN chars[from]

ParseString(text, i) == IF Next(text, i) = "q" THEN ParseChars(text, SkipWs(text, i) + 1) ELSE Fail

\* What stands at i: a value, the members of an object or the items of an array.  A
\* later member of the same name replaces an earlier one.
ParseAt(text, from) ==
    LET parsed[what \in {"value", "members", "items"}, i \in Nat] ==
          LET c    == CharAt(text, i)
              key  == ParseString(text, i)
              item == IF what = "items" THEN parsed["value", SkipWs(text, i)]
                      ELSE IF key.ok /\ Next(text, key.at) = ":"
                      THEN parsed["value", SkipWs(text, SkipWs(text, key.at) + 1)] ELSE Fail
              at   == SkipWs(text, item.at)
              next == CharAt(text, at)
              rest == parsed[what, at + 1]
          IN CASE what = "value" /\ c = "q" -> ParseChars(text, i + 1)
               [] what = "value" /\ c \in {"true", "false"} -> Got(Bool(c = "true"), i + 1)
               [] what = "value" /\ (\E n \in DOMAIN Numerals : Numerals[n] = c) ->
                     Got(Num(CHOOSE n \in DOMAIN Numerals : Numerals[n] = c), i + 1)
               [] what = "value" /\ c = "{" ->
                     IF Next(text, i + 1) = "}" THEN Got(Obj(<<>>), SkipWs(text, i + 1) + 1) ELSE parsed["members", i + 1]
               [] what = "value" /\ c = "[" ->
                     IF Next(text, i + 1) = "]" THEN Got(Arr(<<>>), SkipWs(text, i + 1) + 1) ELSE parsed["items", i + 1]
               [] what = "members" /\ item.ok /\ next = "}" ->
                     Got(Obj(key.v.s[1] :> item.v), at + 1)
               [] what = "members" /\ item.ok /\ next = "," ->
                     IF rest.ok THEN Got(Obj(rest.v.o @@ (key.v.s[1] :> item.v)), rest.at) ELSE Fail
               [] what = "items" /\ item.ok /\ next = "]" ->
                     Got(Arr(<<item.v>>), at + 1)
               [] what = "items" /\ item.ok /\ next = "," ->
                     IF rest.ok THEN Got(Arr(<<item.v>> \o rest.v.a), rest.at) ELSE Fail
               [] OTHER -> Fail
    IN parsed["value", from]

\* The whole text is one value.
Whole(text, r) == IF r.ok /\ Next(text, r.at) = "end" THEN r ELSE Fail
Parse(text) == Whole(text, ParseAt(text, SkipWs(text, 1)))

\* Field: absent fields and fields of things that are no objects read as null.
Field(v, key) == IF v.t = "obj" /\ key \in DOMAIN v.o THEN v.o[key] ELSE [t |-> "null"]
=============================================================================
