------------------------------ MODULE StrictJSON ------------------------------
(***************************************************************************)
(* The strict JSON parser and the canonical form of web/apostille-json.mjs *)
(* (the console's, the SDK's and the verifier's one reader of files and    *)
(* payloads).  A text is a sequence of tokens, read one by one; the        *)
(* recursion of parseValue, parseArray and parseObject is a stack of open  *)
(* containers.  A string token has a spelling, which may hold escapes, and *)
(* a meaning.                                                              *)
(***************************************************************************)
EXTENDS SequencesExt

CONSTANTS Meaning,     \* string tokens and what they denote; Undefined: a lone surrogate
          KeyOrder,    \* meanings in the order of sort()
          MaxDepth,    \* containers inside one another (24 in the code)
          MaxTokens,   \* bounds the texts read
          Undefined    \* no value

Strings == DOMAIN Meaning
Numeral == "1"
Tokens == Strings \cup {Numeral, "[", "]", "{", "}", ",", ":", " "}

ASSUME StrictJSONAssumption ==
    /\ MaxDepth \in Nat /\ MaxTokens \in Nat
    /\ \A k \in ToSet(KeyOrder) : k \in Strings /\ Meaning[k] = k
    /\ \A s \in Strings : Meaning[s] \in ToSet(KeyOrder) \cup {Undefined}

VARIABLES text,      \* what has been read
          stack,     \* open containers, the innermost last
          root,      \* the value of the text
          outcome

jsonVars == <<text, stack, root, outcome>>

String(s) == <<"string", s>>
Number == <<"number">>
Array(items) == <<"array", items>>
Object(members) == <<"object", members>>

NewArray == [kind |-> "array", items |-> <<>>, expect |-> {"value", "close"}]
NewObject == [kind |-> "object", items |-> <<>>, key |-> Undefined, expect |-> {"key", "close"}]

Members(items) ==
    [k \in {m[1] : m \in ToSet(items)} |-> (CHOOSE m \in ToSet(items) : m[1] = k)[2]]

Closed(frame) ==
    IF frame.kind = "array" THEN Array(frame.items) ELSE Object(Members(frame.items))

Expected ==
    CASE stack # <<>> -> Last(stack).expect
      [] root = Undefined -> {"value"}
      [] OTHER -> {"end"}

Read(token) ==
    /\ outcome = "parsing" /\ Len(text) < MaxTokens
    /\ text' = Append(text, token)

Top(frame) == stack' = Append(Front(stack), frame)

\* A complete value goes to the container open below `open`, or is the root.
Deliver(open, value) ==
    IF open = <<>>
    THEN root' = value /\ stack' = open
    ELSE LET frame == Last(open)
             item == IF frame.kind = "array" THEN value ELSE <<frame.key, value>>
         IN  /\ stack' = Append(Front(open),
                                [frame EXCEPT !.items = Append(@, item),
                                              !.expect = {"separator", "close"}])
             /\ UNCHANGED root

Reject(code) == outcome' = code /\ UNCHANGED <<stack, root>>

SkipWhitespace == Read(" ") /\ UNCHANGED <<stack, root, outcome>>

ParseString(s) ==
    /\ "value" \in Expected
    /\ Read(s)
    /\ IF Meaning[s] = Undefined
       THEN Reject("invalid_json")
       ELSE Deliver(stack, String(Meaning[s])) /\ UNCHANGED outcome

\* Numbers parse; parseStrict refuses them when the text has ended.
ParseNumber ==
    /\ "value" \in Expected
    /\ Read(Numeral)
    /\ Deliver(stack, Number)
    /\ UNCHANGED outcome

Open(bracket, frame) ==
    /\ "value" \in Expected
    /\ Read(bracket)
    /\ IF Len(stack) >= MaxDepth
       THEN Reject("json_depth_exceeded")
       ELSE stack' = Append(stack, frame) /\ UNCHANGED <<root, outcome>>

Close(bracket, kind) ==
    /\ "close" \in Expected /\ Last(stack).kind = kind
    /\ Read(bracket)
    /\ Deliver(Front(stack), Closed(Last(stack)))
    /\ UNCHANGED outcome

\* A slip: keys are compared as they are spelled.
SeenSpelled(s) == \E m \in ToSet(Last(stack).items) : m[1] = s

\* Keys are compared by what they denote.
Seen(s) == \E m \in ToSet(Last(stack).items) : m[1] = Meaning[s]

ParseKey(s) ==
    /\ "key" \in Expected
    /\ Read(s)
    /\ CASE Meaning[s] = Undefined -> Reject("invalid_json")
         [] Meaning[s] # Undefined /\ Seen(s) -> Reject("duplicate_json_key")
         [] OTHER -> /\ Top([Last(stack) EXCEPT !.key = Meaning[s], !.expect = {"colon"}])
                     /\ UNCHANGED <<root, outcome>>

Colon ==
    /\ "colon" \in Expected
    /\ Read(":")
    /\ Top([Last(stack) EXCEPT !.expect = {"value"}])
    /\ UNCHANGED <<root, outcome>>

Comma ==
    /\ "separator" \in Expected
    /\ Read(",")
    /\ Top([Last(stack) EXCEPT !.expect = {IF Last(stack).kind = "array" THEN "value" ELSE "key"}])
    /\ UNCHANGED <<root, outcome>>

\* What a token can be where the parser stands.
Role(token) ==
    CASE token \in Strings -> {"value", "key"}
      [] token \in {Numeral, "[", "{"} -> {"value"}
      [] token = "," -> {"separator"}
      [] token = ":" -> {"colon"}
      [] token \in {"]", "}"} ->
           IF stack # <<>> /\ token = (IF Last(stack).kind = "array" THEN "]" ELSE "}")
           THEN {"close"} ELSE {}

Unexpected(token) ==
    /\ token # " " /\ Role(token) \cap Expected = {}
    /\ Read(token)
    /\ Reject("invalid_json")

RECURSIVE HasNumber(_)
HasNumber(value) ==
    CASE value[1] = "number" -> TRUE
      [] value[1] = "string" -> FALSE
      [] value[1] = "array" -> \E item \in ToSet(value[2]) : HasNumber(item)
      [] value[1] = "object" -> \E k \in DOMAIN value[2] : HasNumber(value[2][k])

\* The end of the text.
Finish ==
    /\ outcome = "parsing"
    /\ outcome' = CASE root = Undefined -> "unterminated"
                    [] HasNumber(root) -> "numeric_value"
                    [] OTHER -> "ok"
    /\ UNCHANGED <<text, stack, root>>

JSONInit == text = <<>> /\ stack = <<>> /\ root = Undefined /\ outcome = "parsing"

JSONNext ==
    \/ SkipWhitespace
    \/ \E s \in Strings : ParseString(s) \/ ParseKey(s)
    \/ ParseNumber
    \/ Open("[", NewArray) \/ Open("{", NewObject)
    \/ Close("]", "array") \/ Close("}", "object")
    \/ Colon
    \/ Comma
    \/ \E token \in Tokens : Unexpected(token)
    \/ Finish

\* canonical: sorted keys, one spelling, no white space.
Joined(parts) ==
    FoldLeft(LAMBDA all, part : IF all = <<>> THEN part ELSE all \o <<",">> \o part, <<>>, parts)

RECURSIVE Canonical(_)
Canonical(value) ==
    CASE value[1] = "string" -> <<value[2]>>
      [] value[1] = "array" ->
           <<"[">> \o Joined([i \in DOMAIN value[2] |-> Canonical(value[2][i])]) \o <<"]">>
      [] value[1] = "object" ->
           LET keys == SelectSeq(KeyOrder, LAMBDA k : k \in DOMAIN value[2])
           IN  <<"{">> \o Joined([i \in DOMAIN keys |->
                                    <<keys[i], ":">> \o Canonical(value[2][keys[i]])])
                       \o <<"}">>

(***************************************************************************)
(* The reference: the grammar of the accepted texts without white space,   *)
(* each with its value, by depth and by number of tokens.                  *)
(***************************************************************************)

Words == {s \in Strings : Meaning[s] # Undefined}

RECURSIVE Written(_, _), Listed(_, _), Member(_, _), Membered(_, _)

Written(depth, n) ==
    IF n = 1 THEN {<<<<s>>, String(Meaning[s])>> : s \in Words}
    ELSE IF depth = 0 \/ n = 0 THEN {}
    ELSE {<<<<"[">> \o l[1] \o <<"]">>, Array(l[2])>> : l \in Listed(depth - 1, n - 2)}
         \cup {<<<<"{">> \o m[1] \o <<"}">>, Object(m[2])>> : m \in Membered(depth - 1, n - 2)}

Listed(depth, n) ==
    IF n = 0 THEN {<<<<>>, <<>>>>}
    ELSE {<<w[1], <<w[2]>>>> : w \in Written(depth, n)}
         \cup UNION {{<<w[1] \o <<",">> \o l[1], <<w[2]>> \o l[2]>> :
                        w \in Written(depth, k), l \in Listed(depth, n - k - 1)} :
                     k \in 1..(n - 2)}

Member(depth, n) ==
    {[key |-> Meaning[s], text |-> <<s, ":">> \o w[1], value |-> w[2]] :
        s \in Words, w \in Written(depth, n - 2)}

Membered(depth, n) ==
    IF n = 0 THEN {<<<<>>, <<>>>>}
    ELSE {<<m.text, [k \in {m.key} |-> m.value]>> : m \in Member(depth, n)}
         \cup UNION {UNION {{<<m.text \o <<",">> \o o[1],
                       [k \in {m.key} \cup DOMAIN o[2] |->
                          IF k = m.key THEN m.value ELSE o[2][k]]>> :
                        o \in {o \in Membered(depth, n - j - 1) : m.key \notin DOMAIN o[2]}} :
                     m \in Member(depth, j)} : j \in 3..(n - 4)}

Grammar == UNION {Written(MaxDepth, n) : n \in 1..MaxTokens}
Accepted == {g[1] : g \in Grammar}
Beginnings == UNION {{SubSeq(t, 1, i) : i \in 0..Len(t)} : t \in Accepted}

Spaceless == SelectSeq(text, LAMBDA token : token # " ")

\* The parser accepts the grammar's texts, with their values, and refuses a
\* beginning only if no text goes on from it; a value's canonical text denotes
\* that value, so documents have the same digest exactly if they say the same.
CanonicalForm ==
    /\ outcome = "ok" => /\ <<Spaceless, root>> \in Grammar
                         /\ <<Canonical(root), root>> \in Grammar
    /\ outcome \in {"unterminated", "numeric_value"} => Spaceless \notin Accepted
    /\ outcome \notin {"parsing", "ok", "unterminated", "numeric_value"} =>
         Spaceless \notin Beginnings
==============================================================================
