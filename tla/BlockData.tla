----------------------------- MODULE BlockData -----------------------------
(***************************************************************************)
(* What happens to a field of a block on its way into a Redis hash and     *)
(* back (src/app/utils.py), and what int(float(...)) makes of a field that *)
(* should be a time.                                                       *)
(***************************************************************************)
EXTENDS Integers

CONSTANTS
  Payload,        \* the contents of documents and of ordinary texts
  Tick,           \* the numbers a field may hold, in fractions of a second
  TicksPerSecond

ASSUME TickAssumption == Tick \subseteq Nat /\ TicksPerSecond \in Nat \ {0}

\* A text by what parse_redis_block_data can see of it: the three words it
\* knows, a text that starts with a bracket and is JSON or is not, digits, or
\* anything else.
Text ==
  {<<"null">>, <<"true">>, <<"false">>}
    \union ({"json", "broken", "plain"} \X Payload) \union ({"number"} \X Tick)

\* The values a message's JSON can give a field: null, a boolean, an object or
\* a list, a number, a text.
Value ==
  {<<"None">>, <<"True">>, <<"False">>} \union ({"json"} \X Payload)
    \union ({"number"} \X Tick) \union ({"text"} \X Text)

\* prepare_block_data_for_redis, of one field.
Prepare(v) ==
  CASE v[1] = "None" -> <<"null">>
    [] v[1] = "True" -> <<"true">>
    [] v[1] = "False" -> <<"false">>
    [] v[1] \in {"json", "number"} -> v
    [] v[1] = "text" -> v[2]

\* parse_redis_block_data, of one field: digits stay a text.
Parse(t) ==
  CASE t[1] = "null" -> <<"None">>
    [] t[1] = "true" -> <<"True">>
    [] t[1] = "false" -> <<"False">>
    [] t[1] = "json" -> t
    [] t[1] \in {"broken", "plain", "number"} -> <<"text", t>>

\* int(float(v)), or NoTime where Python raises.
NoTime == -1
IntFloat(v) ==
  CASE v[1] = "number" -> v[2] \div TicksPerSecond
    [] v[1] = "True" -> 1
    [] v[1] = "False" -> 0
    [] v[1] = "text" /\ v[2][1] = "number" -> v[2][2] \div TicksPerSecond
    [] OTHER -> NoTime
-----------------------------------------------------------------------------
\* Texts that come back as something else.
LookAlike == {<<"null">>, <<"true">>, <<"false">>} \union ({"json"} \X Payload)

\* A field comes back as what it was ("Converts stored string values back to
\* their proper types", utils.py:40), a number as its digits (:44), unless it is a text that looks like another type; and
\* what has come back once is not changed by a second trip, which every block
\* that is read, edited and published again makes.
FieldsReadBack ==
  \A v \in Value :
    LET back == Parse(Prepare(v)) IN
    /\ IF v[1] = "number" THEN back = <<"text", v>>
       ELSE back = v \/ (v[1] = "text" /\ v[2] \in LookAlike)
    /\ Parse(Prepare(back)) = back
=============================================================================
