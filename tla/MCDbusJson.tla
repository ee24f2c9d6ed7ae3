------------------------------ MODULE MCDbusJson ------------------------------
(***************************************************************************)
(* Checks the codec on every JSON document of a bounded universe: leaves   *)
(* of each jansson type (an int that fits a 32-bit int and one that does  *)
(* not), arrays of up to three leaves, objects of up to two leaves, and   *)
(* arrays and objects of small containers.  The document under test is   *)
(* re-drawn on each step.                                                  *)
(***************************************************************************)
EXTENDS DbusJson, FiniteSets

CONSTANTS SmallInt, BigInt, Inputs   \* Inputs: the documents under test

MCSmallInt == <<0, 3>>         \* 3
MCBigInt   == <<1, 0>>         \* 2^31, which no 32-bit int holds

Leaves == {JTrue, JFalse, JNull, JInt(SmallInt), JInt(BigInt), JReal("3.3"),
           JString("foo")}

ArraysOf(S, n) == {JArray(s) : s \in BoundedSeq(S, n)}
ObjectsOf(S) ==
    {JObject(<<>>)} \cup {JObject(<<<<"a", x>>>>) : x \in S}
    \cup {JObject(<<<<"a", x>>, <<"b", y>>>>) : x, y \in S}

Small == Leaves \cup {JArray(<<>>), JArray(<<JInt(SmallInt)>>),
                      JArray(<<JInt(SmallInt), JInt(SmallInt)>>),
                      JObject(<<<<"a", JString("foo")>>>>)}

Docs == Leaves \cup ArraysOf(Leaves, 3) \cup ObjectsOf(Leaves)
        \cup ArraysOf(Small, 2) \cup {JObject(<<<<"a", x>>>>) : x \in Small}

(* The documents a policy can hold: load_policy keeps only a top-level     *)
(* object (policy.c:217).                                                  *)
PolicyDocs == {d \in Docs : d.k = "object"}

VARIABLE doc

Init == doc \in Inputs
Next == doc' \in Inputs
Spec == Init /\ [][Next]_doc

-----------------------------------------------------------------------------
(* Reading a message back: the D-Bus value's JSON.                         *)
RECURSIVE Decode(_)
Decode(w) ==
    CASE w.t = "b"                  -> IF w.v THEN JTrue ELSE JFalse
      [] w.t \in {"n", "i", "x"}    ->
            JInt(IF w.v >= 0 THEN <<0, w.v>> ELSE <<-1, w.v - MinInt>>)
      [] w.t = "d"                  -> JReal(w.v)
      [] w.t = "s"                  -> JString(w.v)
      [] w.t = "v"                  -> Decode(w.v)
      [] w.t = "a" /\ w.sig = "{sv}" ->
            JObject([i \in DOMAIN w.v |-> <<w.v[i].v[1], Decode(w.v[i].v[2])>>])
      [] OTHER                      -> JArray([i \in DOMAIN w.v |-> Decode(w.v[i])])

(* The integers of a document all fit a C int.                             *)
RECURSIVE IntsFit(_)
IntsFit(x) ==
    CASE x.k = "int"    -> x.int[1] \in {-1, 0}
                           /\ x.int[1] * 2147483647 + x.int[1] + x.int[2] = ToInt(x.int)
      [] x.k = "array"  -> \A i \in DOMAIN x.items : IntsFit(x.items[i])
      [] x.k = "object" -> \A i \in DOMAIN x.members : IntsFit(x.members[i][2])
      [] OTHER          -> TRUE

Body == pold_dbus_json_append_object(doc)

-----------------------------------------------------------------------------
(* Every value append_json_value writes, at every depth, is of the        *)
(* signature its container or variant was opened with; libdbus refuses   *)
(* the message otherwise.                                                  *)
WellTyped ==
    Body # Abort => Conforms(Body[1], json_value_to_dbus_type_signature(doc))

(* A document whose integers fit a C int reads back from the message     *)
(* exactly as it was (spec.md 8, round trip).                              *)
RoundTripWithinInt ==
    (Body # Abort /\ IntsFit(doc)) => Decode(Body[1]) = doc

(* Appending a policy's json text to a message (pold_policy_append_to_    *)
(* message, policy.c:623, through pold_dbus_json_append_string) never     *)
(* reaches the assert(false) for an unsupported JSON type: every document *)
(* that json_loads accepts is written.                                     *)
NoAbort == pold_dbus_json_append_string(doc) # Abort
=============================================================================
