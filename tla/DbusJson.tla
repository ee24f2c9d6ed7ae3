------------------------------ MODULE DbusJson ------------------------------
(***************************************************************************)
(* The JSON to D-Bus codec (src/src/dbus-json.c): signature inference and *)
(* the encoding of a jansson value into a D-Bus message.  Pure operators. *)
(*                                                                         *)
(* A JSON value is a record: k is its jansson type (json_typeof, so "true" *)
(* and "false" are different types), with the payload of its type: int,  *)
(* real (written as a string), str, items (a sequence of values) or       *)
(* members (<<key, value>> pairs in iteration order).  A json_int_t n is  *)
(* the pair <<hi, lo>> with n = hi * 2^31 + lo and 0 <= lo < 2^31, so     *)
(* that 64-bit values stay within TLC's integers.                          *)
(*                                                                         *)
(* A D-Bus value is a record [sig, t, v]: t is the type code written       *)
(* ("b", "i", "d", "s", "a" for an array, "v" for a variant, "e" for a     *)
(* dict entry), sig the element signature of an array or the contained    *)
(* signature of a variant ("" for a basic value), v the payload.         *)
(***************************************************************************)
EXTENDS Integers, Sequences, SequencesExt

CONSTANTS
    NotJson,    \* text json_loads rejects, a NULL string included
    Abort       \* the process stopping at assert(false)

JTrue       == [k |-> "true"]
JFalse      == [k |-> "false"]
JNull       == [k |-> "null"]
JInt(n)     == [k |-> "int",    int |-> n]
JReal(r)    == [k |-> "real",   real |-> r]
JString(s)  == [k |-> "string", str |-> s]
JArray(s)   == [k |-> "array",  items |-> s]
JObject(s)  == [k |-> "object", members |-> s]

LeafKinds == {"string", "int", "real", "true", "false", "null"}

NoType == "-1"

(* The D-Bus integer type the sizeof(int) chains pick: a C int has 4      *)
(* bytes on every Linux target, so DBUS_TYPE_INT32.                        *)
IntTypeCode == "i"

MinInt == -2147483647 - 1

Basic(t, v) == [sig |-> "", t |-> t, v |-> v]

(* The conversion of json_int_t to int: the value modulo 2^32, read back  *)
(* as a signed number.                                                     *)
ToInt(n) == IF n[1] % 2 = 0 THEN n[2] ELSE MinInt + n[2]

(* Variant: get_array_type whose loop stops one entry early               *)
(* (i < size - 1).                                                         *)
get_array_type_short(a) ==
    IF Len(a) = 0 THEN NoType
    ELSE IF \A i \in 2..(Len(a) - 1) : a[i].k = a[i - 1].k
         THEN IF Len(a) <= 2 THEN NoType ELSE a[Len(a) - 1].k
         ELSE NoType

(***************************************************************************)
(* get_array_type: the type of the entries if all are of one type, -1     *)
(* otherwise; the loop starts at index 1, so for a single entry it never   *)
(* runs and -1 is returned.                                               *)
(***************************************************************************)
get_array_type(a) ==
    IF Len(a) = 0 THEN NoType
    ELSE IF \A i \in 2..Len(a) : a[i].k = a[i - 1].k
         THEN IF Len(a) = 1 THEN NoType ELSE a[Len(a)].k
         ELSE NoType

(***************************************************************************)
(* json_value_to_dbus_type_signature and json_array_to_dbus_type_signature *)
(* (mutually recursive): an array of one leaf type is "a" and the first   *)
(* character of its first entry's signature, any other array "av".  An    *)
(* int is "i" for a 32-bit int.  Null is not supported: assert(false).    *)
(***************************************************************************)
RECURSIVE json_value_to_dbus_type_signature(_)
json_value_to_dbus_type_signature(x) ==
    CASE x.k \in {"true", "false"} -> "b"
      [] x.k = "int"               -> IntTypeCode
      [] x.k = "real"              -> "d"
      [] x.k = "string"            -> "s"
      [] x.k = "array"             ->
            IF get_array_type(x.items) \in LeafKinds
            THEN LET inner == json_value_to_dbus_type_signature(x.items[1])
                 IN  IF inner = Abort THEN Abort
                     ELSE "a" \o SubSeq(inner, 1, 1)
            ELSE "av"
      [] x.k = "object"            -> "a{sv}"
      [] OTHER                     -> Abort

(* Variant: append_boolean that tests json_is_boolean for the value.      *)
append_boolean_is_boolean(x) == Basic("b", x.k \in {"true", "false"})

(* append_boolean, append_integer, append_real, append_string.           *)
append_boolean(x) == Basic("b", x.k = "true")
append_integer(x) == Basic(IntTypeCode, ToInt(x.int))
append_real(x)    == Basic("d", x.real)
append_string(x)  == Basic("s", x.str)

AnyAbort(s) == \E i \in DOMAIN s : s[i] = Abort

(***************************************************************************)
(* append_json_value with append_array and append_object (mutually         *)
(* recursive).  An array whose signature is "av" wraps each entry in a    *)
(* variant of the entry's own signature; any other array appends each     *)
(* entry with pold_dbus_json_append_object.  An object is an array of     *)
(* {sv} dict entries, each value in a variant.  A null anywhere reaches   *)
(* assert(false) in the signature it needs.                               *)
(***************************************************************************)
RECURSIVE append_json_value(_)
append_json_value(x) ==
    CASE x.k \in {"true", "false"} -> append_boolean(x)
      [] x.k = "int"               -> append_integer(x)
      [] x.k = "real"              -> append_real(x)
      [] x.k = "string"            -> append_string(x)
      [] x.k = "array"             ->
            LET sig == json_value_to_dbus_type_signature(x)
                wrap(e) == LET es == json_value_to_dbus_type_signature(e)
                               ev == append_json_value(e)
                           IN  IF es = Abort \/ ev = Abort THEN Abort
                               ELSE [sig |-> es, t |-> "v", v |-> ev]
                entries == IF sig = "av"
                           THEN [i \in DOMAIN x.items |-> wrap(x.items[i])]
                           ELSE [i \in DOMAIN x.items |-> append_json_value(x.items[i])]
            IN  IF sig = Abort \/ AnyAbort(entries) THEN Abort
                ELSE [sig |-> SubSeq(sig, 2, Len(sig)), t |-> "a", v |-> entries]
      [] x.k = "object"            ->
            LET entry(p) == LET es == json_value_to_dbus_type_signature(p[2])
                                ev == append_json_value(p[2])
                            IN  IF es = Abort \/ ev = Abort THEN Abort
                                ELSE [sig |-> "{sv}", t |-> "e",
                                      v |-> <<p[1], [sig |-> es, t |-> "v", v |-> ev]>>]
                entries == [i \in DOMAIN x.members |-> entry(x.members[i])]
            IN  IF AnyAbort(entries) THEN Abort
                ELSE [sig |-> "{sv}", t |-> "a", v |-> entries]
      [] OTHER                     -> Abort

(* pold_dbus_json_append_object: the message body after appending root.   *)
pold_dbus_json_append_object(x) ==
    LET w == append_json_value(x) IN IF w = Abort THEN Abort ELSE <<w>>

(* pold_dbus_json_append_string: text that json_loads rejects appends     *)
(* nothing.  Without JSON_DECODE_ANY in its flags, json_loads rejects a   *)
(* NULL string, malformed text and a top-level value that is neither an  *)
(* array nor an object.                                                   *)
pold_dbus_json_append_string(text) ==
    IF text = NotJson \/ text.k \notin {"array", "object"} THEN <<>>
    ELSE pold_dbus_json_append_object(text)
-----------------------------------------------------------------------------
(* Whether a D-Bus value is of the signature it is written under, as      *)
(* libdbus checks for every basic value, container and variant.            *)
RECURSIVE Conforms(_, _)
Conforms(w, s) ==
    CASE w.t = "a" -> s = "a" \o w.sig /\ \A i \in DOMAIN w.v : Conforms(w.v[i], w.sig)
      [] w.t = "e" -> s = "{sv}" /\ Conforms(w.v[2], "v")
      [] w.t = "v" -> s = "v" /\ Conforms(w.v, w.sig)
      [] OTHER     -> s = w.t
=============================================================================
