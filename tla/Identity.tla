------------------------------ MODULE Identity ------------------------------
(***************************************************************************)
(* Identity resolution (src/src/fdo-dbus.c and the helpers of             *)
(* src/src/pold-manager.c): from the bus daemon's answers about an app to *)
(* the identity tokens user_cb hands to pold_policy_watch_app.  Pure       *)
(* operators.                                                              *)
(*                                                                         *)
(* A security context is a sequence of atoms: ":" (the separator), Nul (a *)
(* zero byte) and field text, no two field texts adjacent, so that a      *)
(* field is one atom or empty ("").  A NULL char * is NullStr.            *)
(***************************************************************************)
EXTENDS Integers, Sequences, SequencesExt, FiniteSets, PolicySelection

CONSTANTS
    NullStr,    \* a NULL string
    Nul,        \* a zero byte in the context
    Passwd,     \* uid -> [name, gid]: the entries getpwuid finds
    Groups      \* gid -> name: the entries getgrgid finds

(* A reply to GetConnectionSELinuxSecurityContext: an error, or a method  *)
(* return with a signature and, for "ay", its bytes.                        *)
ErrorAnswer == [kind |-> "error"]
ContextAnswer(sig, bytes) == [kind |-> "return", sig |-> sig, bytes |-> bytes]

(* The C string of a byte array: the bytes before the first zero byte.    *)
CString(bytes) ==
    LET nuls == {i \in DOMAIN bytes : bytes[i] = Nul}
    IN  IF nuls = {} THEN bytes ELSE SubSeq(bytes, 1, Min(nuls) - 1)

(***************************************************************************)
(* parse_context: count the bytes of the "ay" array, NULL if there are    *)
(* none, else copy them into a zeroed buffer of size + 1, which C reads   *)
(* up to its first zero byte.                                             *)
(***************************************************************************)
parse_context(bytes) == IF bytes = <<>> THEN NullStr ELSE CString(bytes)

(***************************************************************************)
(* get_connection_selinux_context_reply: an error reply gives -EIO, a     *)
(* signature other than "ay" -EINVAL, both with a NULL context; otherwise *)
(* the parsed context and no error.                                       *)
(***************************************************************************)
get_connection_selinux_context_reply(a) ==
    CASE a.kind = "error" -> [context |-> NullStr, err |-> -5]
      [] a.sig # "ay"     -> [context |-> NullStr, err |-> -22]
      [] OTHER            -> [context |-> parse_context(a.bytes), err |-> 0]

(* g_strsplit(s, ":", 0): the fields between separators; an empty string *)
(* gives no field at all, a NULL string a NULL vector (no field).          *)
g_strsplit(s) ==
    IF s = NullStr \/ s = <<>> THEN <<>>
    ELSE FoldLeft(LAMBDA acc, a : IF a = ":" THEN Append(acc, "")
                                  ELSE [acc EXCEPT ![Len(acc)] = a],
                  <<"">>, s)

(* tokens[i] of a NULL-terminated vector: index Len is the terminating   *)
(* NULL.                                                                   *)
StrvGet(t, i) == IF i < Len(t) THEN t[i + 1] ELSE NullStr

(* Variant: parse_selinux_type taking tokens[1], the role.                *)
parse_selinux_type_role(ctx) ==
    LET t == g_strsplit(ctx) IN IF Len(t) < 2 THEN NullStr ELSE StrvGet(t, 1)

(***************************************************************************)
(* parse_selinux_type: split user:role:type:level at ":" and return the  *)
(* type, tokens[2].  With fewer than two fields it returns NULL; with     *)
(* exactly two, tokens[2] is the vector's NULL and g_strdup(NULL) is NULL. *)
(***************************************************************************)
parse_selinux_type(ctx) ==
    LET t == g_strsplit(ctx) IN IF Len(t) < 2 THEN NullStr ELSE StrvGet(t, 2)

(* selinux_cb: a failed lookup leaves no SELinux type.                    *)
selinux_cb(a) ==
    LET r == get_connection_selinux_context_reply(a)
    IN  IF r.err < 0 THEN NullStr ELSE parse_selinux_type(r.context)

(* get_user, get_groupid, get_group: getpwuid and getgrgid lookups; NULL *)
(* and -1 when there is no entry.                                          *)
get_user(uid)    == IF uid \in DOMAIN Passwd THEN Passwd[uid].name ELSE NullStr
get_groupid(uid) == IF uid \in DOMAIN Passwd THEN Passwd[uid].gid ELSE -1
get_group(gid)   == IF gid \in DOMAIN Groups THEN Groups[gid] ELSE NullStr

(* glibc's printf prints a NULL %s argument as "(null)".                   *)
PrintfS(s) == IF s = NullStr THEN "(null)" ELSE s

(***************************************************************************)
(* The ids user_cb builds: "selinux:<type>" when there is a type, then    *)
(* "user:<name>" and "group:<name>" of the uid's primary group.            *)
(***************************************************************************)
UserCbIds(selinux, uid) ==
    (IF selinux # NullStr THEN <<Token("selinux", selinux)>> ELSE <<>>)
    \o <<Token("user", PrintfS(get_user(uid))),
         Token("group", PrintfS(get_group(get_groupid(uid))))>>
-----------------------------------------------------------------------------
(***************************************************************************)
(* The candidates spec.md 4.5 names.  The label is the type, the third    *)
(* field of the context user:role:type[:level] (the comment of            *)
(* parse_selinux_type), absent when the lookup fails or there is no third *)
(* field.  The user and group tokens are those of the uid's passwd entry  *)
(* and of its primary group, absent without an entry.  Invalid tokens    *)
(* are dropped.                                                            *)
(***************************************************************************)
SpecLabel(a) ==
    IF a.kind = "error" \/ a.sig # "ay" THEN {}
    ELSE LET text == CString(a.bytes)
             seps == {i \in DOMAIN text : text[i] = ":"}
             (* the atoms after exactly two separators and before a third *)
             third == {i \in DOMAIN text :
                         text[i] # ":" /\ Cardinality({j \in seps : j < i}) = 2}
         IN  IF Cardinality(seps) < 2 THEN {}
             ELSE {IF third = {} THEN "" ELSE text[Min(third)]}

SpecCandidates(a, uid) ==
    SelectSeq(
        SetToSeq({Token("selinux", l) : l \in SpecLabel(a)})
        \o (IF uid \in DOMAIN Passwd
            THEN <<Token("user", Passwd[uid].name)>> ELSE <<>>)
        \o (IF uid \in DOMAIN Passwd /\ Passwd[uid].gid \in DOMAIN Groups
            THEN <<Token("group", Groups[Passwd[uid].gid])>> ELSE <<>>),
        is_valid_policy_id)
==============================================================================
