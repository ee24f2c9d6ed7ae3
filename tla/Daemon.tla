------------------------------ MODULE Daemon --------------------------------
(***************************************************************************)
(* The daemon process (src/src/main.c) and its ConnMan session             *)
(* (src/src/session.c, connman-manager.c, connman-notification.c,          *)
(* dbus-common.c).                                                         *)
(*                                                                         *)
(* main runs the init functions in order.  Each may fail, and then it      *)
(* jumps into the ladder of goto labels that finalises what came before.   *)
(* Once all have succeeded, the main loop runs until a SIGINT, SIGTERM or  *)
(* SIGHUP.  The ladder then runs from its top.  The resources are the      *)
(* objects the finalisers release.  acquired and released record, in       *)
(* order, every acquisition and release.                                   *)
(*                                                                         *)
(* While the loop runs, pold holds a ConnMan session.  The service watch   *)
(* reports ConnMan's arrival, and pold answers it with CreateSession.      *)
(* ConnMan answers with a session path.  Later it calls Update and         *)
(* Release on pold's notification object.  ConnMan is the environment: it  *)
(* starts, answers, updates, releases and stops (crashes included) at any  *)
(* time.  Everything the bus delivers to pold arrives on one connection,   *)
(* in the order it was sent: replies, method calls and the watch's         *)
(* NameOwnerChanged signals.  inbox is that queue.  The policy work of the *)
(* loop (SIGUSR2 included) is the subject of Pold and is left out here.    *)
(***************************************************************************)
EXTENDS Integers, Sequences, SequencesExt, FiniteSets, DbusJson

CONSTANTS
    Null,       \* a NULL session path
    MaxStarts,  \* how many times ConnMan comes onto the bus
    MaxInbox    \* bound on the messages queued for pold

VARIABLES
    pc,             \* where main is
    acquired,       \* the resources acquired, in order
    released,       \* the resources released, in order
    path,           \* session_path
    calls,          \* CreateSession DBusPendingCalls whose notify has not run
    inbox,          \* the bus messages not yet dispatched to pold
    cm,             \* whether ConnMan is on the bus
    cmStarts,       \* how many times it has come onto the bus
    cmCreate,       \* CreateSession calls ConnMan has not answered
    cmOrphans,      \* of those, older ones libdbus has already timed out
    cmSessions,     \* pold's sessions that ConnMan holds
    cmIssued,       \* every session path ConnMan has handed out
    releasedPaths   \* the sessions ConnMan has released to pold

daemonVars == <<pc, acquired, released, path, calls>>
cmVars == <<cm, cmStarts, cmCreate, cmOrphans, cmSessions, cmIssued, releasedPaths>>
vars == <<daemonVars, inbox, cmVars>>

Held == Range(acquired) \ Range(released)
Watched == "watch" \in Held

Reply(p)  == [k |-> "reply", path |-> p]
Appeared  == [k |-> "appeared", path |-> Null]
Vanished  == [k |-> "vanished", path |-> Null]
UpdateMsg == [k |-> "update", path |-> Null]
ReleaseMsg == [k |-> "release", path |-> Null]

-----------------------------------------------------------------------------
(* The finalisers, as the resources they release.                          *)
pold_session_final == <<"watch">>           \* g_free(NULL state), remove watch
pold_manager_final == <<"object_paths">>
(* Policies only if their pointer was ever set; the regex is not freed.   *)
pold_policy_final(acq) ==
    SelectSeq(<<"own", "default">>, LAMBDA r : r \in Range(acq)) \o <<"tables">>
remove_signal_handlers == <<"signals">>
pold_http_client_final == <<"creds">>

(* The goto ladder of main after the loop, from its top.                    *)
TeardownSteps(acq) ==
    << [label |-> "loop_done",           rel |-> pold_session_final],
       [label |-> "out_manager",         rel |-> pold_manager_final],
       [label |-> "out_policy",          rel |-> pold_policy_final(acq)],
       [label |-> "out_signal_handlers", rel |-> remove_signal_handlers \o <<"loop">>],
       [label |-> "out_http_client",     rel |-> pold_http_client_final \o <<"name", "conn">>] >>

(* The releases of the ladder from a label down; none from "out".          *)
Ladder(acq, label) ==
    LET steps == TeardownSteps(acq)
        from  == IF label = "out" THEN Len(steps) + 1
                 ELSE CHOOSE i \in DOMAIN steps : steps[i].label = label
    IN  FlattenSeq([i \in 1..(Len(steps) - from + 1) |-> steps[from + i - 1].rel])

-----------------------------------------------------------------------------
(* The start of main, one init function per step.  A failure runs the      *)
(* ladder from its goto label, and main returns.                           *)

Init ==
    /\ pc = "options"
    /\ acquired = <<>>
    /\ released = <<>>
    /\ path = Null
    /\ calls = 0
    /\ inbox = <<>>
    /\ cm \in {"absent", "present"}
    /\ cmStarts = IF cm = "present" THEN 1 ELSE 0
    /\ cmCreate = 0
    /\ cmOrphans = 0
    /\ cmSessions = {}
    /\ cmIssued = {}
    /\ releasedPaths = {}

(* A step of main: it acquires new, frees cleanup by itself on a failure,  *)
(* then moves on or, on a failure, runs the ladder from label.             *)
MainStep(from, to, new, ok, cleanup, label) ==
    /\ pc = from
    /\ acquired' = acquired \o new
    /\ IF ok THEN pc' = to /\ UNCHANGED released
       ELSE /\ pc' = "exited"
            /\ released' = released \o cleanup \o Ladder(acquired \o new, label)
    /\ UNCHANGED <<path, calls, inbox, cmVars>>

(* parse_options: a bad command line ends main before anything is held.    *)
parse_options(ok) == MainStep("options", "dbus", <<>>, ok, <<>>, "out")

(* init_dbus: g_dbus_setup_bus connects and requests the bus name.         *)
init_dbus(ok) ==
    MainStep("dbus", "http", IF ok THEN <<"conn", "name">> ELSE <<>>, ok, <<>>, "out")

(* pold_http_client_init: the credentials are copied first, then the soup *)
(* session is created and its authenticate signal connected.  Either may  *)
(* fail.  pold_http_client_final frees only the credentials.               *)
pold_http_client_init(r) ==
    MainStep("http", "loop", <<"creds">> \o (IF r = "no_session" THEN <<>> ELSE <<"soup">>),
             r = "ok", <<>>, "out_http_client")

(* g_main_loop_new and install_signal_handlers.                             *)
install_signal_handlers ==
    MainStep("loop", "policy", <<"loop", "signals">>, TRUE, <<>>, "out")

(* Variant: pold_policy_init's failure jumping to out_policy.              *)
pold_policy_init_out_policy(r) ==
    LET new == <<"tables", "regex">>
               \o (IF r = "no_default" THEN <<>> ELSE <<"default">>)
               \o (IF r \in {"no_default", "no_own"} THEN <<>> ELSE <<"own">>)
    IN  MainStep("policy", "manager", new, r = "ok",
                 SelectSeq(<<"own", "default">>, LAMBDA x : x \in Range(new))
                 \o <<"regex", "tables">>,
                 "out_policy")

(***************************************************************************)
(* pold_policy_init: the tables and the id regex, then the default and the *)
(* own policy, then the policy directory.  On a failure it frees by itself *)
(* what it took, in the order of its own labels, and main jumps to         *)
(* out_signal_handlers.                                                    *)
(***************************************************************************)
pold_policy_init(r) ==
    LET new == <<"tables", "regex">>
               \o (IF r = "no_default" THEN <<>> ELSE <<"default">>)
               \o (IF r \in {"no_default", "no_own"} THEN <<>> ELSE <<"own">>)
    IN  MainStep("policy", "manager", new, r = "ok",
                 SelectSeq(<<"own", "default">>, LAMBDA x : x \in Range(new))
                 \o <<"regex", "tables">>,
                 "out_signal_handlers")

(* pold_manager_init: object_paths is created before the interface is    *)
(* registered; a failed registration jumps to out_policy.                  *)
pold_manager_init(ok) ==
    MainStep("manager", "notification", <<"object_paths">>, ok, <<>>, "out_policy")

(* pold_connman_notification_init: a failed registration jumps to         *)
(* out_manager.                                                            *)
pold_connman_notification_init(ok) ==
    MainStep("notification", "session", <<>>, ok, <<>>, "out_manager")

(***************************************************************************)
(* pold_connman_manager_init and pold_session_init: the service watch is   *)
(* added; gdbus reports a ConnMan already on the bus as appeared.  Then    *)
(* the loop runs.                                                          *)
(***************************************************************************)
pold_session_init ==
    /\ pc = "session"
    /\ pc' = "running"
    /\ acquired' = acquired \o <<"watch">>
    /\ inbox' = IF cm = "present" THEN Append(inbox, Appeared) ELSE inbox
    /\ UNCHANGED <<released, path, calls, cmVars>>

(* signal_quit: g_main_loop_quit.  Sources already dispatched in the loop's *)
(* current iteration still run before g_main_loop_run returns.             *)
signal_quit ==
    /\ pc = "running"
    /\ pc' = "quitting"
    /\ UNCHANGED <<acquired, released, path, calls, inbox, cmVars>>

(* g_main_loop_run returns; the ladder runs from pold_session_final.       *)
LoopReturns ==
    /\ pc = "quitting"
    /\ pc' = "exited"
    /\ released' = released \o Ladder(acquired, "loop_done")
    /\ UNCHANGED <<acquired, path, calls, inbox, cmVars>>

-----------------------------------------------------------------------------
(* The settings argument of CreateSession, in the D-Bus values of DbusJson. *)

(* append_variant: a variant holding one basic value of the given type.    *)
append_variant(type, val) == [sig |-> type, t |-> "v", v |-> Basic(type, val)]

(* dict_append_entry: a {sv} entry, skipped for a NULL string value.       *)
dict_append_entry(dict, key, type, val) ==
    IF type = "s" /\ val = Null THEN dict
    ELSE Append(dict, [sig |-> "{sv}", t |-> "e", v |-> <<key, append_variant(type, val)>>])

(* The a{sv} pold_connman_manager_create_session builds: AllowedBearers as *)
(* an "as" variant of ethernet and wifi, then ConnectionType "internet".   *)
CreateSessionSettings ==
    LET bearers == [sig |-> "as", t |-> "v",
                    v |-> [sig |-> "s", t |-> "a",
                           v |-> <<Basic("s", "ethernet"), Basic("s", "wifi")>>]]
    IN  [sig |-> "{sv}", t |-> "a",
         v |-> dict_append_entry(<<[sig |-> "{sv}", t |-> "e",
                                    v |-> <<"AllowedBearers", bearers>>]>>,
                                 "ConnectionType", "s", "internet")]

-----------------------------------------------------------------------------
(* pold's handlers: the loop dispatches the message at the head of inbox,  *)
(* also in the iteration in which signal_quit ran.                         *)
Dispatch(kind) ==
    /\ pc \in {"running", "quitting"}
    /\ inbox # <<>>
    /\ Head(inbox).k = kind

(***************************************************************************)
(* connman_appeared: pold_connman_manager_create_session.  Allocating or   *)
(* sending the call may fail, and then there is no call.  A sent call has  *)
(* a pending call whose notify is create_session_cb.  Sent while ConnMan   *)
(* is no longer on the bus, the call gets the bus's error reply.           *)
(***************************************************************************)
pold_connman_manager_create_session(sent) ==
    /\ Dispatch("appeared")
    /\ inbox' = IF sent /\ cm = "absent" THEN Append(Tail(inbox), Reply(Null))
                ELSE Tail(inbox)
    /\ calls' = IF sent THEN calls + 1 ELSE calls
    /\ cmCreate' = IF sent /\ cm = "present" THEN cmCreate + 1 ELSE cmCreate
    /\ UNCHANGED <<pc, acquired, released, path, cm, cmStarts, cmOrphans,
                   cmSessions, cmIssued, releasedPaths>>

(* Variant: the call sent with DBUS_TIMEOUT_INFINITE: it never times out.  *)
CallTimeout_infinite == FALSE

(***************************************************************************)
(* The -1 of dbus_connection_send_with_reply is libdbus's default reply    *)
(* timeout.  It fires for the oldest call ConnMan has not yet answered:    *)
(* libdbus queues a NoReply error for create_session_cb and forgets the    *)
(* call, so the reply ConnMan may still send is dropped.  A reply already  *)
(* received cancels the timeout, so it races only ConnMan's answer.        *)
(***************************************************************************)
CallTimeout ==
    /\ pc \in {"running", "quitting"}
    /\ cmCreate > cmOrphans
    /\ cmOrphans' = cmOrphans + 1
    /\ inbox' = Append(inbox, Reply(Null))
    /\ UNCHANGED <<daemonVars, cm, cmStarts, cmCreate, cmSessions, cmIssued,
                   releasedPaths>>

(* create_session_cb: pold_session_set_path with the returned path, or     *)
(* with NULL for an error reply.                                           *)
create_session_cb ==
    /\ Dispatch("reply")
    /\ path' = Head(inbox).path
    /\ calls' = calls - 1
    /\ inbox' = Tail(inbox)
    /\ UNCHANGED <<pc, acquired, released, cmVars>>

(* Variant: release without pold_session_set_path(NULL).                  *)
release_keeps_path ==
    /\ Dispatch("release")
    /\ inbox' = Tail(inbox)
    /\ UNCHANGED <<daemonVars, cmVars>>

(* release: pold_session_set_path(NULL) and an empty method return.        *)
release ==
    /\ Dispatch("release")
    /\ path' = Null
    /\ inbox' = Tail(inbox)
    /\ UNCHANGED <<pc, acquired, released, calls, cmVars>>

(***************************************************************************)
(* update: the loop looks for dict entries at the top level of the         *)
(* message.  That argument is the a{sv} array itself, so the loop body     *)
(* never runs, and pold_session_set_state is never called.                 *)
(***************************************************************************)
update ==
    /\ Dispatch("update")
    /\ inbox' = Tail(inbox)
    /\ UNCHANGED <<daemonVars, cmVars>>

(* connman_disappeared: an empty callback.                                  *)
connman_disappeared ==
    /\ Dispatch("vanished")
    /\ inbox' = Tail(inbox)
    /\ UNCHANGED <<daemonVars, cmVars>>

-----------------------------------------------------------------------------
(* ConnMan, while pold's process lives.                                    *)
CanQueue(n) == Len(inbox) + n <= MaxInbox

(* ConnMan comes onto the bus; the watch, if added, reports it.            *)
CmStart ==
    /\ pc # "exited"
    /\ cm = "absent"
    /\ cmStarts < MaxStarts
    /\ CanQueue(1)
    /\ cm' = "present"
    /\ cmStarts' = cmStarts + 1
    /\ inbox' = IF Watched THEN Append(inbox, Appeared) ELSE inbox
    /\ UNCHANGED <<daemonVars, cmCreate, cmOrphans, cmSessions, cmIssued, releasedPaths>>

(* ConnMan leaves the bus, by exiting or crashing, without a Release.  The *)
(* bus fails the calls it has not answered (libdbus drops the errors for   *)
(* calls timed out already), then reports the new owner.                   *)
CmStop ==
    /\ pc # "exited"
    /\ cm = "present"
    /\ CanQueue(cmCreate - cmOrphans + 1)
    /\ cm' = "absent"
    /\ cmCreate' = 0
    /\ cmOrphans' = 0
    /\ cmSessions' = {}
    /\ inbox' = inbox \o [i \in 1..(cmCreate - cmOrphans) |-> Reply(Null)]
                      \o (IF Watched THEN <<Vanished>> ELSE <<>>)
    /\ UNCHANGED <<daemonVars, cmStarts, cmIssued, releasedPaths>>

(* ConnMan answers the oldest CreateSession with a new session or an      *)
(* error.  It refuses settings that are not an a{sv}.  The calls are       *)
(* answered in order, so a timed-out call is answered first; its reply     *)
(* reaches no one.                                                         *)
CmCreateSession(ok) ==
    /\ pc # "exited"
    /\ cm = "present"
    /\ cmCreate > 0
    /\ CanQueue(1)
    /\ cmCreate' = cmCreate - 1
    /\ cmOrphans' = IF cmOrphans > 0 THEN cmOrphans - 1 ELSE 0
    /\ LET reply(x) == IF cmOrphans > 0 THEN inbox ELSE Append(inbox, Reply(x)) IN
       IF ok /\ Conforms(CreateSessionSettings, "a{sv}")
       THEN LET p == <<cmStarts, Cardinality({q \in cmIssued : q[1] = cmStarts}) + 1>>
            IN  /\ cmSessions' = cmSessions \cup {p}
                /\ cmIssued' = cmIssued \cup {p}
                /\ inbox' = reply(p)
       ELSE /\ inbox' = reply(Null)
            /\ UNCHANGED <<cmSessions, cmIssued>>
    /\ UNCHANGED <<daemonVars, cm, cmStarts, releasedPaths>>

(* ConnMan calls Update on pold's notification object.                      *)
CmUpdate(s) ==
    /\ pc # "exited"
    /\ s \in cmSessions
    /\ CanQueue(1)
    /\ inbox' = Append(inbox, UpdateMsg)
    /\ UNCHANGED <<daemonVars, cmVars>>

(* ConnMan ends a session and calls Release.                                *)
CmRelease(s) ==
    /\ pc # "exited"
    /\ s \in cmSessions
    /\ CanQueue(1)
    /\ cmSessions' = cmSessions \ {s}
    /\ releasedPaths' = releasedPaths \cup {s}
    /\ inbox' = Append(inbox, ReleaseMsg)
    /\ UNCHANGED <<daemonVars, cm, cmStarts, cmCreate, cmOrphans, cmIssued>>

-----------------------------------------------------------------------------
(* The steps of pold's own thread: main, and the handlers the loop runs.   *)
PoldStep ==
    \/ \E ok \in BOOLEAN : parse_options(ok) \/ init_dbus(ok)
    \/ \E r \in {"ok", "no_session", "no_signal"} : pold_http_client_init(r)
    \/ install_signal_handlers
    \/ \E r \in {"ok", "no_default", "no_own", "load_failed"} : pold_policy_init(r)
    \/ \E ok \in BOOLEAN : pold_manager_init(ok) \/ pold_connman_notification_init(ok)
    \/ pold_session_init
    \/ LoopReturns
    \/ \E sent \in BOOLEAN : pold_connman_manager_create_session(sent)
    \/ create_session_cb
    \/ release
    \/ update
    \/ connman_disappeared

Next ==
    \/ PoldStep
    \/ signal_quit
    \/ CallTimeout
    \/ CmStart
    \/ CmStop
    \/ \E ok \in BOOLEAN : CmCreateSession(ok)
    \/ \E s \in cmSessions : CmUpdate(s) \/ CmRelease(s)

(***************************************************************************)
(* The main loop keeps running pold's steps, and libdbus's timeout source  *)
(* is one of the loop's sources.  ConnMan and the signals are the          *)
(* environment and are not fair: ConnMan may never answer a call.          *)
(***************************************************************************)
Spec == Init /\ [][Next]_vars /\ WF_vars(PoldStep) /\ WF_vars(CallTimeout)

-----------------------------------------------------------------------------
(***************************************************************************)
(* The goto ladders of main and pold_policy_init release every resource    *)
(* at most once, and only one that was acquired, in the reverse order of   *)
(* acquisition.  This holds on every path: each init function failing,     *)
(* or the loop ending on a signal.                                         *)
(***************************************************************************)
TeardownMirrorsStartup ==
    /\ IsInjective(released)
    /\ Range(released) \subseteq Range(acquired)
    /\ \A i, j \in DOMAIN released :
          i < j => \E a, b \in DOMAIN acquired :
                      /\ acquired[a] = released[j]
                      /\ acquired[b] = released[i]
                      /\ a < b

(***************************************************************************)
(* ConnMan never holds two sessions for pold.  Release names no session,   *)
(* so with two sessions, a Release of one would clear pold's path while    *)
(* ConnMan still holds the other.  The code does not have this property.   *)
(* The watch's appeared event is queued behind ConnMan's departure and     *)
(* return.  When it is dispatched late, it sends a second CreateSession to *)
(* the new owner of the name (README, "Known issues").                     *)
(***************************************************************************)
AtMostOneSession == Cardinality(cmSessions) <= 1

(***************************************************************************)
(* pold never keeps a session path that ConnMan has released, except while *)
(* the Release is still queued.  This rests on the bus delivering ConnMan's *)
(* CreateSession reply before its later Release.                           *)
(***************************************************************************)
ReleasedPathDropped ==
    path \in releasedPaths => \E i \in DOMAIN inbox : inbox[i].k = "release"

(***************************************************************************)
(* Every CreateSession pold sends ends in create_session_cb, or the        *)
(* process exits first, even if ConnMan never answers: the reply, the      *)
(* bus's error when ConnMan leaves, or libdbus's timeout error is queued,  *)
(* and the loop dispatches it.                                             *)
(***************************************************************************)
CreateSessionCompletes == calls > 0 ~> (calls = 0 \/ pc = "exited")

==============================================================================
