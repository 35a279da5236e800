------------------------------ MODULE Settings ------------------------------
(***************************************************************************)
(* Saving the settings page (handleUpdateSettings in                       *)
(* internal/server/api_overview.go), switching a certificate               *)
(* (handleToggleCert in api_actions.go) and restarting the panel's server  *)
(* (requestPanelRestart and New in server.go; servePanels in               *)
(* cmd/mantou/main.go).                                                    *)
(*                                                                         *)
(* A save checks a snapshot, changes the configuration in an Update, takes *)
(* a second snapshot and puts that in force: the entry limit in the log    *)
(* ring, the access ring and the log file one after the other, the sign-in *)
(* limiter, and a restart when the listener's settings differ between the  *)
(* two.  Saves overlap; what each read may have been changed by another.   *)
(***************************************************************************)
EXTENDS Integers, FiniteSets

CONSTANTS StgSaves,    \* the requests, numbered in the order in which they come
          StgKinds,    \* the sections they save
          StgValues    \* values of a port, a limit, a number of failures

ASSUME StgAssumption ==
    /\ StgSaves \subseteq Nat /\ StgValues \subseteq Nat /\ 1 \in StgValues
    /\ StgKinds \subseteq {"port", "https", "cert", "log", "auth", "wall"}

VARIABLES
    stgCfg,       \* the settings that are saved
    stgLive,      \* the limits in force, and the listener that runs
    stgRestart,   \* a restart has been asked for
    stgAt,        \* every request: its place, its content, its snapshots
    stgStale      \* the sections in which a request acted on an old snapshot
stgVars == <<stgCfg, stgLive, stgRestart, stgAt, stgStale>>

StgRequests ==
    [kind : StgKinds \intersect {"port", "log", "auth"}, value : StgValues]
    \union [kind : StgKinds \intersect {"https", "cert"}, value : BOOLEAN]
    \union [kind : StgKinds \intersect {"wall"}, value : {"lists", "mode"}]

StgIdle == {s \in StgSaves : stgAt[s].at \in {"new", "done"}}

\* A request goes on; what it read is forgotten when it has been answered.
StgStart == [port |-> 1, https |-> FALSE, cert |-> TRUE, log |-> 1, auth |-> 1,
             mode |-> 0, lists |-> 0]
StgLists == [kind |-> "wall", value |-> "lists"]
StgEnd(rec) == [rec EXCEPT !.at = "done", !.before = StgStart, !.after = StgStart,
                           !.req = IF @ = StgLists THEN @ ELSE [kind |-> "port", value |-> 1]]
StgGo(s, at) ==
    stgAt' = [stgAt EXCEPT ![s] = IF at = "done" THEN StgEnd(@) ELSE [@ EXCEPT !.at = at]]

StgListener(cfg) == <<cfg.port, cfg.https>>

\* What a request is refused for: HTTPS needs a certificate that is switched
\* on, and one that is used stays on.
StgRefuses(req, cfg) ==
    \/ req.kind = "https" /\ req.value /\ ~cfg.cert
    \/ req.kind = "cert" /\ ~req.value /\ cfg.https

\* What a request has made of the settings.  A firewall policy without lists
\* keeps those of the snapshot.
StgMade(req, before, cfg) ==
    CASE req.kind = "wall" /\ req.value = "lists" -> [cfg EXCEPT !.lists = @ + 1]
      [] req.kind = "wall" /\ req.value = "mode" -> [cfg EXCEPT !.mode = @ + 1, !.lists = before.lists]
      [] OTHER -> [cfg EXCEPT ![req.kind] = req.value]

StgBegin(s, req) ==
    /\ stgAt[s].at = "new" /\ \A o \in StgSaves : o < s => stgAt[o].at # "new"
    /\ stgAt' = [stgAt EXCEPT ![s] =
          IF StgRefuses(req, stgCfg) THEN StgEnd(@)
          ELSE [at |-> "checked", req |-> req, before |-> stgCfg, after |-> StgStart]]
    /\ UNCHANGED <<stgCfg, stgLive, stgRestart, stgStale>>

\* The sections of which the check or the policy rests on a snapshot that
\* is no longer true.
StgOverlooked(s) ==
    LET req == stgAt[s].req  before == stgAt[s].before
    IN  (IF StgRefuses(req, stgCfg) THEN {"cert"} ELSE {})
        \union (IF req.kind = "wall" /\ before.lists # stgCfg.lists THEN {"wall"} ELSE {})

StgUpdate(s) ==
    /\ stgAt[s].at = "checked"
    /\ stgCfg' = StgMade(stgAt[s].req, stgAt[s].before, stgCfg)
    /\ stgStale' = stgStale \union StgOverlooked(s)
    /\ StgGo(s, IF stgAt[s].req.kind = "cert" THEN "done" ELSE "saved")
    /\ UNCHANGED <<stgLive, stgRestart>>

\* The second snapshot; the log's limit is applied in three steps.
StgLook(s) ==
    /\ stgAt[s].at = "saved"
    /\ stgAt' = [stgAt EXCEPT ![s].after = stgCfg,
                              ![s].at = IF stgAt[s].req.kind = "log" THEN "ring"
                                        ELSE IF stgAt[s].req.kind = "auth" THEN "limiter"
                                        ELSE "answer"]
    /\ stgStale' = IF stgAt[s].req.kind \in {"log", "auth"} /\ \E o \in StgSaves \ {s} :
                         stgAt[o].at \notin {"new", "done", "checked"}
                            /\ stgAt[o].req.kind = stgAt[s].req.kind
                   THEN stgStale \union {stgAt[s].req.kind} ELSE stgStale
    /\ UNCHANGED <<stgCfg, stgLive, stgRestart>>

\* Mutant of StgThen: the log file keeps its limit.
StgThenNoFile(at) ==
    CASE at = "ring" -> "web" [] at = "web" -> "answer" [] OTHER -> "answer"

StgThen(at) ==
    CASE at = "ring" -> "web" [] at = "web" -> "file" [] OTHER -> "answer"

StgApply(s) ==
    /\ stgAt[s].at \in {"ring", "web", "file", "limiter"}
    /\ stgLive' = [stgLive EXCEPT ![stgAt[s].at] =
          IF stgAt[s].at = "limiter" THEN stgAt[s].after.auth ELSE stgAt[s].after.log]
    /\ StgGo(s, StgThen(stgAt[s].at))
    /\ UNCHANGED <<stgCfg, stgRestart, stgStale>>

\* Mutant of StgMoved: only the port is compared.
StgMovedPort(before, after) == before.port # after.port

StgMoved(before, after) == StgListener(before) # StgListener(after)

StgAnswer(s) ==
    /\ stgAt[s].at = "answer"
    /\ stgRestart' = (stgRestart \/ StgMoved(stgAt[s].before, stgAt[s].after))
    /\ stgStale' = IF stgAt[s].req.kind \in {"port", "https"}
                      /\ stgAt[s].after[stgAt[s].req.kind] # stgAt[s].req.value
                   THEN stgStale \union {"listener"} ELSE stgStale
    /\ StgGo(s, "done")
    /\ UNCHANGED <<stgCfg, stgLive>>

\* The server is shut down when its requests have been answered, and a new
\* one made from the settings that are saved.
StgRestarts ==
    /\ stgRestart /\ StgIdle = StgSaves
    /\ stgRestart' = FALSE
    /\ stgLive' = [stgLive EXCEPT !.listener = StgListener(stgCfg), !.limiter = stgCfg.auth]
    /\ UNCHANGED <<stgCfg, stgAt, stgStale>>

StgInit ==
    /\ stgCfg = StgStart
    /\ stgLive = [ring |-> 1, web |-> 1, file |-> 1, limiter |-> 1, listener |-> <<1, FALSE>>]
    /\ stgRestart = FALSE /\ stgStale = {}
    /\ stgAt = [s \in StgSaves |-> [at |-> "new", req |-> [kind |-> "port", value |-> 1],
                                    before |-> StgStart, after |-> StgStart]]

StgNext ==
    \/ \E s \in StgSaves : \/ \E req \in StgRequests : StgBegin(s, req)
                           \/ StgUpdate(s) \/ StgLook(s) \/ StgApply(s) \/ StgAnswer(s)
    \/ StgRestarts

-----------------------------------------------------------------------------
\* Every variable has its type.
StgTypeOK ==
    /\ stgRestart \in BOOLEAN
    /\ stgStale \subseteq {"cert", "wall", "log", "auth", "listener"}
    /\ \A s \in StgSaves : stgAt[s].at \in {"new", "checked", "saved", "ring", "web", "file",
                                            "limiter", "answer", "done"}

\* How many lists were saved.
StgListsSaved ==
    Cardinality({s \in StgSaves : stgAt[s].req = StgLists
                                  /\ stgAt[s].at \notin {"new", "checked"}})

\* When every save has been answered the limits in force are the saved ones,
\* in all of their places; a listener that differs from the saved one has a
\* restart coming; HTTPS has a certificate that is switched on; and no
\* firewall list is undone by a save that brought none.  Each holds as long
\* as no save of the same section came between a save's two looks at it.
SettingsAreInForce ==
    /\ "cert" \in stgStale \/ ~stgCfg.https \/ stgCfg.cert
    /\ "wall" \in stgStale \/ stgCfg.lists = StgListsSaved
    /\ StgIdle = StgSaves =>
          /\ "log" \in stgStale
                \/ \A place \in {"ring", "web", "file"} : stgLive[place] = stgCfg.log
          /\ "auth" \in stgStale \/ stgLive.limiter = stgCfg.auth
          /\ "listener" \in stgStale \/ stgRestart
                \/ stgLive.listener = StgListener(stgCfg)
=============================================================================
