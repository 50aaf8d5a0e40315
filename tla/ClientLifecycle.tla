-------------------------- MODULE ClientLifecycle --------------------------
(***************************************************************************)
(* How clients come to be, are found and are restarted: the callers of     *)
(* create_producer/2 and create_consumer_group/5 (lib/exrdkafka.ex), the   *)
(* client manager, the supervisor of the clients, the table of clients     *)
(* (cache_client.ex) and the native clients behind them.                   *)
(*                                                                         *)
(* The manager looks the id up in the table, makes the native client of a  *)
(* producer and asks the supervisor, whose child it is itself, to start    *)
(* the client's process, which enters itself into the table.  A caller     *)
(* gives up after five seconds while its request is still served; a client *)
(* that dies is restarted, and when too much dies the supervisor goes down *)
(* with all its children and comes back with the manager alone, while the  *)
(* table keeps its entries: nothing removes one.                           *)
(***************************************************************************)
EXTENDS Integers, Sequences

CONSTANTS
    Ids,             \* the ids of the clients
    Callers,         \* the processes that create one client each
    Nobody,          \* no process
    Undefined,       \* :undefined
    Nil,             \* what Application.get_env/2 returns for a missing key
    Environments,    \* the values of :global_client_options
    Intensity,       \* max_restarts of the supervisors, 3 by default
    MaxDeaths        \* bound: the processes that die

ASSUME ClientLifecycleAssumption ==
    /\ Nobody \notin Callers \union Ids
    /\ Intensity \in Nat /\ MaxDeaths \in Nat

Kinds == {"producer", "consumer_group"}

VARIABLES
    env,         \* the application's :global_client_options
    want,        \* what each caller creates: an id and a kind
    call,        \* see Calls
    inbox,       \* the callers whose request is in the manager's mailbox
    manager,     \* "idle", "adding" in add_client/3, "down"
    serving,     \* the caller whose request it handles, or Nobody
    supervisor,  \* "running", "down"
    starting,    \* the client whose start the supervisor waits for, or Nobody
    restarts,    \* its restarts within max_seconds
    child,       \* the state of each client's process: see Children
    life,        \* how many processes the client has had: the pid of the last
    kind,        \* what the client is
    cache,       \* the pid in the table, or 0
    native,      \* the rd_kafka_t of each id that exist
    closing,     \* those among them whose end terminate/2 has ceased to wait for
    deaths       \* the processes that have died so far

managerVars == <<inbox, manager, serving>>
supVars     == <<supervisor, starting, restarts>>
clientVars  == <<child, life, kind, cache, native, closing>>
vars == <<env, want, call, managerVars, supVars, clientVars, deaths>>

\* "new": not asked yet; "raised": by append_props/2; "gone": GenServer.call/2 exited.
Calls == {"new", "raised", "waiting", "ok", "exists", "error", "gone"}
\* "init": in start_link, before its entry; "entered": with it; "dead": to be restarted.
Children == {"absent", "init", "entered", "running", "dead"}

Reply(c, result) == call' = [call EXCEPT ![c] = IF @ = "waiting" THEN result ELSE @]

\* The callers that wait for the manager are told of its end.
CallersExit == call' = [c \in Callers |-> IF call[c] = "waiting" THEN "gone" ELSE call[c]]

-----------------------------------------------------------------------------
(* The callers *)

\* get_env/2 replaces only :undefined by the default, and a missing key is nil.
GetEnv(value, default) == IF value = Undefined THEN default ELSE value

\* append_props/2 returns for nil only: no clause takes the empty list the recursion
\* over a list comes to.
AppendPropsRaises(global) == global # Nil

\* append_props/2 raises in the caller's process.
OptionsRaise(c) ==
    /\ call[c] = "new" /\ AppendPropsRaises(GetEnv(env, << >>))
    /\ call' = [call EXCEPT ![c] = "raised"]
    /\ UNCHANGED <<env, want, managerVars, supVars, clientVars, deaths>>

\* convert_kafka_config/1, which a producer's caller runs itself, reports a bad option.
BadConfig(c) ==
    /\ call[c] = "new" /\ ~AppendPropsRaises(GetEnv(env, << >>))
    /\ want[c].kind = "producer"
    /\ call' = [call EXCEPT ![c] = "error"]
    /\ UNCHANGED <<env, want, managerVars, supVars, clientVars, deaths>>

\* GenServer.call(ClientManager, ...)
Ask(c) ==
    /\ call[c] = "new" /\ ~AppendPropsRaises(GetEnv(env, << >>))
    /\ IF manager = "down"
         THEN call' = [call EXCEPT ![c] = "gone"] /\ UNCHANGED inbox
         ELSE call' = [call EXCEPT ![c] = "waiting"] /\ inbox' = inbox \union {c}
    /\ UNCHANGED <<env, want, manager, serving, supVars, clientVars, deaths>>

\* Five seconds are over: the caller exits, its request stays.
CallTimeout(c) ==
    /\ call[c] = "waiting"
    /\ call' = [call EXCEPT ![c] = "gone"]
    /\ UNCHANGED <<env, want, managerVars, supVars, clientVars, deaths>>

-----------------------------------------------------------------------------
(* The client manager *)

\* The manager takes c's request; Known: CacheClient.get/1 finds the id.
Takes(c) == manager = "idle" /\ c \in inbox /\ inbox' = inbox \ {c}
Known(c) == cache[want[c].id] # 0

AlreadyExists(c) ==
    /\ Takes(c) /\ Known(c)
    /\ Reply(c, "exists")
    /\ UNCHANGED <<env, want, manager, serving, supVars, clientVars, deaths>>

\* producer_new fails, or the topics or options of a group are not valid.
Refuse(c) ==
    /\ Takes(c) /\ ~Known(c)
    /\ Reply(c, "error")
    /\ UNCHANGED <<env, want, manager, serving, supVars, clientVars, deaths>>

\* Variant: the table is not looked at.
StartClientUnchecked(c) ==
    /\ Takes(c)
    /\ manager' = "adding" /\ serving' = c
    /\ native' = [native EXCEPT ![want[c].id] = @ + IF want[c].kind = "producer" THEN 1 ELSE 0]
    /\ UNCHANGED <<env, want, call, supVars, child, life, kind, cache, closing, deaths>>

\* start_new_producer/3 makes the native client here, a group does so in init/1.
StartClient(c) ==
    /\ Takes(c) /\ ~Known(c)
    /\ manager' = "adding" /\ serving' = c
    /\ native' = [native EXCEPT ![want[c].id] = @ + IF want[c].kind = "producer" THEN 1 ELSE 0]
    /\ UNCHANGED <<env, want, call, supVars, child, life, kind, cache, closing, deaths>>

\* valid_consumer_topics/1 has no clause for topics that are not a list.
ManagerCrashes(c) ==
    /\ Takes(c) /\ ~Known(c) /\ want[c].kind = "consumer_group" /\ deaths < MaxDeaths
    /\ manager' = "down" /\ inbox' = {} /\ deaths' = deaths + 1
    /\ CallersExit
    /\ UNCHANGED <<env, want, serving, supVars, clientVars>>

-----------------------------------------------------------------------------
(* The supervisor and the clients it starts *)

Idle == supervisor = "running" /\ starting = Nobody

\* The process of client i is started, by start_child or by a restart.
Spawn(i, k) == /\ starting' = i
               /\ child' = [child EXCEPT ![i] = "init"]
               /\ life' = [life EXCEPT ![i] = @ + 1]
               /\ kind' = [kind EXCEPT ![i] = k]

\* Supervisor.start_child/2.  It never has the id already: every child that is kept
\* has an entry in the table, and the manager has found none.
StartChild ==
    LET i == want[serving].id IN
    /\ Idle /\ manager = "adding" /\ child[i] = "absent"
    /\ Spawn(i, want[serving].kind)
    /\ UNCHANGED <<env, want, call, managerVars, supervisor, restarts, cache, native, closing,
                   deaths>>

\* Variant: only the first process enters itself.
EnterOnce(i) ==
    /\ starting = i /\ child[i] = "init"
    /\ child' = [child EXCEPT ![i] = "entered"]
    /\ cache' = IF cache[i] = 0 THEN [cache EXCEPT ![i] = life[i]] ELSE cache
    /\ native' = [native EXCEPT ![i] = @ + IF kind[i] = "consumer_group" THEN 1 ELSE 0]
    /\ UNCHANGED <<env, want, call, managerVars, supVars, life, kind, closing, deaths>>

\* init/1 up to CacheClient.set; a group has made its native client before.
Enter(i) ==
    /\ starting = i /\ child[i] = "init"
    /\ child' = [child EXCEPT ![i] = "entered"]
    /\ cache' = [cache EXCEPT ![i] = life[i]]
    /\ native' = [native EXCEPT ![i] = @ + IF kind[i] = "consumer_group" THEN 1 ELSE 0]
    /\ UNCHANGED <<env, want, call, managerVars, supVars, life, kind, closing, deaths>>

\* The manager, if it is the manager's call that waits, is given the result.
Started(i, result) ==
    /\ starting' = Nobody
    /\ IF manager = "adding" /\ want[serving].id = i
         THEN manager' = "idle" /\ serving' = Nobody /\ Reply(serving, result)
         ELSE UNCHANGED <<manager, serving, call>>

\* Variant: the manager does not hear of it.
InitDoneSilently(i) ==
    /\ child[i] = "entered"
    /\ child' = [child EXCEPT ![i] = "running"]
    /\ starting' = Nobody
    /\ UNCHANGED <<env, want, call, managerVars, supervisor, restarts, life, kind, cache, native,
                   closing, deaths>>

InitDone(i) ==
    /\ child[i] = "entered"
    /\ child' = [child EXCEPT ![i] = "running"]
    /\ Started(i, "ok")
    /\ UNCHANGED <<env, want, inbox, supervisor, restarts, life, kind, cache, native, closing,
                   deaths>>

\* Variant: a restart that fails is not tried again.
InitFailsForGood(i) ==
    /\ child[i] = IF kind[i] = "producer" THEN "entered" ELSE "init"
    /\ deaths < MaxDeaths /\ deaths' = deaths + 1
    /\ child' = [child EXCEPT ![i] = "absent"]
    /\ Started(i, "error")
    /\ UNCHANGED <<env, want, inbox, supervisor, restarts, life, kind, cache, native, closing>>

\* consumer_new fails, before the entry, or LocalQueue.new, after it.  A first start
\* leaves no child behind, a restart is tried again.
InitFails(i) ==
    /\ child[i] = IF kind[i] = "producer" THEN "entered" ELSE "init"
    /\ deaths < MaxDeaths /\ deaths' = deaths + 1
    /\ child' = [child EXCEPT ![i] = IF manager = "adding" /\ want[serving].id = i
                                       THEN "absent" ELSE "dead"]
    /\ Started(i, "error")
    /\ UNCHANGED <<env, want, inbox, supervisor, restarts, life, kind, cache, native, closing>>

RunningGroups == {i \in Ids : child[i] = "running" /\ kind[i] = "consumer_group"}

\* The native clients of these ids go; but terminate/2 of a group waits 180 seconds only,
\* and what is not closed by then is left behind, closing.
NativeEnds(ids) == \E late \in SUBSET (ids \intersect RunningGroups) :
    /\ native'  = [i \in Ids |-> native[i] - IF i \in ids \ late THEN 1 ELSE 0]
    /\ closing' = [i \in Ids |-> closing[i] + IF i \in late THEN 1 ELSE 0]

\* A client dies with an error; terminate/2 of a group closes the native client, a
\* producer's stays for the next process.
Die(i) ==
    /\ child[i] = "running" /\ deaths < MaxDeaths
    /\ child' = [child EXCEPT ![i] = "dead"] /\ deaths' = deaths + 1
    /\ NativeEnds({i} \intersect RunningGroups)
    /\ UNCHANGED <<env, want, call, managerVars, supVars, life, kind, cache>>

\* A native client that was left behind is closed at last.
ClosedLate(i) ==
    /\ closing[i] > 0
    /\ native' = [native EXCEPT ![i] = @ - 1] /\ closing' = [closing EXCEPT ![i] = @ - 1]
    /\ UNCHANGED <<env, want, call, managerVars, supVars, child, life, kind, cache, deaths>>

\* Variant: restarts are not limited.
RestartsUnlimited == Idle /\ restarts' = restarts + 1

\* One restart more than max_restarts within max_seconds is one too many.
Restarts == Idle /\ restarts < Intensity /\ restarts' = restarts + 1

RestartClient(i) ==
    /\ child[i] = "dead" /\ Restarts
    /\ Spawn(i, kind[i])
    /\ UNCHANGED <<env, want, call, managerVars, supervisor, cache, native, closing, deaths>>

RestartManager ==
    /\ manager = "down" /\ Restarts
    /\ manager' = "idle"
    /\ UNCHANGED <<env, want, call, inbox, serving, supervisor, starting, clientVars, deaths>>

\* max_seconds pass.
WindowPasses ==
    /\ restarts > 0
    /\ restarts' = 0
    /\ UNCHANGED <<env, want, call, managerVars, supervisor, starting, clientVars, deaths>>

\* A producer's native client that the manager has made for c, before its process is there.
Made(c) == {i \in Ids : manager = "adding" /\ want[c] = [id |-> i, kind |-> "producer"]}

\* The supervisor gives up and takes its children down, waiting for each.  Groups close
\* their native clients, a producer's is kept by its entry in the table; one that the
\* manager has just made is freed with the manager.
GiveUp ==
    /\ Idle /\ restarts = Intensity
    /\ manager = "down" \/ \E i \in Ids : child[i] = "dead"
    /\ supervisor' = "down" /\ manager' = "down" /\ inbox' = {} /\ serving' = Nobody
    /\ child' = [i \in Ids |-> "absent"]
    /\ NativeEnds(RunningGroups \union Made(serving))
    /\ CallersExit
    /\ UNCHANGED <<env, want, starting, restarts, life, kind, cache, deaths>>

\* The application's supervisor starts it again, with the manager as its only child;
\* Exrdkafka.Clients, which has created the configured clients, is not started again.
RestartSupervisor ==
    /\ supervisor = "down"
    /\ supervisor' = "running" /\ restarts' = 0 /\ manager' = "idle"
    /\ UNCHANGED <<env, want, call, inbox, serving, starting, clientVars, deaths>>

-----------------------------------------------------------------------------
Init ==
    /\ env \in Environments
    /\ want \in [Callers -> [id : Ids, kind : Kinds]]
    /\ call = [c \in Callers |-> "new"] /\ inbox = {}
    /\ manager = "idle" /\ serving = Nobody
    /\ supervisor = "running" /\ starting = Nobody /\ restarts = 0
    /\ child = [i \in Ids |-> "absent"] /\ life = [i \in Ids |-> 0]
    /\ kind = [i \in Ids |-> "producer"]
    /\ cache = [i \in Ids |-> 0] /\ native = [i \in Ids |-> 0]
    /\ closing = [i \in Ids |-> 0] /\ deaths = 0

Manager(c) == AlreadyExists(c) \/ Refuse(c) \/ StartClient(c) \/ ManagerCrashes(c)

Supervisor == \/ StartChild \/ RestartManager \/ GiveUp
              \/ \E i \in Ids : RestartClient(i)

Client(i) == Enter(i) \/ InitDone(i) \/ InitFails(i)

Next == \/ \E c \in Callers : \/ OptionsRaise(c) \/ BadConfig(c) \/ Ask(c) \/ CallTimeout(c)
                              \/ Manager(c)
        \/ Supervisor \/ RestartSupervisor \/ WindowPasses
        \/ \E i \in Ids : Client(i) \/ Die(i) \/ ClosedLate(i)

Spec == Init /\ [][Next]_vars

\* The manager, the supervisors and the processes they start are scheduled.
Fairness == /\ \A c \in Callers : WF_vars(Manager(c))
            /\ WF_vars(Supervisor) /\ WF_vars(RestartSupervisor)
            /\ \A i \in Ids : WF_vars(Client(i))

LiveSpec == Spec /\ Fairness

-----------------------------------------------------------------------------
(* Properties *)

TypeOK ==
    /\ env \in Environments /\ want \in [Callers -> [id : Ids, kind : Kinds]]
    /\ call \in [Callers -> Calls] /\ inbox \subseteq Callers
    /\ manager \in {"idle", "adding", "down"} /\ serving \in Callers \union {Nobody}
    /\ manager = "adding" => serving \in Callers
    /\ supervisor \in {"running", "down"} /\ starting \in Ids \union {Nobody}
    /\ restarts \in 0 .. Intensity
    /\ child \in [Ids -> Children] /\ life \in [Ids -> Nat] /\ kind \in [Ids -> Kinds]
    /\ {cache, native, closing} \subseteq [Ids -> Nat] /\ deaths \in 0 .. MaxDeaths

\* An id stands for one client at most, over timeouts, retries, crashes and restarts: a
\* second creation is never answered :ok, and a client that runs is the one its id leads
\* to, with a native client of its own.  It is the only one of the id but for those that a
\* group's terminate/2 has left closing after 180 seconds (consumer_group.ex:161-164):
\* beside these the next process does make a second rd_kafka_t.
OneClient == \A i \in Ids :
    /\ native[i] <= closing[i] + 1
    /\ \A c, d \in Callers : /\ want[c].id = i /\ call[c] = "ok"
                            /\ want[d].id = i /\ call[d] = "ok" => c = d
    /\ child[i] = "running" => cache[i] = life[i] /\ native[i] = closing[i] + 1

\* Who is told :ok has a client of the kind it asked for, and the supervisor keeps it,
\* running or to be started again, over restarts that fail and the requests of others,
\* until it gives up all its children.
CreatedIsKept == [][\A c \in Callers : LET i == want[c].id IN
    /\ call[c] # "ok" /\ call'[c] = "ok" => child'[i] = "running" /\ kind'[i] = want[c].kind
    /\ call[c] = "ok" /\ child[i] # "absent" =>
          \/ child'[i] # "absent" /\ kind'[i] = want[c].kind
          \/ supervisor' = "down"]_vars

\* The manager answers every request, or its callers learn that it is gone: it never
\* waits for the supervisor for ever, whose child it is.
Answered == \A c \in Callers : call[c] = "waiting" ~> call[c] # "waiting"

\* A client that dies comes back under its id, unless the supervisor gives up.
ComesBack == \A i \in Ids : child[i] = "dead" ~>
    (child[i] = "running" /\ cache[i] = life[i]) \/ supervisor = "down"

\* test/exrdkafka_test.exs:37-50 configures global options and expects
\* create_producer/2 to work with them: it returns, whatever it returns.
GlobalOptionsWork == \A c \in Callers :
    call[c] = "raised" => env \in {Nil, Undefined, << >>}
=============================================================================
