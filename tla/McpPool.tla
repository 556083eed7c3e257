------------------------------- MODULE McpPool -------------------------------
(***************************************************************************)
(* The pool of MCP connections (src/flue/mcp.ts), the table behind it      *)
(* (src/mcp/store.ts) and the /mcp add and /mcp remove commands that keep  *)
(* the two together (src/mcp/interactions.ts).                             *)
(*                                                                         *)
(* Every await of a command is a step.  A server may answer, refuse, or    *)
(* not answer at all; a statement on the table may fail, and then changed  *)
(* nothing.                                                                *)
(***************************************************************************)
EXTENDS Integers

CONSTANTS
  Ids,         \* servers
  Conns,       \* identities of connections (numbers)
  Commands,    \* /mcp add and /mcp remove commands (numbers)
  MaxCloses,   \* bound on closings of the pool
  MaxRestarts  \* bound on restarts of the process

ASSUME Numbered == Conns \subseteq Nat \ {0} /\ Commands \subseteq Nat
ASSUME Bounds == MaxCloses \in Nat /\ MaxRestarts \in Nat

NoConn == 0
NoServer == "no server"

VARIABLES
  rows,        \* ids in mcp_servers
  servers,     \* ids the pool was made with
  conn,        \* open connections; a closed one gives its identity back
  map,         \* McpPool.connections
  generation,  \* McpPool.connectGeneration
  promise,     \* generations whose connectAll was started; the last one is connectPromise
  warm,        \* connectAll: how far the server of an id is, by generation
  cmd,         \* commands under way
  shared,      \* is the pool still the shared pool of the process
  crossed,     \* ids whose command met another command, the warm-up or a closing
  refused,     \* ids whose last connection attempt failed
  restarts

pool == <<conn, map>>
history == <<crossed, refused>>
vars == <<rows, servers, pool, generation, promise, warm, cmd, shared, history, restarts>>

Generations == 0..MaxCloses
ConnRows == [server : Ids \cup {NoServer}, by : {"none", "warm", "command"}, made : Generations]
Unused == [server |-> NoServer, by |-> "none", made |-> 0]

WarmSteps == {"idle", "connecting", "late", "connected", "failed"}
Kinds == {"add", "remove"}
Steps == {"none", "lookup", "ready", "connect", "insert", "rollback",
          "take", "delete", "done"}
CommandRows == [kind : Kinds, id : Ids \cup {NoServer}, step : Steps, wait : Generations,
                existing : BOOLEAN, removed : BOOLEAN]
NoCommand == [kind |-> "add", id |-> NoServer, step |-> "none", wait |-> 0,
              existing |-> FALSE, removed |-> FALSE]

UnderWay(c) == cmd[c].step \notin {"none", "done"}
Warming(i) == \E g \in Generations : warm[g][i] \in {"connecting", "late"}

\* The promise of a generation settles when every server of it did.
Settled(g) == \A i \in Ids : warm[g][i] # "connecting"

Started(w, g) == [w EXCEPT ![g] = [i \in Ids |-> IF i \in servers THEN "connecting" ELSE "idle"]]

\* Mutant: ready() keeps no promise.
ReadyAgain ==
  /\ promise' = promise \cup {generation}
  /\ warm' = Started(warm, generation)

\* ready(): one connectAll per generation.
Ready ==
  /\ promise' = promise \cup {generation}
  /\ warm' = IF generation \in promise THEN warm ELSE Started(warm, generation)

Cold == [g \in Generations |-> [i \in Ids |-> "idle"]]

\* The process starts on any table: warmMcpPool makes a pool of its rows and
\* starts connecting without waiting.
Init ==
  /\ rows \in SUBSET Ids
  /\ servers = rows
  /\ conn = [k \in Conns |-> Unused]
  /\ map = [i \in Ids |-> NoConn]
  /\ generation = 0
  /\ promise = IF rows = {} THEN {} ELSE {0}
  /\ warm = [Cold EXCEPT ![0] = [i \in Ids |-> IF i \in rows THEN "connecting" ELSE "idle"]]
  /\ cmd = [c \in Commands |-> NoCommand]
  /\ shared = TRUE
  /\ crossed = {}
  /\ refused = {}
  /\ restarts = 0

--------------------------------------------------------------------------------
IsOpen(k) == conn[k].by # "none"
NextConn(k) == ~IsOpen(k) /\ \A o \in Conns : IsOpen(o) \/ k <= o

Opened(k, i, by, g) ==
  [conn EXCEPT ![k] = [server |-> i, by |-> by, made |-> g]]
Closed(ks) == [k \in Conns |-> IF k \in ks THEN Unused ELSE conn[k]]

--------------------------------------------------------------------------------
\* connectAll, one server of one generation.

\* Mutant: a connection of an old generation is stored.
WarmConnectAnyway(g, i) ==
  /\ warm[g][i] = "connecting"
  /\ \E k \in Conns :
       /\ NextConn(k)
       /\ conn' = Opened(k, i, "warm", g)
       /\ map' = [map EXCEPT ![i] = k]
  /\ warm' = [warm EXCEPT ![g][i] = "connected"]
  /\ refused' = refused \ {i}
  /\ UNCHANGED <<rows, servers, generation, promise, cmd, shared, crossed, restarts>>

\* The server answers in time; a connection of an old generation is closed.
WarmConnect(g, i) ==
  /\ warm[g][i] = "connecting"
  /\ IF g = generation
     THEN \E k \in Conns :
            /\ NextConn(k)
            /\ conn' = Opened(k, i, "warm", g)
            /\ map' = [map EXCEPT ![i] = k]
     ELSE UNCHANGED pool
  /\ warm' = [warm EXCEPT ![g][i] = "connected"]
  /\ refused' = refused \ {i}
  /\ UNCHANGED <<rows, servers, generation, promise, cmd, shared, crossed, restarts>>

WarmFail(g, i) ==
  /\ warm[g][i] = "connecting"
  /\ warm' = [warm EXCEPT ![g][i] = "failed"]
  /\ refused' = refused \cup {i}
  /\ UNCHANGED <<rows, servers, pool, generation, promise, cmd, shared, crossed, restarts>>

\* Mutant: the timer is not armed for a pool that has connections.
WarmTimeoutRarely(g, i) ==
  /\ warm[g][i] = "connecting"
  /\ \A j \in Ids : map[j] = NoConn
  /\ warm' = [warm EXCEPT ![g][i] = "late"]
  /\ refused' = refused \cup {i}
  /\ UNCHANGED <<rows, servers, pool, generation, promise, cmd, shared, crossed, restarts>>

\* connectWithTimeout gives up but keeps the attempt ...
WarmTimeout(g, i) ==
  /\ warm[g][i] = "connecting"
  /\ warm' = [warm EXCEPT ![g][i] = "late"]
  /\ refused' = refused \cup {i}
  /\ UNCHANGED <<rows, servers, pool, generation, promise, cmd, shared, crossed, restarts>>

\* ... Mutant: and forgets the connection when it comes.
WarmLateKept(g, i) ==
  /\ warm[g][i] = "late"
  /\ \E k \in Conns : NextConn(k) /\ conn' = Opened(k, i, "warm", g)
  /\ warm' = [warm EXCEPT ![g][i] = "failed"]
  /\ UNCHANGED <<rows, servers, map, generation, promise, cmd, shared, history, restarts>>

\* ... to close the connection when it comes after all.
WarmLate(g, i) ==
  /\ warm[g][i] = "late"
  /\ warm' = [warm EXCEPT ![g][i] = "failed"]
  /\ UNCHANGED <<rows, servers, pool, generation, promise, cmd, shared, history, restarts>>

--------------------------------------------------------------------------------
\* Commands.

At(c, step) == cmd[c].step = step
Goto(c, step) ==
  cmd' = [cmd EXCEPT ![c] = IF step = "done" THEN [NoCommand EXCEPT !.step = "done"]
                            ELSE [@ EXCEPT !.step = step]]
Id(c) == cmd[c].id

Start(c, kind, i) ==
  /\ shared
  /\ At(c, "none") /\ \A o \in Commands : o < c => ~At(o, "none")
  /\ cmd' = [cmd EXCEPT ![c] = [NoCommand EXCEPT !.kind = kind, !.id = i, !.step = "lookup"]]
  /\ crossed' = IF Warming(i) \/ \E o \in Commands : UnderWay(o) /\ Id(o) = i
                THEN crossed \cup {i} ELSE crossed
  /\ UNCHANGED <<rows, servers, pool, generation, promise, warm, shared, refused, restarts>>

\* The modal is submitted by its user, with inputs that are valid.
StartAdd(c, i) == Start(c, "add", i)

\* The removal is chosen from the list and confirmed by the user who asked; the
\* server may be gone by then.
StartRemove(c, i) == Start(c, "remove", i)

\* getServer: an add of a known id ends here.
LookupToAdd(c) ==
  /\ At(c, "lookup") /\ cmd[c].kind = "add"
  /\ IF Id(c) \in rows
     THEN Goto(c, "done") /\ UNCHANGED <<promise, warm>>
     ELSE /\ cmd' = [cmd EXCEPT ![c].step = "ready", ![c].wait = generation]
          /\ Ready
  /\ UNCHANGED <<rows, servers, pool, generation, shared, history, restarts>>

LookupToRemove(c) ==
  /\ At(c, "lookup") /\ cmd[c].kind = "remove"
  /\ cmd' = [cmd EXCEPT ![c].step = "take", ![c].existing = Id(c) \in rows]
  /\ UNCHANGED <<rows, servers, pool, generation, promise, warm, shared, history, restarts>>

\* McpPool.addServer awaits ready(), tests the id and connects.
AwaitReady(c) ==
  /\ At(c, "ready") /\ Settled(cmd[c].wait)
  /\ Goto(c, IF map[Id(c)] # NoConn THEN "done" ELSE "connect")
  /\ UNCHANGED <<rows, servers, pool, generation, promise, warm, shared, history, restarts>>

\* The connection is stored without another test; a restored server is done.
AddConnect(c) ==
  /\ At(c, "connect")
  /\ \E k \in Conns :
       /\ NextConn(k)
       /\ conn' = Opened(k, Id(c), "command", generation)
       /\ map' = [map EXCEPT ![Id(c)] = k]
  /\ Goto(c, IF cmd[c].kind = "add" THEN "insert" ELSE "done")
  /\ refused' = refused \ {Id(c)}
  /\ UNCHANGED <<rows, servers, generation, promise, warm, shared, crossed, restarts>>

\* The server refuses, or the timeout that is passed to the client expires.
AddConnectFails(c) ==
  /\ At(c, "connect")
  /\ Goto(c, "done")
  /\ refused' = refused \cup {Id(c)}
  /\ UNCHANGED <<rows, servers, pool, generation, promise, warm, shared, crossed, restarts>>

\* McpStore.addServer: the id is the primary key.
InsertRow(c) ==
  /\ At(c, "insert")
  /\ \/ Id(c) \notin rows /\ rows' = rows \cup {Id(c)} /\ Goto(c, "done")
     \/ UNCHANGED rows /\ Goto(c, "rollback")
  /\ UNCHANGED <<servers, pool, generation, promise, warm, shared, history, restarts>>

\* Mutant: the connection of a server that was not saved stays.
RollbackKept(c) ==
  /\ At(c, "rollback")
  /\ Goto(c, "done")
  /\ UNCHANGED <<rows, servers, pool, generation, promise, warm, shared, history, restarts>>

\* McpPool.removeServer takes whatever connection the id has now.
Rollback(c) ==
  /\ At(c, "rollback")
  /\ conn' = Closed({map[Id(c)]})
  /\ map' = [map EXCEPT ![Id(c)] = NoConn]
  /\ Goto(c, "done")
  /\ UNCHANGED <<rows, servers, generation, promise, warm, shared, history, restarts>>

\* handleMcpRemoveConfirm: the connection first ...
TakeConnection(c) ==
  /\ At(c, "take")
  /\ conn' = Closed({map[Id(c)]})
  /\ map' = [map EXCEPT ![Id(c)] = NoConn]
  /\ IF cmd[c].existing \/ map[Id(c)] # NoConn
     THEN cmd' = [cmd EXCEPT ![c].step = "delete", ![c].removed = map[Id(c)] # NoConn]
     ELSE Goto(c, "done")
  /\ UNCHANGED <<rows, servers, generation, promise, warm, shared, history, restarts>>

\* ... then the row; when that fails a connection that was taken is restored.
DeleteRow(c) ==
  /\ At(c, "delete")
  /\ \/ /\ rows' = rows \ {Id(c)}
        /\ Goto(c, "done")
        /\ UNCHANGED <<promise, warm>>
     \/ /\ cmd[c].existing /\ cmd[c].removed
        /\ cmd' = [cmd EXCEPT ![c].step = "ready", ![c].wait = generation]
        /\ Ready
        /\ UNCHANGED rows
     \/ /\ ~(cmd[c].existing /\ cmd[c].removed)
        /\ Goto(c, "done")
        /\ UNCHANGED <<rows, promise, warm>>
  /\ UNCHANGED <<servers, pool, generation, shared, history, restarts>>

\* An agent asks for the tools of the shared pool.
AskTools ==
  /\ shared /\ generation \notin promise
  /\ Ready
  /\ UNCHANGED <<rows, servers, pool, generation, cmd, shared, history, restarts>>

--------------------------------------------------------------------------------
\* closeMcpPool: McpPool.close, then the process forgets the pool.

Close ==
  /\ generation < MaxCloses
  /\ generation' = generation + 1
  /\ conn' = Closed({map[i] : i \in Ids})
  /\ map' = [i \in Ids |-> NoConn]
  /\ crossed' = Ids
  /\ UNCHANGED <<rows, servers, promise, warm, cmd, shared, refused, restarts>>

Forget ==
  /\ generation > 0 /\ shared
  /\ shared' = FALSE
  /\ UNCHANGED <<rows, servers, pool, generation, promise, warm, cmd, history, restarts>>

\* The process ends at any point, and its connections with it; the new one
\* makes a pool of the rows it finds.
Restart ==
  /\ restarts < MaxRestarts
  /\ restarts' = restarts + 1
  /\ servers' = rows
  /\ conn' = Closed(Conns)
  /\ map' = [i \in Ids |-> NoConn]
  /\ generation' = 0
  /\ promise' = IF rows = {} THEN {} ELSE {0}
  /\ warm' = [Cold EXCEPT ![0] = [i \in Ids |-> IF i \in rows THEN "connecting" ELSE "idle"]]
  /\ cmd' = [c \in Commands |-> IF UnderWay(c) THEN [NoCommand EXCEPT !.step = "done"] ELSE cmd[c]]
  /\ shared' = TRUE
  /\ crossed' = {}
  /\ refused' = {}
  /\ UNCHANGED rows

--------------------------------------------------------------------------------
CommandStep(c) ==
  \/ LookupToAdd(c) \/ AwaitReady(c) \/ AddConnect(c) \/ AddConnectFails(c)
  \/ InsertRow(c) \/ Rollback(c)
  \/ LookupToRemove(c) \/ TakeConnection(c) \/ DeleteRow(c)

Next ==
  \/ \E g \in Generations, i \in Ids :
       WarmConnect(g, i) \/ WarmFail(g, i) \/ WarmTimeout(g, i) \/ WarmLate(g, i)
  \/ \E c \in Commands, i \in Ids : StartAdd(c, i) \/ StartRemove(c, i)
  \/ \E c \in Commands : CommandStep(c)
  \/ AskTools \/ Close \/ Forget \/ Restart

Spec == Init /\ [][Next]_vars

\* Statements and timers come back; nothing is assumed of the servers.
FairSpec ==
  /\ Spec
  /\ \A g \in Generations, i \in Ids : WF_vars(WarmTimeout(g, i))
  /\ \A c \in Commands : WF_vars(CommandStep(c))

--------------------------------------------------------------------------------
\* Properties.

\* The types; and a generation connects a server at most once, however many
\* callers ready() has (mcp.ts:31).
TypeOK ==
  /\ rows \in SUBSET Ids
  /\ servers \in SUBSET Ids
  /\ conn \in [Conns -> ConnRows]
  /\ map \in [Ids -> Conns \cup {NoConn}]
  /\ generation \in Generations
  /\ promise \in SUBSET Generations
  /\ warm \in [Generations -> [Ids -> WarmSteps]]
  /\ cmd \in [Commands -> CommandRows]
  /\ shared \in BOOLEAN
  /\ crossed \in SUBSET Ids
  /\ refused \in SUBSET Ids
  /\ restarts \in 0..MaxRestarts
  /\ \A k \in Conns : conn[k].by = "warm" => warm[conn[k].made][conn[k].server] = "connected"

AtRest(i) == ~Warming(i) /\ \A c \in Commands : ~(UnderWay(c) /\ Id(c) = i)

\* Whatever failed on the way, commands that had a server for themselves leave
\* pool and table together: a connected server is saved, and a saved server is
\* connected unless the last attempt to connect it failed.  This is what the
\* two roll-backs (interactions.ts:243-260 and 395-412) are for.
PoolMatchesTable == \A i \in Ids : AtRest(i) /\ i \notin crossed =>
  /\ map[i] # NoConn => i \in rows
  /\ i \in rows => map[i] # NoConn \/ i \in refused

\* No connection is lost without being closed, as long as commands for one
\* server do not meet: an open connection is the one the pool holds.
NoConnectionLeaks == \A k \in Conns :
  IsOpen(k) /\ conn[k].server \notin crossed => map[conn[k].server] = k

\* The pool never holds a closed connection, nor one that was started before
\* the pool was closed (mcp.ts:88-91), in all interleavings.
PoolIsLive == \A i \in Ids : map[i] # NoConn =>
  /\ IsOpen(map[i]) /\ conn[map[i]].server = i
  /\ conn[map[i]].by = "warm" => conn[map[i]].made = generation

\* A command always returns, also when a server never answers: the warm-up it
\* waits for has a timeout of its own.
CommandsReturn == \A c \in Commands : UnderWay(c) ~> ~UnderWay(c)

================================================================================
