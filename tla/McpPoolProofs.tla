----------------------------- MODULE McpPoolProofs -----------------------------
(***************************************************************************)
(* Proofs about McpPool for any servers, connections, commands and bounds. *)
(***************************************************************************)
EXTENDS McpPool, TLAPS

--------------------------------------------------------------------------------
\* The inductive invariant.

Types ==
  /\ rows \in SUBSET Ids
  /\ servers \in SUBSET Ids
  /\ conn \in [Conns -> ConnRows]
  /\ map \in [Ids -> Conns \cup {NoConn}]
  /\ generation \in Generations
  /\ promise \in SUBSET Generations
  /\ warm \in [Generations -> [Ids -> WarmSteps]]
  /\ cmd \in [Commands -> CommandRows]
  /\ shared \in BOOLEAN
  /\ crossed \in SUBSET Ids
  /\ refused \in SUBSET Ids
  /\ restarts \in 0..MaxRestarts

\* Open connections and commands under way have a server.
Named ==
  /\ \A k \in Conns : IsOpen(k) => conn[k].server \in Ids
  /\ \A c \in Commands : UnderWay(c) => Id(c) \in Ids

\* connectAll was called at most once for a generation, and not before ready().
WarmedOnce ==
  /\ \A g \in Generations : g \notin promise => \A i \in Ids : warm[g][i] = "idle"
  /\ \A k \in Conns :
       conn[k].by = "warm" => warm[conn[k].made][conn[k].server] = "connected"

\* Why nobody overwrites a connection of a server whose commands do not meet:
\* there is one command, which waits for the warm-up that could connect it.
Undisturbed ==
  /\ \A c, o \in Commands :
       UnderWay(c) /\ UnderWay(o) /\ Id(c) = Id(o) /\ Id(c) \notin crossed => c = o
  /\ \A i \in Ids \ crossed :
       generation \notin promise \/ warm[generation][i] = "connecting" => map[i] = NoConn
  /\ \A c \in Commands : At(c, "ready") /\ Id(c) \notin crossed =>
       cmd[c].wait = generation /\ generation \in promise
  /\ \A c \in Commands : At(c, "connect") /\ Id(c) \notin crossed =>
       /\ map[Id(c)] = NoConn
       /\ generation \in promise /\ warm[generation][Id(c)] # "connecting"

IInv ==
  /\ Types
  /\ Named
  /\ WarmedOnce
  /\ PoolIsLive
  /\ Undisturbed
  /\ NoConnectionLeaks

LEMMA IInvTypeOK == IInv => TypeOK
BY DEF IInv, Types, WarmedOnce, TypeOK

--------------------------------------------------------------------------------
\* Values and updates.

LEMMA Constants ==
  /\ 0 \in Generations /\ Generations \subseteq Nat
  /\ NoConn \notin Conns
  /\ Unused \in ConnRows /\ Unused.by = "none"
  /\ NoCommand \in CommandRows /\ NoCommand.step = "none"
<1>1. 0 \in Generations /\ Generations \subseteq Nat
  BY Bounds DEF Generations
<1>2. QED
  BY <1>1, Numbered DEF NoConn, Unused, ConnRows, NoCommand, CommandRows, Kinds, Steps

LEMMA OpenedConns ==
  ASSUME conn \in [Conns -> ConnRows], NEW k \in Conns, NEW i \in Ids, NEW g \in Generations,
         NEW by \in {"warm", "command"}, NextConn(k), conn' = Opened(k, i, by, g)
  PROVE  /\ conn' \in [Conns -> ConnRows]
         /\ ~IsOpen(k)
         /\ conn'[k] = [server |-> i, by |-> by, made |-> g]
         /\ \A o \in Conns : o # k => conn'[o] = conn[o]
BY DEF Opened, NextConn, ConnRows

LEMMA GotoCommand ==
  ASSUME cmd \in [Commands -> CommandRows], NEW c \in Commands, NEW step \in Steps,
         Goto(c, step)
  PROVE  /\ cmd' \in [Commands -> CommandRows]
         /\ cmd'[c].step = step
         /\ step # "done" => cmd'[c].id = cmd[c].id /\ cmd'[c].wait = cmd[c].wait
                             /\ cmd'[c].kind = cmd[c].kind
         /\ \A o \in Commands : o # c => cmd'[o] = cmd[o]
<1>1. cmd[c] \in CommandRows
  OBVIOUS
<1>2. CASE step = "done"
  BY <1>1, <1>2, Constants DEF Goto, NoCommand, CommandRows, Steps
<1>3. CASE step # "done"
  BY <1>1, <1>3 DEF Goto, CommandRows
<1>4. QED
  BY <1>2, <1>3

\* A generation is started once: ready() leaves alone what was started.
LEMMA ReadyWarm ==
  ASSUME Types, WarmedOnce, Ready
  PROVE  /\ promise' \in SUBSET Generations /\ promise \subseteq promise'
         /\ generation \in promise'
         /\ warm' \in [Generations -> [Ids -> WarmSteps]]
         /\ \A g \in Generations, i \in Ids : warm[g][i] # "idle" => warm'[g][i] = warm[g][i]
         /\ \A g \in Generations : g \notin promise' => \A i \in Ids : warm'[g][i] = "idle"
         /\ generation \in promise => warm' = warm
         /\ \A i \in Ids : generation \notin promise =>
              warm'[generation][i] \in {"connecting", "idle"}
         /\ \A g \in Generations : g # generation => warm'[g] = warm[g]
<1>1. CASE generation \in promise
  BY <1>1 DEF Types, WarmedOnce, Ready
<1>2. CASE generation \notin promise
  <2> DEFINE new == [i \in Ids |-> IF i \in servers THEN "connecting" ELSE "idle"]
  <2>1. new \in [Ids -> WarmSteps] /\ \A i \in Ids : new[i] \in {"connecting", "idle"}
    BY DEF WarmSteps
  <2>2. warm' = [warm EXCEPT ![generation] = new] /\ promise' = promise \cup {generation}
    BY <1>2 DEF Ready, Started
  <2>3. \A i \in Ids : warm[generation][i] = "idle"
    BY <1>2 DEF Types, WarmedOnce
  <2> HIDE DEF new
  <2>4. QED
    BY <1>2, <2>1, <2>2, <2>3 DEF Types, WarmedOnce
<1>3. QED
  BY <1>1, <1>2

--------------------------------------------------------------------------------
\* The steps, one lemma for each kind.

\* The end of an attempt of connectAll that stores nothing.
LEMMA WarmStep ==
  ASSUME IInv, NEW g \in Generations, NEW i \in Ids, NEW step \in WarmSteps,
         warm[g][i] \in {"connecting", "late"}, step # "connecting",
         warm' = [warm EXCEPT ![g][i] = step],
         refused' \in SUBSET Ids,
         UNCHANGED <<rows, servers, pool, generation, promise, cmd, shared, crossed, restarts>>
  PROVE  IInv'
<1>1. UNCHANGED <<rows, servers, conn, map, generation, promise, cmd, shared, crossed, restarts>>
  BY DEF pool
<1>2. Types'
  BY <1>1 DEF IInv, Types
<1>3. \A h \in Generations, j \in Ids :
        warm'[h][j] = IF h = g /\ j = i THEN step ELSE warm[h][j]
  BY DEF IInv, Types
<1>4. Named' /\ PoolIsLive' /\ NoConnectionLeaks'
  BY <1>1 DEF IInv, Named, UnderWay, Id, PoolIsLive, NoConnectionLeaks, IsOpen
<1>5. WarmedOnce'
  <2>1. ASSUME NEW k \in Conns, conn[k].by = "warm"
        PROVE  warm'[conn[k].made][conn[k].server] = "connected"
    <3>1. conn[k].made \in Generations /\ conn[k].server \in Ids
      BY <2>1 DEF IInv, Types, ConnRows, Named, IsOpen
    <3>2. QED
      BY <1>3, <2>1, <3>1 DEF IInv, WarmedOnce
  <2>2. QED
    BY <1>1, <1>3, <2>1 DEF IInv, WarmedOnce
<1>6. Undisturbed'
  <2>1. \A j \in Ids : warm'[generation][j] = "connecting" => warm[generation][j] = "connecting"
    BY <1>3 DEF IInv, Types
  <2>2. \A c \in Commands : UnderWay(c) => Id(c) \in Ids
    BY DEF IInv, Named
  <2>3. \A c \in Commands : At(c, "connect") => UnderWay(c)
    BY DEF At, UnderWay
  <2>4. QED
    BY <1>1, <2>1, <2>2, <2>3 DEF IInv, Undisturbed, UnderWay, Id, At
<1>7. QED
  BY <1>2, <1>4, <1>5, <1>6 DEF IInv

LEMMA WarmConnectStep ==
  ASSUME IInv, NEW g \in Generations, NEW i \in Ids, WarmConnect(g, i)
  PROVE  IInv'
<1>1. /\ warm[g][i] = "connecting"
      /\ warm' = [warm EXCEPT ![g][i] = "connected"]
      /\ refused' \in SUBSET Ids
      /\ UNCHANGED <<rows, servers, generation, promise, cmd, shared, crossed, restarts>>
  BY DEF WarmConnect, IInv, Types
<1>2. CASE g # generation
  BY <1>1, <1>2, WarmStep DEF WarmConnect, WarmSteps
<1>3. CASE g = generation
  <2>1. PICK k \in Conns : /\ NextConn(k)
                           /\ conn' = Opened(k, i, "warm", g)
                           /\ map' = [map EXCEPT ![i] = k]
    BY <1>3 DEF WarmConnect
  <2>2. /\ conn' \in [Conns -> ConnRows]
        /\ ~IsOpen(k)
        /\ conn'[k] = [server |-> i, by |-> "warm", made |-> g]
        /\ \A o \in Conns : o # k => conn'[o] = conn[o]
    BY <2>1, OpenedConns DEF IInv, Types
  <2>3. \A h \in Generations, j \in Ids :
          warm'[h][j] = IF h = g /\ j = i THEN "connected" ELSE warm[h][j]
    BY <1>1 DEF IInv, Types
  <2>4. map'[i] = k /\ \A j \in Ids : j # i => map'[j] = map[j]
    BY <2>1 DEF IInv, Types
  <2>5. Types'
    BY <1>1, <2>1, <2>2 DEF IInv, Types, WarmSteps
  <2>6. Named'
    BY <1>1, <2>2 DEF IInv, Named, IsOpen, UnderWay, Id
  <2>7. WarmedOnce'
    <3>1. \A o \in Conns : conn[o].by = "warm" =>
            conn[o].made \in Generations /\ conn[o].server \in Ids
      BY DEF IInv, Types, ConnRows, Named, IsOpen
    <3>2. QED
      BY <1>1, <2>2, <2>3, <3>1 DEF IInv, WarmedOnce
  <2>8. PoolIsLive'
    <3>1. \A j \in Ids : j # i /\ map[j] # NoConn => map[j] # k /\ map[j] \in Conns
      BY <2>2 DEF IInv, PoolIsLive, Types
    <3>2. QED
      BY <1>1, <1>3, <2>2, <2>4, <3>1 DEF IInv, PoolIsLive, IsOpen
  <2>9. i \notin crossed => map[i] = NoConn
    BY <1>1, <1>3 DEF IInv, Undisturbed
  <2>10. NoConnectionLeaks'
    <3>1. ASSUME NEW o \in Conns, IsOpen(o)', conn'[o].server \notin crossed
          PROVE  map'[conn'[o].server] = o
      <4>1. CASE o = k
        BY <2>2, <2>4, <4>1
      <4>2. CASE o # k
        <5>1. conn'[o] = conn[o] /\ IsOpen(o) /\ map[conn[o].server] = o
          BY <2>2, <3>1, <4>2 DEF IInv, NoConnectionLeaks, IsOpen
        <5>2. conn[o].server \in Ids /\ conn[o].server # i
          BY <2>9, <3>1, <5>1, Constants DEF IInv, Named
        <5>3. QED
          BY <2>4, <5>1, <5>2
      <4>3. QED
        BY <4>1, <4>2
    <3>2. QED
      BY <1>1, <3>1 DEF NoConnectionLeaks
  <2>11. Undisturbed'
    <3>1. generation \in promise
      BY <1>1, <1>3 DEF IInv, WarmedOnce
    <3>2. \A c \in Commands : At(c, "connect") => Id(c) \in Ids
      BY DEF IInv, Named, UnderWay, At
    <3>3. \A j \in Ids : j # i => warm'[generation][j] = warm[generation][j]
      BY <1>3, <2>3
    <3>4. warm'[generation][i] = "connected"
      BY <1>3, <2>3
    <3>5. \A c \in Commands : At(c, "connect") /\ Id(c) \notin crossed => Id(c) # i
      BY <1>1, <1>3 DEF IInv, Undisturbed
    <3>6. QED
      BY <1>1, <2>4, <3>1, <3>2, <3>3, <3>4, <3>5 DEF IInv, Undisturbed, UnderWay, At, Id
  <2>12. QED
    BY <2>5, <2>6, <2>7, <2>8, <2>10, <2>11 DEF IInv
<1>4. QED
  BY <1>2, <1>3

LEMMA StartStep ==
  ASSUME IInv, NEW c \in Commands, NEW i \in Ids, NEW kind \in Kinds, Start(c, kind, i)
  PROVE  IInv'
<1> DEFINE row == [NoCommand EXCEPT !.kind = kind, !.id = i, !.step = "lookup"]
<1>1. /\ At(c, "none") /\ cmd' = [cmd EXCEPT ![c] = row]
      /\ crossed' = IF Warming(i) \/ \E o \in Commands : UnderWay(o) /\ Id(o) = i
                    THEN crossed \cup {i} ELSE crossed
      /\ UNCHANGED <<rows, servers, conn, map, generation, promise, warm, shared, refused, restarts>>
  BY DEF Start, pool
<1>2. row \in CommandRows /\ row.step = "lookup" /\ row.id = i
  BY Constants DEF NoCommand, CommandRows, Kinds, Steps
<1> HIDE DEF row
<1>3. cmd'[c] = row /\ \A o \in Commands : o # c => cmd'[o] = cmd[o]
  BY <1>1 DEF IInv, Types
<1>4. Types' /\ crossed \subseteq crossed'
  BY <1>1, <1>2 DEF IInv, Types
<1>5. WarmedOnce' /\ PoolIsLive'
  BY <1>1 DEF IInv, WarmedOnce, PoolIsLive, IsOpen
<1>6. NoConnectionLeaks'
  BY <1>1, <1>4 DEF IInv, NoConnectionLeaks, IsOpen
<1>7. Named'
  BY <1>1, <1>2, <1>3 DEF IInv, Named, IsOpen, UnderWay, Id
<1>8. Undisturbed'
  <2>1. \A o, q \in Commands :
          UnderWay(o)' /\ UnderWay(q)' /\ Id(o)' = Id(q)' /\ Id(o)' \notin crossed' => o = q
    <3>1. \A o \in Commands : o # c /\ UnderWay(o)' /\ Id(o)' = i => i \in crossed'
      BY <1>1, <1>3 DEF UnderWay, Id
    <3>2. QED
      BY <1>2, <1>3, <1>4, <3>1 DEF IInv, Undisturbed, UnderWay, Id
  <2>2. \A j \in Ids \ crossed' :
          generation \notin promise \/ warm[generation][j] = "connecting" => map[j] = NoConn
    BY <1>4 DEF IInv, Undisturbed
  <2>3. \A o \in Commands : /\ ~At(c, "ready")' /\ ~At(c, "connect")'
                            /\ o # c => (At(o, "ready")' <=> At(o, "ready"))
                            /\ o # c => (At(o, "connect")' <=> At(o, "connect"))
    BY <1>2, <1>3 DEF At
  <2>4. QED
    BY <1>1, <1>3, <1>4, <2>1, <2>2, <2>3 DEF IInv, Undisturbed, Id
<1>9. QED
  BY <1>4, <1>5, <1>6, <1>7, <1>8 DEF IInv

\* ready() may be called: what was started stays as it is.
LEMMA ReadyKeeps ==
  ASSUME IInv, Ready \/ UNCHANGED <<promise, warm>>,
         UNCHANGED <<conn, map, generation, crossed>>
  PROVE  /\ promise' \in SUBSET Generations
         /\ warm' \in [Generations -> [Ids -> WarmSteps]]
         /\ WarmedOnce' /\ PoolIsLive' /\ NoConnectionLeaks'
         /\ generation \in promise => generation \in promise' /\ UNCHANGED warm
         /\ \A i \in Ids \ crossed :
              generation \notin promise' \/ warm'[generation][i] = "connecting" => map[i] = NoConn
<1>1. Types /\ WarmedOnce
  BY DEF IInv
<1>2. PoolIsLive' /\ NoConnectionLeaks'
  BY DEF IInv, PoolIsLive, NoConnectionLeaks, IsOpen
<1>3. CASE UNCHANGED <<promise, warm>>
  BY <1>1, <1>2, <1>3 DEF IInv, Types, WarmedOnce, Undisturbed
<1>4. CASE Ready
  <2>1. /\ promise' \in SUBSET Generations /\ generation \in promise'
        /\ warm' \in [Generations -> [Ids -> WarmSteps]]
        /\ \A g \in Generations, i \in Ids : warm[g][i] # "idle" => warm'[g][i] = warm[g][i]
        /\ \A g \in Generations : g \notin promise' => \A i \in Ids : warm'[g][i] = "idle"
        /\ generation \in promise => warm' = warm
    BY <1>1, <1>4, ReadyWarm
  <2>2. \A k \in Conns : conn[k].by = "warm" => conn[k].made \in Generations /\ conn[k].server \in Ids
    BY DEF IInv, Types, ConnRows, Named, IsOpen
  <2>3. WarmedOnce'
    BY <2>1, <2>2 DEF IInv, WarmedOnce
  <2>4. \A i \in Ids \ crossed :
          generation \notin promise' \/ warm'[generation][i] = "connecting" => map[i] = NoConn
    BY <2>1 DEF IInv, Undisturbed
  <2>5. QED
    BY <1>2, <2>1, <2>3, <2>4
<1>5. QED
  BY <1>3, <1>4

LEMMA AskToolsStep ==
  ASSUME IInv, AskTools
  PROVE  IInv'
<1>1. /\ Ready
      /\ UNCHANGED <<rows, servers, conn, map, generation, cmd, shared, crossed, refused, restarts>>
  BY DEF AskTools, pool, history
<1>2. /\ promise' \in SUBSET Generations
      /\ warm' \in [Generations -> [Ids -> WarmSteps]]
      /\ WarmedOnce' /\ PoolIsLive' /\ NoConnectionLeaks'
      /\ generation \in promise => generation \in promise' /\ UNCHANGED warm
      /\ \A i \in Ids \ crossed :
           generation \notin promise' \/ warm'[generation][i] = "connecting" => map[i] = NoConn
  BY <1>1, ReadyKeeps
<1>3. Types' /\ Named'
  BY <1>1, <1>2 DEF IInv, Types, Named, IsOpen, UnderWay, Id
<1>4. Undisturbed'
  BY <1>1, <1>2 DEF IInv, Undisturbed, UnderWay, Id, At
<1>5. QED
  BY <1>2, <1>3, <1>4 DEF IInv

\* A command moves on and leaves the pool alone, but for ready().
LEMMA CommandMoves ==
  ASSUME IInv, NEW c \in Commands, UnderWay(c),
         cmd' \in [Commands -> CommandRows],
         \A o \in Commands : o # c => cmd'[o] = cmd[o],
         cmd'[c].step = "done" \/ Id(c)' = Id(c),
         Ready \/ UNCHANGED <<promise, warm>>,
         At(c, "ready")' => cmd'[c].wait = generation /\ generation \in promise',
         At(c, "connect")' /\ Id(c) \notin crossed =>
           /\ map[Id(c)] = NoConn
           /\ generation \in promise /\ warm[generation][Id(c)] # "connecting",
         rows' \in SUBSET Ids, refused' \in SUBSET Ids,
         UNCHANGED <<servers, conn, map, generation, shared, crossed, restarts>>
  PROVE  IInv'
<1>1. /\ promise' \in SUBSET Generations
      /\ warm' \in [Generations -> [Ids -> WarmSteps]]
      /\ WarmedOnce' /\ PoolIsLive' /\ NoConnectionLeaks'
      /\ generation \in promise => generation \in promise' /\ UNCHANGED warm
      /\ \A i \in Ids \ crossed :
           generation \notin promise' \/ warm'[generation][i] = "connecting" => map[i] = NoConn
  BY ReadyKeeps
<1>2. Types'
  BY <1>1 DEF IInv, Types
<1>3. \A o \in Commands : UnderWay(o)' => UnderWay(o) /\ Id(o)' = Id(o)
  BY DEF UnderWay, Id
<1>4. Named'
  BY <1>3 DEF IInv, Named, IsOpen, Id
<1>5. Undisturbed'
  <2>1. \A o, q \in Commands :
          UnderWay(o)' /\ UnderWay(q)' /\ Id(o)' = Id(q)' /\ Id(o)' \notin crossed' => o = q
    BY <1>3 DEF IInv, Undisturbed, Id
  <2>2. ASSUME NEW o \in Commands, At(o, "ready")', Id(o)' \notin crossed'
        PROVE  cmd'[o].wait = generation' /\ generation' \in promise'
    BY <1>1, <2>2 DEF IInv, Undisturbed, At, Id
  <2>3. ASSUME NEW o \in Commands, At(o, "connect")', Id(o)' \notin crossed'
        PROVE  /\ map'[Id(o)'] = NoConn
               /\ generation' \in promise' /\ warm'[generation'][Id(o)'] # "connecting"
    <3>1. UnderWay(o)'
      BY <2>3 DEF At, UnderWay
    <3>2. Id(o)' = Id(o) /\ Id(o) \notin crossed
      BY <1>3, <2>3, <3>1
    <3>3. map[Id(o)] = NoConn /\ generation \in promise /\ warm[generation][Id(o)] # "connecting"
      <4>1. CASE o = c
        BY <2>3, <3>2, <4>1
      <4>2. CASE o # c
        BY <2>3, <3>2, <4>2 DEF IInv, Undisturbed, At
      <4>3. QED
        BY <4>1, <4>2
    <3>4. QED
      BY <1>1, <3>2, <3>3
  <2>4. QED
    BY <1>1, <2>1, <2>2, <2>3 DEF Undisturbed
<1>6. QED
  BY <1>1, <1>2, <1>4, <1>5 DEF IInv

LEMMA LookupStep ==
  ASSUME IInv, NEW c \in Commands, LookupToAdd(c) \/ LookupToRemove(c)
  PROVE  IInv'
<1>1. cmd[c] \in CommandRows /\ cmd \in [Commands -> CommandRows] /\ generation \in Generations
  BY DEF IInv, Types
<1>2. UnderWay(c)
  BY DEF LookupToAdd, LookupToRemove, At, UnderWay
<1>3. rows' \in SUBSET Ids /\ refused' \in SUBSET Ids
  BY DEF IInv, Types, LookupToAdd, LookupToRemove, history
<1>4. UNCHANGED <<servers, conn, map, generation, shared, crossed, restarts>>
  BY DEF LookupToAdd, LookupToRemove, pool, history
<1>5. CASE LookupToAdd(c) /\ Id(c) \in rows
  <2>1. Goto(c, "done") /\ UNCHANGED <<promise, warm>>
    BY <1>5 DEF LookupToAdd
  <2>2. /\ cmd' \in [Commands -> CommandRows] /\ cmd'[c].step = "done"
        /\ \A o \in Commands : o # c => cmd'[o] = cmd[o]
    BY <1>1, <2>1, GotoCommand DEF Steps
  <2>3. QED
    BY <1>2, <1>3, <1>4, <2>1, <2>2, CommandMoves DEF At
<1>6. CASE LookupToAdd(c) /\ Id(c) \notin rows
  <2> DEFINE row == [cmd[c] EXCEPT !.step = "ready", !.wait = generation]
  <2>1. /\ Ready /\ cmd' = [cmd EXCEPT ![c] = row]
    BY <1>1, <1>6 DEF LookupToAdd
  <2>2. row \in CommandRows /\ row.step = "ready" /\ row.wait = generation /\ row.id = Id(c)
    BY <1>1 DEF CommandRows, Steps, Id
  <2> HIDE DEF row
  <2>3. /\ cmd' \in [Commands -> CommandRows] /\ cmd'[c] = row
        /\ \A o \in Commands : o # c => cmd'[o] = cmd[o]
    BY <1>1, <2>1, <2>2
  <2>4. Id(c)' = Id(c) /\ At(c, "ready")' /\ ~At(c, "connect")' /\ cmd'[c].wait = generation
    BY <2>2, <2>3 DEF Id, At
  <2>5. generation \in promise'
    BY <2>1 DEF Ready
  <2>6. QED
    BY <1>2, <1>3, <1>4, <2>1, <2>3, <2>4, <2>5, CommandMoves
<1>7. CASE LookupToRemove(c)
  <2> DEFINE row == [cmd[c] EXCEPT !.step = "take", !.existing = Id(c) \in rows]
  <2>1. cmd' = [cmd EXCEPT ![c] = row] /\ UNCHANGED <<promise, warm>>
    BY <1>1, <1>7 DEF LookupToRemove
  <2>2. (Id(c) \in rows) \in BOOLEAN
    OBVIOUS
  <2>3. row \in CommandRows /\ row.step = "take" /\ row.id = Id(c)
    BY <1>1, <2>2 DEF CommandRows, Steps, Id
  <2> HIDE DEF row
  <2>4. /\ cmd' \in [Commands -> CommandRows] /\ cmd'[c] = row
        /\ \A o \in Commands : o # c => cmd'[o] = cmd[o]
    BY <1>1, <2>1, <2>3
  <2>5. Id(c)' = Id(c) /\ ~At(c, "ready")' /\ ~At(c, "connect")'
    BY <2>3, <2>4 DEF Id, At
  <2>6. QED
    BY <1>2, <1>3, <1>4, <2>1, <2>4, <2>5, CommandMoves
<1>8. QED
  BY <1>5, <1>6, <1>7

LEMMA AwaitReadyStep ==
  ASSUME IInv, NEW c \in Commands, AwaitReady(c)
  PROVE  IInv'
<1> DEFINE step == IF map[Id(c)] # NoConn THEN "done" ELSE "connect"
<1>1. /\ At(c, "ready") /\ Settled(cmd[c].wait) /\ Goto(c, step)
      /\ UNCHANGED <<rows, servers, conn, map, generation, promise, warm, shared, crossed, refused, restarts>>
  BY DEF AwaitReady, pool, history
<1>2. UnderWay(c) /\ Id(c) \in Ids
  BY <1>1 DEF IInv, Named, At, UnderWay
<1>3. step \in Steps /\ step # "ready" /\ step # "none"
  BY DEF Steps
<1>4. /\ cmd' \in [Commands -> CommandRows] /\ cmd'[c].step = step
      /\ step # "done" => cmd'[c].id = cmd[c].id
      /\ \A o \in Commands : o # c => cmd'[o] = cmd[o]
  <2> HIDE DEF step
  <2>1. QED
    BY <1>1, <1>3, GotoCommand DEF IInv, Types
<1>5. ASSUME At(c, "connect")', Id(c) \notin crossed
      PROVE  /\ map[Id(c)] = NoConn
             /\ generation \in promise /\ warm[generation][Id(c)] # "connecting"
  <2>1. map[Id(c)] = NoConn
    BY <1>4, <1>5 DEF At
  <2>2. cmd[c].wait = generation /\ generation \in promise
    BY <1>1, <1>5 DEF IInv, Undisturbed
  <2>3. QED
    BY <1>1, <1>2, <2>1, <2>2 DEF Settled
<1>6. rows' \in SUBSET Ids /\ refused' \in SUBSET Ids
  BY <1>1 DEF IInv, Types
<1>7. cmd'[c].step = "done" \/ Id(c)' = Id(c)
  BY <1>4 DEF Id
<1>8. ~At(c, "ready")'
  BY <1>3, <1>4 DEF At
<1> HIDE DEF step
<1>9. QED
  BY <1>1, <1>2, <1>4, <1>5, <1>6, <1>7, <1>8, CommandMoves

LEMMA EndStep ==
  ASSUME IInv, NEW c \in Commands, AddConnectFails(c) \/ InsertRow(c)
  PROVE  IInv'
<1>1. PICK step \in {"done", "rollback"} : Goto(c, step)
  BY DEF AddConnectFails, InsertRow
<1>2. /\ UnderWay(c) /\ Id(c) \in Ids
      /\ UNCHANGED <<servers, conn, map, generation, promise, warm, shared, crossed, restarts>>
  BY DEF AddConnectFails, InsertRow, pool, history, IInv, Named, At, UnderWay
<1>3. rows' \in SUBSET Ids /\ refused' \in SUBSET Ids
  BY <1>2 DEF AddConnectFails, InsertRow, history, IInv, Types
<1>4. /\ cmd' \in [Commands -> CommandRows] /\ cmd'[c].step = step
      /\ step # "done" => cmd'[c].id = cmd[c].id
      /\ \A o \in Commands : o # c => cmd'[o] = cmd[o]
  BY <1>1, GotoCommand DEF IInv, Types, Steps
<1>5. /\ cmd'[c].step = "done" \/ Id(c)' = Id(c)
      /\ ~At(c, "ready")' /\ ~At(c, "connect")'
  BY <1>4 DEF Id, At
<1>6. QED
  BY <1>2, <1>3, <1>4, <1>5, CommandMoves

LEMMA DeleteRowStep ==
  ASSUME IInv, NEW c \in Commands, DeleteRow(c)
  PROVE  IInv'
<1>1. /\ UnderWay(c) /\ Id(c) \in Ids
      /\ UNCHANGED <<servers, conn, map, generation, shared, crossed, refused, restarts>>
      /\ rows' \in SUBSET Ids /\ refused' \in SUBSET Ids
  BY DEF DeleteRow, pool, history, IInv, Types, Named, At, UnderWay
<1>2. cmd \in [Commands -> CommandRows] /\ cmd[c] \in CommandRows /\ generation \in Generations
  BY DEF IInv, Types
<1>3. CASE Goto(c, "done") /\ UNCHANGED <<promise, warm>>
  <2>1. /\ cmd' \in [Commands -> CommandRows] /\ cmd'[c].step = "done"
        /\ \A o \in Commands : o # c => cmd'[o] = cmd[o]
    BY <1>2, <1>3, GotoCommand DEF Steps
  <2>2. QED
    BY <1>1, <1>3, <2>1, CommandMoves DEF At
<1>4. CASE Ready /\ cmd' = [cmd EXCEPT ![c].step = "ready", ![c].wait = generation]
  <2> DEFINE row == [cmd[c] EXCEPT !.step = "ready", !.wait = generation]
  <2>1. cmd' = [cmd EXCEPT ![c] = row]
    BY <1>2, <1>4
  <2>2. row \in CommandRows /\ row.step = "ready" /\ row.wait = generation /\ row.id = Id(c)
    BY <1>2 DEF CommandRows, Steps, Id
  <2> HIDE DEF row
  <2>3. /\ cmd' \in [Commands -> CommandRows] /\ cmd'[c] = row
        /\ \A o \in Commands : o # c => cmd'[o] = cmd[o]
    BY <1>2, <2>1, <2>2
  <2>4. Id(c)' = Id(c) /\ At(c, "ready")' /\ ~At(c, "connect")' /\ cmd'[c].wait = generation
    BY <2>2, <2>3 DEF Id, At
  <2>5. generation \in promise'
    BY <1>4 DEF Ready
  <2>6. QED
    BY <1>1, <1>4, <2>3, <2>4, <2>5, CommandMoves
<1>5. QED
  BY <1>3, <1>4 DEF DeleteRow

LEMMA AddConnectStep ==
  ASSUME IInv, NEW c \in Commands, AddConnect(c)
  PROVE  IInv'
<1> DEFINE i == Id(c)
           step == IF cmd[c].kind = "add" THEN "insert" ELSE "done"
<1>1. /\ At(c, "connect") /\ Goto(c, step)
      /\ refused' \in SUBSET Ids
      /\ UNCHANGED <<rows, servers, generation, promise, warm, shared, crossed, restarts>>
  BY DEF AddConnect, IInv, Types
<1>2. UnderWay(c) /\ i \in Ids
  BY <1>1 DEF IInv, Named, At, UnderWay
<1>3. PICK k \in Conns : /\ NextConn(k)
                         /\ conn' = Opened(k, i, "command", generation)
                         /\ map' = [map EXCEPT ![i] = k]
  BY DEF AddConnect
<1>4. /\ cmd' \in [Commands -> CommandRows] /\ cmd'[c].step = step
      /\ step # "done" => cmd'[c].id = cmd[c].id
      /\ \A o \in Commands : o # c => cmd'[o] = cmd[o]
  <2>1. step \in Steps
    BY DEF Steps
  <2> HIDE DEF step
  <2>2. QED
    BY <1>1, <2>1, GotoCommand DEF IInv, Types
<1>5. \A o \in Commands : UnderWay(o)' => UnderWay(o) /\ Id(o)' = Id(o)
  BY <1>2, <1>4 DEF UnderWay, Id
<1>6. ~At(c, "ready")' /\ ~At(c, "connect")'
  BY <1>4 DEF At
<1> HIDE DEF i, step
<1>7. /\ conn' \in [Conns -> ConnRows]
      /\ ~IsOpen(k)
      /\ conn'[k] = [server |-> i, by |-> "command", made |-> generation]
      /\ \A o \in Conns : o # k => conn'[o] = conn[o]
  BY <1>2, <1>3, OpenedConns DEF IInv, Types
<1>8. map'[i] = k /\ \A j \in Ids : j # i => map'[j] = map[j]
  BY <1>2, <1>3 DEF IInv, Types
<1>9. Types'
  BY <1>1, <1>2, <1>3, <1>4, <1>7 DEF IInv, Types
<1>10. Named'
  BY <1>2, <1>5, <1>7 DEF IInv, Named, IsOpen
<1>11. WarmedOnce'
  BY <1>1, <1>7 DEF IInv, WarmedOnce
<1>12. PoolIsLive'
  <2>1. \A j \in Ids : j # i /\ map[j] # NoConn => map[j] # k /\ map[j] \in Conns
    BY <1>7 DEF IInv, PoolIsLive, Types
  <2>2. QED
    BY <1>1, <1>7, <1>8, <2>1 DEF IInv, PoolIsLive, IsOpen
<1>13. i \notin crossed => /\ map[i] = NoConn
                           /\ generation \in promise /\ warm[generation][i] # "connecting"
  BY <1>1 DEF IInv, Undisturbed, i
<1>14. NoConnectionLeaks'
  <2>1. ASSUME NEW o \in Conns, IsOpen(o)', conn'[o].server \notin crossed
        PROVE  map'[conn'[o].server] = o
    <3>1. CASE o = k
      BY <1>7, <1>8, <3>1
    <3>2. CASE o # k
      <4>1. conn'[o] = conn[o] /\ IsOpen(o) /\ map[conn[o].server] = o
        BY <1>7, <2>1, <3>2 DEF IInv, NoConnectionLeaks, IsOpen
      <4>2. conn[o].server \in Ids /\ conn[o].server # i
        BY <1>13, <2>1, <4>1, Constants DEF IInv, Named
      <4>3. QED
        BY <1>8, <4>1, <4>2
    <3>3. QED
      BY <3>1, <3>2
  <2>2. QED
    BY <1>1, <2>1 DEF NoConnectionLeaks
<1>15. Undisturbed'
  <2>1. \A o, q \in Commands :
          UnderWay(o)' /\ UnderWay(q)' /\ Id(o)' = Id(q)' /\ Id(o)' \notin crossed' => o = q
    BY <1>1, <1>5 DEF IInv, Undisturbed, Id
  <2>2. \A j \in Ids \ crossed :
          generation \notin promise \/ warm[generation][j] = "connecting" => map'[j] = NoConn
    BY <1>8, <1>13 DEF IInv, Undisturbed
  <2>3. ASSUME NEW o \in Commands, o # c, At(o, "connect"), Id(o) \notin crossed
        PROVE  map'[Id(o)] = NoConn
    <3>1. UnderWay(o) /\ Id(o) \in Ids
      BY <2>3 DEF IInv, Named, At, UnderWay
    <3>2. Id(o) # i
      BY <1>2, <2>3, <3>1 DEF IInv, Undisturbed, i
    <3>3. QED
      BY <1>8, <2>3, <3>1, <3>2 DEF IInv, Undisturbed
  <2>4. \A o \in Commands : o # c => cmd'[o] = cmd[o]
    BY <1>4
  <2>5. QED
    BY <1>1, <1>6, <2>1, <2>2, <2>3, <2>4 DEF IInv, Undisturbed, At, Id
<1>16. QED
  BY <1>9, <1>10, <1>11, <1>12, <1>14, <1>15 DEF IInv

\* A connection is taken out of the pool and closed.
LEMMA RemoveStep ==
  ASSUME IInv, NEW c \in Commands, Rollback(c) \/ TakeConnection(c)
  PROVE  IInv'
<1> DEFINE i == Id(c)
<1>1. /\ At(c, "rollback") \/ At(c, "take")
      /\ conn' = Closed({map[i]}) /\ map' = [map EXCEPT ![i] = NoConn]
      /\ UNCHANGED <<rows, servers, generation, promise, warm, shared, crossed, refused, restarts>>
  BY DEF Rollback, TakeConnection, history
<1>2. UnderWay(c) /\ i \in Ids
  BY <1>1 DEF IInv, Named, At, UnderWay
<1>3. /\ cmd' \in [Commands -> CommandRows]
      /\ cmd'[c].step = "done" \/ (cmd'[c].step = "delete" /\ cmd'[c].id = cmd[c].id)
      /\ \A o \in Commands : o # c => cmd'[o] = cmd[o]
  <2>1. cmd \in [Commands -> CommandRows] /\ cmd[c] \in CommandRows
    BY DEF IInv, Types
  <2>2. CASE Goto(c, "done")
    <3>1. "done" \in Steps
      BY DEF Steps
    <3>2. QED
      BY <2>1, <2>2, <3>1, GotoCommand
  <2>3. CASE cmd' = [cmd EXCEPT ![c].step = "delete", ![c].removed = map[Id(c)] # NoConn]
    <3> DEFINE row == [cmd[c] EXCEPT !.step = "delete", !.removed = map[Id(c)] # NoConn]
    <3>1. cmd' = [cmd EXCEPT ![c] = row]
      BY <2>1, <2>3
    <3>2. (map[Id(c)] # NoConn) \in BOOLEAN
      OBVIOUS
    <3>3. row \in CommandRows /\ row.step = "delete" /\ row.id = cmd[c].id
      BY <2>1, <3>2 DEF CommandRows, Steps
    <3> HIDE DEF row
    <3>4. QED
      BY <2>1, <3>1, <3>3
  <2>4. QED
    BY <2>2, <2>3 DEF Rollback, TakeConnection
<1>4. \A o \in Commands : UnderWay(o)' => UnderWay(o) /\ Id(o)' = Id(o)
  BY <1>2, <1>3 DEF UnderWay, Id
<1> HIDE DEF i
<1>5. /\ conn' \in [Conns -> ConnRows]
      /\ \A k \in Conns : conn'[k] = IF k = map[i] THEN Unused ELSE conn[k]
  BY <1>1, Constants DEF Closed, IInv, Types
<1>6. map'[i] = NoConn /\ \A j \in Ids : j # i => map'[j] = map[j]
  BY <1>1, <1>2 DEF IInv, Types
<1>7. Types'
  BY <1>1, <1>2, <1>3, <1>5 DEF IInv, Types
<1>8. \A k \in Conns : IsOpen(k)' => k # map[i] /\ conn'[k] = conn[k] /\ IsOpen(k)
  BY <1>5, Constants DEF IsOpen
<1>9. Named'
  BY <1>4, <1>8 DEF IInv, Named
<1>10. WarmedOnce'
  BY <1>1, <1>5, Constants DEF IInv, WarmedOnce
<1>11. PoolIsLive'
  <2>1. \A j \in Ids : j # i /\ map[j] # NoConn => map[j] # map[i] /\ map[j] \in Conns
    BY <1>2 DEF IInv, PoolIsLive, Types
  <2>2. ASSUME NEW j \in Ids, map'[j] # NoConn
        PROVE  map'[j] = map[j] /\ map[j] # NoConn /\ conn'[map[j]] = conn[map[j]]
    BY <1>5, <1>6, <2>1, <2>2
  <2>3. UNCHANGED generation
    BY <1>1
  <2>4. QED
    BY <2>2, <2>3 DEF IInv, PoolIsLive, IsOpen
<1>12. NoConnectionLeaks'
  <2>1. ASSUME NEW k \in Conns, IsOpen(k)', conn'[k].server \notin crossed
        PROVE  map'[conn'[k].server] = k
    <3>1. k # map[i] /\ conn'[k] = conn[k] /\ IsOpen(k)
      BY <1>8, <2>1
    <3>2. conn[k].server \in Ids /\ map[conn[k].server] = k
      BY <2>1, <3>1 DEF IInv, Named, NoConnectionLeaks
    <3>3. QED
      BY <1>6, <3>1, <3>2
  <2>2. QED
    BY <1>1, <2>1 DEF NoConnectionLeaks
<1>13. Undisturbed'
  <2>1. \A o, q \in Commands :
          UnderWay(o)' /\ UnderWay(q)' /\ Id(o)' = Id(q)' /\ Id(o)' \notin crossed' => o = q
    BY <1>1, <1>4 DEF IInv, Undisturbed
  <2>2. \A j \in Ids \ crossed :
          generation \notin promise \/ warm[generation][j] = "connecting" => map'[j] = NoConn
    BY <1>6 DEF IInv, Undisturbed
  <2>3. \A o \in Commands : At(o, "ready")' \/ At(o, "connect")' =>
          /\ o # c /\ cmd'[o] = cmd[o] /\ Id(o) \in Ids
    BY <1>3, <1>4 DEF IInv, Named, At, UnderWay
  <2>4. \A j \in Ids : map[j] = NoConn => map'[j] = NoConn
    BY <1>6
  <2>5. QED
    BY <1>1, <2>1, <2>2, <2>3, <2>4 DEF IInv, Undisturbed, At, Id
<1>14. QED
  BY <1>7, <1>9, <1>10, <1>11, <1>12, <1>13 DEF IInv

LEMMA CloseStep ==
  ASSUME IInv, Close
  PROVE  IInv'
<1>1. /\ generation' = generation + 1 /\ generation < MaxCloses
      /\ conn' = Closed({map[i] : i \in Ids}) /\ map' = [i \in Ids |-> NoConn]
      /\ crossed' = Ids
      /\ UNCHANGED <<rows, servers, promise, warm, cmd, shared, refused, restarts>>
  BY DEF Close
<1>2. generation' \in Generations
  BY <1>1, Bounds DEF IInv, Types, Generations
<1>3. conn' \in [Conns -> ConnRows] /\ \A k \in Conns : IsOpen(k)' => conn'[k] = conn[k] /\ IsOpen(k)
  BY <1>1, Constants DEF IInv, Types, Closed, IsOpen
<1>4. Types'
  BY <1>1, <1>2, <1>3 DEF IInv, Types
<1>5. Named'
  BY <1>1, <1>3 DEF IInv, Named, UnderWay, Id
<1>6. WarmedOnce'
  BY <1>1, <1>3, Constants DEF IInv, WarmedOnce, IsOpen
<1>7. PoolIsLive'
  BY <1>1 DEF PoolIsLive
<1>8. NoConnectionLeaks'
  BY <1>1, <1>3 DEF IInv, Named, NoConnectionLeaks
<1>9. Undisturbed'
  BY <1>1 DEF IInv, Named, Undisturbed, UnderWay, Id, At
<1>10. QED
  BY <1>4, <1>5, <1>6, <1>7, <1>8, <1>9 DEF IInv

LEMMA ForgetStep ==
  ASSUME IInv, Forget \/ UNCHANGED vars
  PROVE  IInv'
<1>1. /\ UNCHANGED <<rows, servers, conn, map, generation, promise, warm, cmd, crossed, refused, restarts>>
      /\ shared' \in BOOLEAN
  BY DEF Forget, vars, pool, history, IInv, Types
<1>2. Types' /\ Named'
  BY <1>1 DEF IInv, Types, Named, IsOpen, UnderWay, Id
<1>3. WarmedOnce' /\ PoolIsLive' /\ NoConnectionLeaks'
  BY <1>1 DEF IInv, WarmedOnce, PoolIsLive, NoConnectionLeaks, IsOpen
<1>4. Undisturbed'
  BY <1>1 DEF IInv, Undisturbed, UnderWay, Id, At
<1>5. QED
  BY <1>2, <1>3, <1>4 DEF IInv

\* No connection, no command, and every server at its first attempt.
Fresh ==
  /\ rows \in SUBSET Ids /\ servers = rows
  /\ conn = [k \in Conns |-> Unused]
  /\ map = [i \in Ids |-> NoConn]
  /\ generation = 0
  /\ promise = IF rows = {} THEN {} ELSE {0}
  /\ warm = [Cold EXCEPT ![0] = [i \in Ids |-> IF i \in rows THEN "connecting" ELSE "idle"]]
  /\ cmd \in [Commands -> CommandRows] /\ \A c \in Commands : ~UnderWay(c)
  /\ shared = TRUE /\ crossed = {} /\ refused = {}
  /\ restarts \in 0..MaxRestarts

LEMMA FreshInv ==
  ASSUME Fresh
  PROVE  IInv
<1>1. /\ warm \in [Generations -> [Ids -> WarmSteps]]
      /\ \A i \in Ids : warm[0][i] = IF i \in rows THEN "connecting" ELSE "idle"
      /\ \A g \in Generations, i \in Ids : g # 0 => warm[g][i] = "idle"
  BY Constants DEF Fresh, Cold, WarmSteps
<1>2. Types
  BY <1>1, Constants DEF Fresh, Types
<1>3. Named /\ PoolIsLive /\ NoConnectionLeaks
  BY Constants DEF Fresh, Named, PoolIsLive, NoConnectionLeaks, IsOpen
<1>4. WarmedOnce
  BY <1>1, Constants DEF Fresh, WarmedOnce
<1>5. Undisturbed
  BY DEF Fresh, Undisturbed, UnderWay, At
<1>6. QED
  BY <1>2, <1>3, <1>4, <1>5 DEF IInv

LEMMA InitFresh == Init => Fresh
<1> SUFFICES ASSUME Init PROVE Fresh
  OBVIOUS
<1>1. restarts \in 0..MaxRestarts
  BY Bounds DEF Init
<1>2. cmd \in [Commands -> CommandRows] /\ \A c \in Commands : ~UnderWay(c)
  BY Constants DEF Init, UnderWay
<1>3. QED
  BY <1>1, <1>2 DEF Init, Fresh

LEMMA InitInv == Init => IInv
BY InitFresh, FreshInv

LEMMA RestartFresh ==
  ASSUME IInv, Restart
  PROVE  Fresh'
<1>1. restarts' \in 0..MaxRestarts
  BY Bounds DEF Restart, IInv, Types
<1>2. cmd' \in [Commands -> CommandRows] /\ \A c \in Commands : ~UnderWay(c)'
  <2>1. [NoCommand EXCEPT !.step = "done"] \in CommandRows
    BY Constants DEF CommandRows, Steps
  <2>2. [NoCommand EXCEPT !.step = "done"].step = "done"
    BY DEF NoCommand
  <2>3. QED
    BY <2>1, <2>2 DEF Restart, IInv, Types, UnderWay
<1>3. conn' = [k \in Conns |-> Unused]
  BY DEF Restart, Closed
<1>4. QED
  BY <1>1, <1>2, <1>3 DEF Restart, Fresh, IInv, Types, Cold

LEMMA RestartStep ==
  ASSUME IInv, Restart
  PROVE  IInv'
<1>1. IInv'
  BY RestartFresh, FreshInv, PTL
<1>2. QED
  BY <1>1

--------------------------------------------------------------------------------
LEMMA NextInv ==
  ASSUME IInv, Next
  PROVE  IInv'
<1>1. CASE \E g \in Generations, i \in Ids :
             WarmConnect(g, i) \/ WarmFail(g, i) \/ WarmTimeout(g, i) \/ WarmLate(g, i)
  <2> PICK g \in Generations, i \in Ids :
             WarmConnect(g, i) \/ WarmFail(g, i) \/ WarmTimeout(g, i) \/ WarmLate(g, i)
    BY <1>1
  <2>1. CASE WarmConnect(g, i)
    BY <2>1, WarmConnectStep
  <2>2. CASE WarmFail(g, i) \/ WarmTimeout(g, i) \/ WarmLate(g, i)
    <3>1. PICK step \in {"failed", "late"} : warm' = [warm EXCEPT ![g][i] = step]
      BY <2>2 DEF WarmFail, WarmTimeout, WarmLate
    <3>2. /\ warm[g][i] \in {"connecting", "late"} /\ refused' \in SUBSET Ids
          /\ UNCHANGED <<rows, servers, pool, generation, promise, cmd, shared, crossed, restarts>>
      BY <2>2 DEF WarmFail, WarmTimeout, WarmLate, history, IInv, Types
    <3>3. QED
      BY <3>1, <3>2, WarmStep DEF WarmSteps
  <2>3. QED
    BY <2>1, <2>2
<1>2. CASE \E c \in Commands, i \in Ids : StartAdd(c, i) \/ StartRemove(c, i)
  BY <1>2, StartStep DEF StartAdd, StartRemove, Kinds
<1>3. CASE \E c \in Commands : CommandStep(c)
  BY <1>3, LookupStep, AwaitReadyStep, AddConnectStep, EndStep, RemoveStep, DeleteRowStep
     DEF CommandStep
<1>4. CASE AskTools \/ Close \/ Forget \/ Restart
  BY <1>4, AskToolsStep, CloseStep, ForgetStep, RestartStep
<1>5. QED
  BY <1>1, <1>2, <1>3, <1>4 DEF Next

LEMMA Invariant == Spec => []IInv
<1>1. IInv /\ [Next]_vars => IInv'
  BY NextInv, ForgetStep
<1>2. QED
  BY InitInv, <1>1, PTL DEF Spec

--------------------------------------------------------------------------------
\* The pool and the table, on top of the invariant above.

Matched(i) ==
  /\ map[i] # NoConn => i \in rows
  /\ i \in rows => map[i] # NoConn \/ i \in refused

Working(c, i) == UnderWay(c) /\ Id(c) = i

\* What a command that has server i for itself knows at its awaits.
Fits(c, i) ==
  /\ At(c, "lookup") \/ At(c, "take") => Matched(i)
  /\ At(c, "take") \/ At(c, "delete") =>
       cmd[c].kind # "add" /\ (cmd[c].existing <=> i \in rows)
  /\ At(c, "ready") \/ At(c, "connect") =>
       map[i] = NoConn /\ (i \in rows <=> cmd[c].kind # "add")
  /\ At(c, "insert") => map[i] # NoConn /\ i \notin rows
  /\ At(c, "rollback") => i \notin rows
  /\ At(c, "delete") => map[i] = NoConn /\ (i \in rows => cmd[c].removed \/ i \in refused)

\* A server that nobody disturbs is in its first generation; what connectAll
\* has not settled has a row and no command; pool and table differ only under
\* a command, and then as its step says.
TogetherAt(i) ==
  /\ generation = 0
  /\ 0 \in promise \/ i \notin servers
  /\ \A g \in Generations : warm[g][i] \in {"connecting", "late"} =>
       /\ g = 0 /\ i \in rows /\ \A c \in Commands : ~Working(c, i)
       /\ warm[g][i] = "late" => i \in refused
  /\ \/ Matched(i)
     \/ warm[0][i] = "connecting"
     \/ \E c \in Commands : Working(c, i)
  /\ \A c \in Commands : Working(c, i) => Fits(c, i)

Together == \A i \in Ids \ crossed : TogetherAt(i)

\* A step that does nothing to server i.
LEMMA OtherServer ==
  ASSUME Types, NEW i \in Ids, TogetherAt(i),
         UNCHANGED <<generation, servers>>, 0 \in promise => 0 \in promise',
         \A g \in Generations : warm'[g][i] = warm[g][i],
         map'[i] = map[i], i \in rows' <=> i \in rows, i \in refused => i \in refused',
         \A c \in Commands : Working(c, i) \/ Working(c, i)' => cmd'[c] = cmd[c]
  PROVE  TogetherAt(i)'
<1>1. \A c \in Commands : Working(c, i)' <=> Working(c, i)
  BY DEF Working, UnderWay, Id
<1>2. Matched(i) => Matched(i)'
  BY DEF Matched
<1>3. ASSUME NEW c \in Commands, Working(c, i)
      PROVE  Fits(c, i)'
  <2>1. cmd'[c] = cmd[c] /\ Fits(c, i)
    BY <1>3 DEF TogetherAt
  <2>2. QED
    BY <1>2, <2>1 DEF Fits, At
<1>4. QED
  BY <1>1, <1>2, <1>3, Constants DEF TogetherAt

\* A step of the one command that works on server i.
LEMMA CommandOf ==
  ASSUME IInv, NEW i \in Ids, i \notin crossed, TogetherAt(i),
         NEW c \in Commands, Working(c, i),
         \A o \in Commands : o # c => cmd'[o] = cmd[o],
         IF UnderWay(c)' THEN Id(c)' = i /\ Fits(c, i)' ELSE Matched(i)',
         Ready \/ UNCHANGED <<promise, warm>>,
         UNCHANGED <<generation, servers>>
  PROVE  TogetherAt(i)'
<1>1. \A o \in Commands : Working(o, i) => o = c
  BY DEF Working, IInv, Undisturbed
<1>2. \A o \in Commands : Working(o, i)' => o = c
  BY <1>1 DEF Working, UnderWay, Id
<1>3. UnderWay(c)' => Working(c, i)' /\ Fits(c, i)'
  BY DEF Working
<1>4. generation = 0 /\ \A g \in Generations : warm[g][i] \notin {"connecting", "late"}
  BY DEF TogetherAt
<1>5. /\ 0 \in promise' \/ i \notin servers
      /\ \A g \in Generations : warm'[g][i] \notin {"connecting", "late"}
  <2>1. CASE UNCHANGED <<promise, warm>> \/ generation \in promise
    BY <1>4, <2>1 DEF Ready, TogetherAt
  <2>2. CASE Ready /\ generation \notin promise
    <3>1. i \notin servers
      BY <1>4, <2>2 DEF TogetherAt
    <3>2. warm' = [warm EXCEPT ![generation] =
                     [j \in Ids |-> IF j \in servers THEN "connecting" ELSE "idle"]]
      BY <2>2 DEF Ready, Started
    <3>3. \A g \in Generations : warm'[g][i] = IF g = generation THEN "idle" ELSE warm[g][i]
      BY <3>1, <3>2 DEF IInv, Types
    <3>4. QED
      BY <1>4, <3>1, <3>3
  <2>3. QED
    BY <2>1, <2>2
<1>6. \A o \in Commands : Working(o, i)' => Fits(o, i)'
  BY <1>2, <1>3 DEF Working
<1>7. Matched(i)' \/ \E o \in Commands : Working(o, i)'
  BY <1>3
<1>8. QED
  BY <1>4, <1>5, <1>6, <1>7 DEF TogetherAt

LEMMA TogetherWarm ==
  ASSUME IInv, Together, NEW g \in Generations, NEW i \in Ids,
         WarmConnect(g, i) \/ WarmFail(g, i) \/ WarmTimeout(g, i) \/ WarmLate(g, i)
  PROVE  Together'
<1>1. PICK step \in {"connected", "failed", "late"} : warm' = [warm EXCEPT ![g][i] = step]
  BY DEF WarmConnect, WarmFail, WarmTimeout, WarmLate
<1>2. \A h \in Generations, j \in Ids :
        warm'[h][j] = IF h = g /\ j = i THEN step ELSE warm[h][j]
  BY <1>1 DEF IInv, Types
<1>3. UNCHANGED <<rows, servers, generation, promise, cmd, crossed>>
  BY DEF WarmConnect, WarmFail, WarmTimeout, WarmLate, history
<1>4. \A j \in Ids : j # i => map'[j] = map[j] /\ (j \in refused' <=> j \in refused)
  BY DEF WarmConnect, WarmFail, WarmTimeout, WarmLate, pool, history, IInv, Types
<1>5. /\ warm[g][i] \in {"connecting", "late"}
      /\ step = "connected" => warm[g][i] = "connecting"
      /\ warm[g][i] = "late" => step = "failed" /\ refused' = refused
      /\ step # "connected" => i \in refused' \/ warm[g][i] = "late"
      /\ step = "connected" => g # generation \/ map'[i] # NoConn
  <2>1. CASE WarmConnect(g, i)
    <3>1. /\ warm[g][i] = "connecting" /\ warm'[g][i] = "connected"
          /\ g # generation \/ \E k \in Conns : map' = [map EXCEPT ![i] = k]
      BY <2>1 DEF WarmConnect, IInv, Types
    <3>2. g # generation \/ map'[i] # NoConn
      BY <3>1, Constants DEF IInv, Types
    <3>3. step = "connected"
      BY <1>2, <3>1
    <3>4. QED
      BY <3>1, <3>2, <3>3
  <2>2. CASE WarmFail(g, i) \/ WarmTimeout(g, i)
    <3>1. /\ warm[g][i] = "connecting" /\ i \in refused'
          /\ warm'[g][i] \in {"failed", "late"}
      BY <2>2 DEF WarmFail, WarmTimeout, IInv, Types
    <3>2. QED
      BY <1>2, <3>1
  <2>3. CASE WarmLate(g, i)
    <3>1. /\ warm[g][i] = "late" /\ refused' = refused /\ warm'[g][i] = "failed"
      BY <2>3 DEF WarmLate, history, IInv, Types
    <3>2. QED
      BY <1>2, <3>1
  <2>4. QED
    BY <2>1, <2>2, <2>3
<1>6. ASSUME NEW j \in Ids \ crossed
      PROVE  TogetherAt(j)'
  <2>1. TogetherAt(j) /\ j \in Ids
    BY <1>6 DEF Together
  <2>2. \A c \in Commands : Working(c, j)' <=> Working(c, j)
    BY <1>3 DEF Working, UnderWay, Id
  <2>3. CASE j # i
    <3>1. \A h \in Generations : warm'[h][j] = warm[h][j]
      BY <1>2, <2>1, <2>3
    <3>2. QED
      BY <1>3, <1>4, <2>1, <2>3, <3>1, OtherServer DEF IInv
  <2>4. CASE j = i
    <3>1. /\ i \in rows /\ \A c \in Commands : ~Working(c, i)
          /\ generation = 0 /\ (0 \in promise \/ i \notin servers)
          /\ g = 0 /\ (warm[g][i] = "late" => i \in refused)
      BY <1>5, <2>1, <2>4 DEF TogetherAt
    <3>2. map'[i] # NoConn \/ i \in refused'
      BY <1>5, <3>1
    <3>3. Matched(i)'
      BY <1>3, <3>1, <3>2 DEF Matched
    <3>4. \A h \in Generations : h # g => warm'[h][i] \notin {"connecting", "late"}
      BY <1>2, <2>1, <2>4, <3>1 DEF TogetherAt
    <3>5. warm'[g][i] \in {"connecting", "late"} => warm'[g][i] = "late" /\ i \in refused'
      BY <1>2, <1>5
    <3>6. QED
      BY <1>3, <2>2, <2>4, <3>1, <3>3, <3>4, <3>5 DEF TogetherAt
  <2>5. QED
    BY <2>3, <2>4
<1>7. QED
  BY <1>3, <1>6 DEF Together

LEMMA TogetherStart ==
  ASSUME IInv, Together, NEW c \in Commands, NEW i \in Ids, NEW kind \in Kinds,
         Start(c, kind, i)
  PROVE  Together'
<1> DEFINE row == [NoCommand EXCEPT !.kind = kind, !.id = i, !.step = "lookup"]
<1>1. /\ At(c, "none") /\ cmd' = [cmd EXCEPT ![c] = row]
      /\ crossed' = IF Warming(i) \/ \E o \in Commands : UnderWay(o) /\ Id(o) = i
                    THEN crossed \cup {i} ELSE crossed
      /\ UNCHANGED <<rows, servers, map, generation, promise, warm, refused>>
  BY DEF Start, pool
<1>2. row.step = "lookup" /\ row.id = i
  BY DEF NoCommand
<1> HIDE DEF row
<1>3. cmd'[c] = row /\ \A o \in Commands : o # c => cmd'[o] = cmd[o]
  BY <1>1 DEF IInv, Types
<1>4. ~UnderWay(c) /\ Id(c)' = i
  BY <1>1, <1>2, <1>3 DEF At, UnderWay, Id
<1>5. ASSUME NEW j \in Ids, j \notin crossed'
      PROVE  TogetherAt(j)'
  <2>1. TogetherAt(j)
    BY <1>1, <1>5 DEF Together
  <2>2. CASE j # i
    <3>1. \A o \in Commands : Working(o, j) \/ Working(o, j)' => cmd'[o] = cmd[o]
      BY <1>3, <1>4, <2>2 DEF Working
    <3>2. QED
      BY <1>1, <2>1, <3>1, OtherServer DEF IInv
  <2>3. CASE j = i
    <3>1. ~Warming(i) /\ \A o \in Commands : ~Working(o, i)
      BY <1>1, <1>5, <2>3 DEF Working
    <3>2. \A g \in Generations : warm[g][i] \notin {"connecting", "late"}
      BY <3>1 DEF Warming
    <3>3. Matched(i)
      BY <2>1, <2>3, <3>1, <3>2, Constants DEF TogetherAt
    <3>4. Matched(i)'
      BY <1>1, <3>3 DEF Matched
    <3>5. \A o \in Commands : Working(o, i)' => o = c
      BY <1>3, <3>1 DEF Working, UnderWay, Id
    <3>6. Fits(c, i)'
      BY <1>2, <1>3, <3>4 DEF Fits, At
    <3>7. QED
      BY <1>1, <2>1, <2>3, <3>2, <3>4, <3>5, <3>6 DEF TogetherAt
  <2>4. QED
    BY <2>2, <2>3
<1>6. QED
  BY <1>5 DEF Together

\* What one statement of a command does for its server.
LEMMA CommandFits ==
  ASSUME IInv, NEW c \in Commands, NEW i \in Ids, Working(c, i), TogetherAt(i),
         CommandStep(c)
  PROVE  IF UnderWay(c)' THEN Id(c)' = i /\ Fits(c, i)' ELSE Matched(i)'
<1>1. Fits(c, i) /\ UnderWay(c) /\ Id(c) = i
  BY DEF TogetherAt, Working
<1>2. cmd[c] \in CommandRows /\ cmd \in [Commands -> CommandRows]
      /\ map \in [Ids -> Conns \cup {NoConn}] /\ refused \in SUBSET Ids
  BY DEF IInv, Types
<1>3. Goto(c, "done") => ~UnderWay(c)'
  BY <1>2, GotoCommand DEF UnderWay, Steps
<1>4. CASE LookupToAdd(c)
  <2>1. At(c, "lookup") /\ cmd[c].kind = "add" /\ UNCHANGED <<rows, map, refused>>
    BY <1>4 DEF LookupToAdd, pool, history
  <2>2. Matched(i) /\ Matched(i)'
    BY <1>1, <2>1 DEF Fits, Matched
  <2>3. CASE i \in rows
    BY <1>1, <1>3, <1>4, <2>2, <2>3 DEF LookupToAdd
  <2>4. CASE i \notin rows
    <3>1. cmd' = [cmd EXCEPT ![c] = [cmd[c] EXCEPT !.step = "ready", !.wait = generation]]
      BY <1>1, <1>2, <1>4, <2>4 DEF LookupToAdd
    <3>2. cmd'[c].step = "ready" /\ cmd'[c].kind = "add" /\ cmd'[c].id = i
      BY <1>1, <1>2, <2>1, <3>1 DEF CommandRows, Id
    <3>3. map'[i] = NoConn /\ i \notin rows'
      BY <2>1, <2>2, <2>4 DEF Matched
    <3>4. QED
      BY <3>2, <3>3 DEF UnderWay, Id, Fits, At
  <2>5. QED
    BY <2>3, <2>4
<1>5. CASE LookupToRemove(c)
  <2>1. At(c, "lookup") /\ cmd[c].kind = "remove" /\ UNCHANGED <<rows, map, refused>>
    BY <1>5 DEF LookupToRemove, pool, history
  <2>2. Matched(i)'
    BY <1>1, <2>1 DEF Fits, Matched
  <2>3. /\ cmd' = [cmd EXCEPT ![c] = [cmd[c] EXCEPT !.step = "take", !.existing = i \in rows]]
    BY <1>1, <1>2, <1>5 DEF LookupToRemove
  <2>4. cmd'[c].step = "take" /\ cmd'[c].existing = (i \in rows)
        /\ cmd'[c].kind = cmd[c].kind /\ cmd'[c].id = i
    BY <1>1, <1>2, <2>3 DEF CommandRows, Id
  <2>5. QED
    BY <2>1, <2>2, <2>4 DEF UnderWay, Id, Fits, At
<1>6. CASE AwaitReady(c)
  <2>1. At(c, "ready") /\ UNCHANGED <<rows, map, refused>>
    BY <1>6 DEF AwaitReady, pool, history
  <2>2. map[i] = NoConn /\ (i \in rows <=> cmd[c].kind # "add")
    BY <1>1, <2>1 DEF Fits
  <2>3. Goto(c, "connect")
    BY <1>1, <1>6, <2>2 DEF AwaitReady
  <2>4. cmd'[c].step = "connect" /\ cmd'[c].kind = cmd[c].kind /\ cmd'[c].id = i
    BY <1>1, <1>2, <2>3, GotoCommand DEF Steps, Id
  <2>5. QED
    BY <2>1, <2>2, <2>4 DEF UnderWay, Id, Fits, At
<1>7. CASE AddConnect(c)
  <2>1. At(c, "connect") /\ rows' = rows
    BY <1>7 DEF AddConnect
  <2>2. map[i] = NoConn /\ (i \in rows <=> cmd[c].kind # "add")
    BY <1>1, <2>1 DEF Fits
  <2>3. map'[i] # NoConn
    BY <1>1, <1>2, <1>7, Constants DEF AddConnect
  <2>4. CASE cmd[c].kind = "add"
    <3>1. Goto(c, "insert")
      BY <1>7, <2>4 DEF AddConnect
    <3>2. cmd'[c].step = "insert" /\ cmd'[c].id = i
      BY <1>1, <1>2, <3>1, GotoCommand DEF Steps, Id
    <3>3. QED
      BY <2>1, <2>2, <2>3, <2>4, <3>2 DEF UnderWay, Id, Fits, At
  <2>5. CASE cmd[c].kind # "add"
    <3>1. Matched(i)'
      BY <2>1, <2>2, <2>3, <2>5 DEF Matched
    <3>2. QED
      BY <1>3, <1>7, <2>5, <3>1 DEF AddConnect
  <2>6. QED
    BY <2>4, <2>5
<1>8. CASE AddConnectFails(c)
  <2>1. At(c, "connect") /\ UNCHANGED <<rows, map>> /\ i \in refused'
    BY <1>1, <1>2, <1>8 DEF AddConnectFails, pool
  <2>2. Matched(i)'
    BY <1>1, <2>1 DEF Fits, Matched
  <2>3. QED
    BY <1>1, <1>3, <1>8, <2>2 DEF AddConnectFails
<1>9. CASE InsertRow(c)
  <2>1. At(c, "insert") /\ UNCHANGED <<map, refused>>
    BY <1>9 DEF InsertRow, pool, history
  <2>2. map[i] # NoConn /\ i \notin rows
    BY <1>1, <2>1 DEF Fits
  <2>3. CASE rows' = rows \cup {i} /\ Goto(c, "done")
    BY <1>3, <2>1, <2>2, <2>3 DEF Matched
  <2>4. CASE rows' = rows /\ Goto(c, "rollback")
    <3>1. cmd'[c].step = "rollback" /\ cmd'[c].id = i
      BY <1>1, <1>2, <2>4, GotoCommand DEF Steps, Id
    <3>2. QED
      BY <2>2, <2>4, <3>1 DEF UnderWay, Id, Fits, At
  <2>5. QED
    BY <1>1, <1>9, <2>3, <2>4 DEF InsertRow
<1>10. CASE Rollback(c)
  <2>1. At(c, "rollback") /\ rows' = rows /\ map'[i] = NoConn
    BY <1>1, <1>2, <1>10 DEF Rollback
  <2>2. Matched(i)'
    BY <1>1, <2>1 DEF Fits, Matched
  <2>3. QED
    BY <1>3, <1>10, <2>2 DEF Rollback
<1>11. CASE TakeConnection(c)
  <2>1. At(c, "take") /\ UNCHANGED <<rows, refused>> /\ map'[i] = NoConn
    BY <1>1, <1>2, <1>11 DEF TakeConnection, history
  <2>2. Matched(i) /\ cmd[c].kind # "add" /\ (cmd[c].existing <=> i \in rows)
    BY <1>1, <2>1 DEF Fits
  <2>3. CASE cmd[c].existing \/ map[i] # NoConn
    <3> DEFINE taken == map[i] # NoConn
    <3>1. cmd' = [cmd EXCEPT ![c] = [cmd[c] EXCEPT !.step = "delete", !.removed = taken]]
      BY <1>1, <1>2, <1>11, <2>3 DEF TakeConnection
    <3>2. cmd'[c].step = "delete" /\ cmd'[c].removed = taken
          /\ cmd'[c].existing = cmd[c].existing /\ cmd'[c].kind = cmd[c].kind /\ cmd'[c].id = i
      BY <1>1, <1>2, <3>1 DEF CommandRows, Id
    <3>3. QED
      BY <2>1, <2>2, <3>2 DEF UnderWay, Id, Fits, At, Matched
  <2>4. CASE ~(cmd[c].existing \/ map[i] # NoConn)
    <3>1. Matched(i)'
      BY <2>1, <2>2, <2>4 DEF Matched
    <3>2. QED
      BY <1>1, <1>3, <1>11, <2>4, <3>1 DEF TakeConnection
  <2>5. QED
    BY <2>3, <2>4
<1>12. CASE DeleteRow(c)
  <2>1. At(c, "delete") /\ UNCHANGED <<map, refused>>
    BY <1>12 DEF DeleteRow, pool, history
  <2>2. /\ map[i] = NoConn /\ cmd[c].kind # "add" /\ (cmd[c].existing <=> i \in rows)
        /\ i \in rows => cmd[c].removed \/ i \in refused
    BY <1>1, <2>1 DEF Fits
  <2>3. CASE rows' = rows \ {i} /\ Goto(c, "done")
    BY <1>3, <2>1, <2>2, <2>3 DEF Matched
  <2>4. CASE /\ cmd[c].existing /\ rows' = rows
             /\ cmd' = [cmd EXCEPT ![c].step = "ready", ![c].wait = generation]
    <3>1. cmd' = [cmd EXCEPT ![c] = [cmd[c] EXCEPT !.step = "ready", !.wait = generation]]
      BY <1>2, <2>4
    <3>2. cmd'[c].step = "ready" /\ cmd'[c].kind = cmd[c].kind /\ cmd'[c].id = i
      BY <1>1, <1>2, <3>1 DEF CommandRows, Id
    <3>3. QED
      BY <2>1, <2>2, <2>4, <3>2 DEF UnderWay, Id, Fits, At
  <2>5. CASE ~(cmd[c].existing /\ cmd[c].removed) /\ rows' = rows /\ Goto(c, "done")
    BY <1>3, <2>1, <2>2, <2>5 DEF Matched
  <2>6. QED
    BY <1>1, <1>12, <2>3, <2>4, <2>5 DEF DeleteRow
<1>13. QED
  BY <1>4, <1>5, <1>6, <1>7, <1>8, <1>9, <1>10, <1>11, <1>12 DEF CommandStep

\* ready() starts nothing for a server of whom the first connectAll is over, or
\* that came after it.
LEMMA IdleReady ==
  ASSUME Types, WarmedOnce, NEW i \in Ids, TogetherAt(i),
         Ready \/ UNCHANGED <<promise, warm>>
  PROVE  /\ 0 \in promise => 0 \in promise'
         /\ \A g \in Generations : warm'[g][i] = warm[g][i]
<1>1. CASE UNCHANGED <<promise, warm>> \/ generation \in promise
  BY <1>1 DEF Ready
<1>2. CASE Ready /\ generation \notin promise
  <2>1. i \notin servers /\ generation \in Generations
    BY <1>2 DEF TogetherAt, Types
  <2>2. /\ promise' = promise \cup {generation}
        /\ warm' = [warm EXCEPT ![generation] =
                      [j \in Ids |-> IF j \in servers THEN "connecting" ELSE "idle"]]
    BY <1>2 DEF Ready, Started
  <2>3. \A g \in Generations : warm'[g][i] = IF g = generation THEN "idle" ELSE warm[g][i]
    BY <2>1, <2>2 DEF Types
  <2>4. warm[generation][i] = "idle"
    BY <1>2, <2>1 DEF WarmedOnce
  <2>5. QED
    BY <2>2, <2>3, <2>4
<1>3. QED
  BY <1>1, <1>2

LEMMA TogetherCommand ==
  ASSUME IInv, Together, NEW c \in Commands, CommandStep(c)
  PROVE  Together'
<1>1. UnderWay(c) /\ UNCHANGED <<generation, servers, crossed>>
  BY DEF CommandStep, LookupToAdd, AwaitReady, AddConnect, AddConnectFails, InsertRow,
         Rollback, LookupToRemove, TakeConnection, DeleteRow, history, At, UnderWay
<1>2. Ready \/ UNCHANGED <<promise, warm>>
  BY DEF CommandStep, LookupToAdd, AwaitReady, AddConnect, AddConnectFails, InsertRow,
         Rollback, LookupToRemove, TakeConnection, DeleteRow
<1>3. \A o \in Commands : o # c => cmd'[o] = cmd[o]
  BY DEF CommandStep, LookupToAdd, AwaitReady, AddConnect, AddConnectFails, InsertRow,
         Rollback, LookupToRemove, TakeConnection, DeleteRow, Goto, IInv, Types
<1>4. \A j \in Ids : j # Id(c) =>
        map'[j] = map[j] /\ (j \in rows' <=> j \in rows) /\ (j \in refused => j \in refused')
  BY DEF CommandStep, LookupToAdd, AwaitReady, AddConnect, AddConnectFails, InsertRow,
         Rollback, LookupToRemove, TakeConnection, DeleteRow, pool, history, IInv, Types
<1>5. UnderWay(c)' => Id(c)' = Id(c)
  <2>1. cmd \in [Commands -> CommandRows] /\ cmd[c] \in CommandRows
    BY DEF IInv, Types
  <2>2. CASE \E step \in Steps : Goto(c, step)
    BY <2>1, <2>2, GotoCommand DEF UnderWay, Id
  <2>3. CASE LookupToAdd(c) \/ LookupToRemove(c)
    BY <2>1, <2>2, <2>3 DEF LookupToAdd, LookupToRemove, Id, CommandRows, Steps
  <2>4. CASE TakeConnection(c) \/ DeleteRow(c)
    BY <2>1, <2>2, <2>4 DEF TakeConnection, DeleteRow, Id, CommandRows, Steps
  <2>5. QED
    BY <2>2, <2>3, <2>4 DEF CommandStep, AwaitReady, AddConnect, AddConnectFails, InsertRow,
       Rollback, Steps
<1>6. ASSUME NEW j \in Ids, j \notin crossed
      PROVE  TogetherAt(j)'
  <2>1. TogetherAt(j)
    BY <1>6 DEF Together
  <2>2. CASE j # Id(c)
    <3>1. \A o \in Commands : Working(o, j) \/ Working(o, j)' => cmd'[o] = cmd[o]
      BY <1>3, <1>5, <2>2 DEF Working
    <3>2. (0 \in promise => 0 \in promise') /\ \A g \in Generations : warm'[g][j] = warm[g][j]
      BY <1>2, <1>6, <2>1, IdleReady DEF IInv
    <3>3. QED
      BY <1>1, <1>4, <2>1, <2>2, <3>1, <3>2, OtherServer DEF IInv
  <2>3. CASE j = Id(c)
    <3>1. IF UnderWay(c)' THEN Id(c)' = j /\ Fits(c, j)' ELSE Matched(j)'
      BY <1>1, <1>6, <2>1, <2>3, CommandFits DEF Working
    <3>2. QED
      BY <1>1, <1>2, <1>3, <1>6, <2>1, <2>3, <3>1, CommandOf DEF Working
  <2>4. QED
    BY <2>2, <2>3
<1>7. QED
  BY <1>1, <1>6 DEF Together

LEMMA TogetherFresh ==
  ASSUME Fresh
  PROVE  Together
<1>1. /\ \A i \in Ids : warm[0][i] = IF i \in rows THEN "connecting" ELSE "idle"
      /\ \A g \in Generations, i \in Ids : g # 0 => warm[g][i] = "idle"
  BY Constants DEF Fresh, Cold
<1>2. \A c \in Commands, i \in Ids : ~Working(c, i)
  BY DEF Fresh, Working
<1>3. ASSUME NEW i \in Ids
      PROVE  TogetherAt(i)
  <2>1. Matched(i) \/ warm[0][i] = "connecting"
    BY <1>1 DEF Fresh, Matched
  <2>2. \A g \in Generations : warm[g][i] \in {"connecting", "late"} =>
          g = 0 /\ i \in rows /\ warm[g][i] = "connecting"
    BY <1>1, Constants
  <2>3. generation = 0 /\ (0 \in promise \/ i \notin servers)
    BY DEF Fresh
  <2>4. QED
    BY <1>2, <2>1, <2>2, <2>3 DEF TogetherAt
<1>4. QED
  BY <1>3 DEF Together

LEMMA TogetherNext ==
  ASSUME IInv, Together, [Next]_vars
  PROVE  Together'
<1>1. CASE \E g \in Generations, i \in Ids :
             WarmConnect(g, i) \/ WarmFail(g, i) \/ WarmTimeout(g, i) \/ WarmLate(g, i)
  BY <1>1, TogetherWarm
<1>2. CASE \E c \in Commands, i \in Ids : StartAdd(c, i) \/ StartRemove(c, i)
  BY <1>2, TogetherStart DEF StartAdd, StartRemove, Kinds
<1>3. CASE \E c \in Commands : CommandStep(c)
  BY <1>3, TogetherCommand
<1>4. CASE AskTools \/ Forget \/ UNCHANGED vars
  <2>1. UNCHANGED <<rows, servers, map, generation, cmd, crossed, refused>>
    BY <1>4 DEF AskTools, Forget, vars, pool, history
  <2>2. Ready \/ UNCHANGED <<promise, warm>>
    BY <1>4 DEF AskTools, Forget, vars
  <2>3. ASSUME NEW i \in Ids \ crossed
        PROVE  TogetherAt(i)'
    <3>1. TogetherAt(i) /\ i \in Ids
      BY <2>3 DEF Together
    <3>2. (0 \in promise => 0 \in promise') /\ \A g \in Generations : warm'[g][i] = warm[g][i]
      BY <2>2, <3>1, IdleReady DEF IInv
    <3>3. QED
      BY <2>1, <3>1, <3>2, OtherServer DEF IInv
  <2>4. QED
    BY <2>1, <2>3 DEF Together
<1>5. CASE Close
  BY <1>5 DEF Close, Together
<1>6. CASE Restart
  BY <1>6, RestartFresh, TogetherFresh, PTL
<1>7. QED
  BY <1>1, <1>2, <1>3, <1>4, <1>5, <1>6 DEF Next

--------------------------------------------------------------------------------
\* The state has its types, and connectAll runs at most once for a generation
\* (flue/mcp.ts:31-36), for any number of servers, commands and closings.
THEOREM TypeCorrect == Spec => []TypeOK
BY Invariant, IInvTypeOK, PTL

\* In every interleaving of the warm-up, the commands, closings and restarts
\* the pool holds open connections to the right server, none of them older than
\* the last closing (flue/mcp.ts:81-122).
THEOREM PoolStaysLive == Spec => []PoolIsLive
<1>1. IInv => PoolIsLive
  BY DEF IInv
<1>2. QED
  BY <1>1, Invariant, PTL

\* The connection of a server whose commands do not meet is never overwritten,
\* although addServer stores it without a test (flue/mcp.ts:51-62).
THEOREM NoLeaks == Spec => []NoConnectionLeaks
<1>1. IInv => NoConnectionLeaks
  BY DEF IInv
<1>2. QED
  BY <1>1, Invariant, PTL

\* What the two roll-backs of the commands are for (mcp/interactions.ts:243-260
\* and 395-412): when nothing is under way for a server that nobody disturbed,
\* it is in the pool only if it is in the table, and in the pool if it is in
\* the table unless its last attempt to connect failed.
THEOREM PoolFollowsTable == Spec => []PoolMatchesTable
<1>1. Init => Together
  BY InitFresh, TogetherFresh
<1>2. IInv /\ Together /\ [Next]_vars => Together'
  BY TogetherNext
<1>3. IInv /\ Together => PoolMatchesTable
  <2> SUFFICES ASSUME Together, NEW i \in Ids, AtRest(i), i \notin crossed
               PROVE  Matched(i)
    BY DEF PoolMatchesTable, Matched
  <2>1. TogetherAt(i) /\ warm[0][i] # "connecting" /\ \A c \in Commands : ~Working(c, i)
    BY Constants DEF Together, AtRest, Warming, Working
  <2>2. QED
    BY <2>1 DEF TogetherAt
<1>4. QED
  BY <1>1, <1>2, <1>3, Invariant, PTL DEF Spec

================================================================================
