---------------------------- MODULE GlobalProofs ----------------------------
(***************************************************************************)
(* What holds of the connection to the API for any players, maps, codes and *)
(* number of reconnections, and with the network's thread between any two   *)
(* steps of a handler: the types, one hello a connection, whom the API      *)
(* knows once nothing is on its way, and the map the service knows on its   *)
(* first connection.                                                        *)
(***************************************************************************)
EXTENDS GlobalService, TLAPS

\* Messages other than the hello are events, and have its shape in no field.
LEMMA Kinds ==
  ASSUME NEW msg \in Message
  PROVE  /\ msg.kind # "hello" => msg \in Event
         /\ msg \in Event => msg.kind # "hello"
         /\ msg.kind = "hello" => msg.map \in Maps \cup {None} /\ msg.players \subseteq Players
         /\ msg.kind \in {"join", "leave", "pbs"} => msg.player \in Players
         /\ msg.kind = "map" => msg.map \in Maps
         /\ msg.kind = "record" => msg.record \in Records
  <1>1. CASE msg \in Hello
    BY <1>1 DEF Hello, Event
  <1>2. CASE msg \in Event
    BY <1>2 DEF Hello, Event
  <1> QED
    BY <1>1, <1>2 DEF Message

LEMMA Callbacks ==
  ASSUME NEW c \in Callback
  PROVE  /\ c.op \in {"execute", "send"} => c.msg \in Event
         /\ c.op = "complete" => c.map \in Maps \cup {None}
  BY DEF Callback

LEMMA Infos ==
  ASSUME NEW m
  PROVE  MapInfo(m) \in Approved \cup {None}
  BY DEF MapInfo

LEMMA SequenceOf ==
  ASSUME NEW S, NEW n \in Nat, NEW f \in [1..n -> S]
  PROVE  f \in Seq(S)
  OBVIOUS

LEMMA AppendType ==
  ASSUME NEW S, NEW s \in Seq(S), NEW e \in S
  PROVE  Append(s, e) \in Seq(S)
  OBVIOUS

\* A message given to the socket is on its way, or lost with the connection.
LEMMA GiveType ==
  ASSUME toApi \in Seq(Message), NEW msg \in Message, Give(msg)
  PROVE  toApi' \in Seq(Message)
  BY DEF Give

LEMMA SendType ==
  ASSUME toApi \in Seq(Message), NEW msg \in Message, SendMessage(msg)
  PROVE  toApi' \in Seq(Message)
  BY GiveType DEF SendMessage

LEMMA SendOrWaitType ==
  ASSUME toApi \in Seq(Message), whenConnected \in Seq(Event), NEW msg \in Event, SendOrWait(msg)
  PROVE  toApi' \in Seq(Message) /\ whenConnected' \in Seq(Event)
  BY SendType DEF SendOrWait, Message

\* A step of the network's thread records whether it fell inside a handler.
LEMMA RacedType ==
  ASSUME NetworkRuns, TypeOK
  PROVE  raced' \in BOOLEAN
  BY DEF NetworkRuns, TypeOK

\* Every step preserves the types.
LEMMA TypeStep ==
  ASSUME TypeOK, [Next]_vars
  PROVE  TypeOK'
  <1> USE GlobalAssumption DEF TypeOK, States
  <1>1. ASSUME NEW m \in Maps, OnActivateServer(m) PROVE TypeOK'
    <2> DEFINE msg == [kind |-> "map", map |-> m]
    <2>1. msg \in Message
      BY DEF Message, Event
    <2>2. CASE state = "Uninitialized" /\ ~Configured
      BY <1>1, <2>2 DEF OnActivateServer, apiVars
    <2>3. CASE state = "Uninitialized" /\ Configured
      BY <1>1, <2>3 DEF OnActivateServer, apiVars
    <2>4. CASE state # "Uninitialized"
      <3>1. SendMessage(msg) /\ UNCHANGED <<state, socket, pc, retry>>
        BY <1>1, <2>4 DEF OnActivateServer
      <3>2. toApi' \in Seq(Message)
        BY <3>1, <2>1, SendType
      <3> QED
        BY <1>1, <3>1, <3>2 DEF OnActivateServer, apiVars
    <2> QED
      BY <2>2, <2>3, <2>4
  <1>2. ASSUME NEW p \in Players, OnPlayerAuthorized(p) PROVE TypeOK'
    <2>1. [kind |-> "join", player |-> p] \in Event
      BY DEF Event
    <2>2. toApi' \in Seq(Message) /\ whenConnected' \in Seq(Event)
      BY <1>2, <2>1, SendOrWaitType DEF OnPlayerAuthorized
    <2> QED
      BY <1>2, <2>2 DEF OnPlayerAuthorized, apiVars
  <1>3. ASSUME NEW p \in Players, OnClientDisconnect(p) PROVE TypeOK'
    <2>1. [kind |-> "leave", player |-> p] \in Message
      BY DEF Event, Message
    <2>2. toApi' \in Seq(Message)
      BY <1>3, <2>1, SendType DEF OnClientDisconnect
    <2> QED
      BY <1>3, <2>2 DEF OnClientDisconnect, apiVars
  <1>4. ASSUME NEW r \in Records, SubmitRecord(r) PROVE TypeOK'
    <2> DEFINE msg == [kind |-> "record", record |-> r]
    <2>1. msg \in Event /\ msg \in Message /\ [op |-> "send", msg |-> msg] \in Callback
      BY DEF Event, Message, Callback
    <2>2. toApi' \in Seq(Message)
      BY <1>4, <2>1, GiveType DEF SubmitRecord
    <2>3. queue' \in Seq(Callback)
      <3> DEFINE call == [op |-> "send", msg |-> msg]
      <3> HIDE DEF call
      <3>1. call \in Callback
        BY <2>1 DEF call
      <3>2. queue' = queue \/ queue' = Append(queue, call)
        BY <1>4 DEF SubmitRecord, call
      <3>3. queue \in Seq(Callback)
        OBVIOUS
      <3>4. Append(queue, call) \in Seq(Callback)
        BY <3>1, <3>3, AppendType
      <3> QED
        BY <3>2, <3>3, <3>4
    <2>4. record' \in [Records -> {"no", "refused", "queued", "sent", "lost", "answered"}]
      BY <1>4 DEF SubmitRecord
    <2> QED
      BY <1>4, <2>2, <2>3, <2>4 DEF SubmitRecord, apiVars, gameVars
  <1>5. CASE InitReturns
    BY <1>5 DEF InitReturns, netVars, apiVars, gameVars
  <1>6. CASE OnServerGamePostSimulate
    <2> DEFINE waited == IF Sends THEN whenConnected ELSE <<>>
               sends  == [i \in DOMAIN waited |-> [op |-> "send", msg |-> waited[i]]]
    <2>1. waited \in Seq(Event)
      OBVIOUS
    <2>2. \A i \in DOMAIN waited : [op |-> "send", msg |-> waited[i]] \in Callback
      BY <2>1 DEF Callback
    <2>3. DOMAIN waited = 1..Len(waited) /\ Len(waited) \in Nat
      BY <2>1
    <2>4. sends \in [1..Len(waited) -> Callback]
      BY <2>2, <2>3
    <2>5. sends \in Seq(Callback)
      <3> HIDE DEF sends
      <3> QED
        BY <2>3, <2>4, SequenceOf
    <2>6. queue \o sends \in Seq(Callback)
      BY <2>5
    <2>7. running' \in Seq(Callback)
      BY <1>6, <2>6 DEF OnServerGamePostSimulate
    <2> QED
      BY <1>6, <2>7 DEF OnServerGamePostSimulate, netVars, apiVars, gameVars
  <1> DEFINE c == Head(running)
  <1>7. ASSUME running # <<>> PROVE c \in Callback /\ Tail(running) \in Seq(Callback)
    BY <1>7
  <1>8. CASE InitiateHandshake
    <2>1. [kind |-> "hello", map |-> map, players |-> players] \in Message
      BY DEF Message, Hello
    <2>2. toApi' \in Seq(Message)
      BY <1>8, <2>1, GiveType DEF InitiateHandshake
    <2> QED
      BY <1>8, <2>2, <1>7 DEF InitiateHandshake, Runs, apiVars, gameVars
  <1>9. CASE HandshakeInitiated
    BY <1>9 DEF HandshakeInitiated, netVars, apiVars, gameVars
  <1>10. CASE CompleteHandshake
    BY <1>10, <1>7, Infos DEF CompleteHandshake, Runs, netVars, apiVars, gameVars
  <1>11. CASE ExecuteMessageCallback
    <2>1. c.msg \in Event /\ c.msg \in Message
      BY <1>11, <1>7, Callbacks DEF ExecuteMessageCallback, Runs, Message
    <2>2. currentMap' \in Approved \cup {None}
      BY <1>11, Infos DEF ExecuteMessageCallback, MapAfter
    <2>3. record' \in [Records -> {"no", "refused", "queued", "sent", "lost", "answered"}]
      BY <1>11 DEF ExecuteMessageCallback
    <2>4. toApi' \in Seq(Message) /\ whenConnected' \in Seq(Event)
      <3>1. CASE c.msg.kind = "join" /\ c.msg.player \in players /\ currentMap # None
        <4>1. [kind |-> "pbs", player |-> c.msg.player] \in Event
          BY <3>1 DEF Event
        <4> QED
          BY <1>11, <3>1, <4>1, SendOrWaitType DEF ExecuteMessageCallback
      <3>2. CASE ~(c.msg.kind = "join" /\ c.msg.player \in players /\ currentMap # None)
        BY <1>11, <3>2 DEF ExecuteMessageCallback
      <3> QED
        BY <3>1, <3>2
    <2> QED
      BY <1>11, <1>7, <2>2, <2>3, <2>4 DEF ExecuteMessageCallback, Runs, apiVars, gameVars
  <1>12. CASE DeferredSend
    <2>1. c.msg \in Message
      BY <1>12, <1>7, Callbacks DEF DeferredSend, Runs, Message
    <2>2. toApi' \in Seq(Message)
      BY <1>12, <2>1, SendType DEF DeferredSend
    <2>3. record' \in [Records -> {"no", "refused", "queued", "sent", "lost", "answered"}]
      BY <1>12 DEF DeferredSend
    <2> QED
      BY <1>12, <1>7, <2>2, <2>3 DEF DeferredSend, Runs, apiVars, gameVars
  <1>13. CASE Open
    <2>1. [op |-> "initiate"] \in Callback
      BY DEF Callback
    <2>2. queue' \in Seq(Callback)
      BY <1>13, <2>1 DEF Open
    <2>3. opens' \in 0..MaxOpens
      BY <1>13 DEF Open
    <2>4. toApi' \in Seq(Message) /\ toGame' \in Seq(Message) /\ greeted' = FALSE /\ apiPlayers' = {}
      BY <1>13 DEF Open
    <2>5. conn' = "open" /\ state' = "Connected"
          /\ UNCHANGED <<socket, pc, running, whenConnected, currentMap, record, retry, gameVars>>
      BY <1>13 DEF Open
    <2>6. raced' \in BOOLEAN
      BY <1>13, RacedType DEF Open, MayConnect
    <2> QED
      BY <2>2, <2>3, <2>4, <2>5, <2>6 DEF gameVars
  <1>14. ASSUME NEW again \in BOOLEAN, NetworkRuns, Ends(again),
                UNCHANGED conn \/ conn' = "closed",
                UNCHANGED <<toApi, toGame>> \/ (toApi' = <<>> /\ toGame' = <<>>)
         PROVE  TypeOK'
    <2>1. retry' \in BOOLEAN /\ state' \in States
      BY <1>14 DEF Ends
    <2>2. toApi' \in Seq(Message) /\ toGame' \in Seq(Message)
      <3>1. CASE UNCHANGED <<toApi, toGame>>
        BY <3>1
      <3>2. CASE toApi' = <<>> /\ toGame' = <<>>
        BY <3>2
      <3> QED
        BY <1>14, <3>1, <3>2
    <2>4. conn' \in {"none", "open", "closed"} /\ raced' \in BOOLEAN
      BY <1>14, RacedType
    <2>3. UNCHANGED <<socket, pc, queue, running, whenConnected, currentMap, record, opens, apiVars,
                      gameVars>>
      BY <1>14 DEF Ends
    <2> QED
      BY <2>1, <2>2, <2>3, <2>4 DEF apiVars, gameVars
  <1>15. CASE Close
    BY <1>15, <1>14 DEF Close
  <1>16. CASE Error
    BY <1>16, <1>14 DEF Error, MayConnect
  <1>17. CASE Receive
    <2> DEFINE msg == Head(toGame)
    <2>1. msg \in Message /\ toGame' \in Seq(Message)
      BY <1>17 DEF Receive
    <2>2. queue' \in Seq(Callback)
      <3>1. CASE state = "HandshakeInitiated" /\ msg.kind = "hello"
        <4>1. [op |-> "complete", map |-> msg.map] \in Callback
          BY <3>1, <2>1, Kinds DEF Callback
        <4> QED
          BY <1>17, <3>1, <4>1 DEF Receive
      <3>2. CASE Sends /\ msg.kind # "hello"
        <4>1. [op |-> "execute", msg |-> msg] \in Callback
          BY <3>2, <2>1, Kinds DEF Callback
        <4> QED
          BY <1>17, <3>2, <4>1 DEF Receive, Sends
      <3>3. CASE ~(state = "HandshakeInitiated" /\ msg.kind = "hello") /\ ~(Sends /\ msg.kind # "hello")
        BY <1>17, <3>3 DEF Receive
      <3> QED
        BY <3>1, <3>2, <3>3
    <2>3. raced' \in BOOLEAN
      BY <1>17, RacedType DEF Receive
    <2> QED
      BY <1>17, <2>1, <2>2, <2>3 DEF Receive, apiVars, gameVars
  <1>18. CASE ApiReads
    <2> DEFINE msg == Head(toApi)
    <2>1. msg \in Message /\ toApi' \in Seq(Message)
      BY <1>18 DEF ApiReads
    <2>2. toGame' \in Seq(Message)
      BY <1>18, <2>1 DEF ApiReads
    <2>3. apiPlayers' \subseteq Players
      BY <1>18, <2>1, Kinds DEF ApiReads
    <2>4. greeted' \in BOOLEAN
      BY <1>18 DEF ApiReads
    <2> QED
      BY <1>18, <2>1, <2>2, <2>3, <2>4 DEF ApiReads, gameVars
  <1>19. CASE UNCHANGED vars
    BY <1>19 DEF vars, netVars, apiVars, gameVars
  <1> QED
    BY <1>1, <1>2, <1>3, <1>4, <1>5, <1>6, <1>8, <1>9, <1>10, <1>11, <1>12, <1>13, <1>15, <1>16,
       <1>17, <1>18, <1>19 DEF Next, GameThread

LEMMA TypeInit == Init => TypeOK
  <1> SUFFICES ASSUME Init PROVE TypeOK
    OBVIOUS
  <1>1. opens \in 0..MaxOpens /\ maps \in 0..MaxMaps /\ joins \in 0..MaxJoins
    BY GlobalAssumption DEF Init
  <1>2. queue \in Seq(Callback) /\ running \in Seq(Callback) /\ whenConnected \in Seq(Event)
        /\ toApi \in Seq(Message) /\ toGame \in Seq(Message)
    BY DEF Init
  <1>3. retry \in BOOLEAN /\ greeted \in BOOLEAN
    BY DEF Init
  <1> QED
    BY <1>1, <1>2, <1>3 DEF Init, TypeOK, States

\* On any server, the connection's state keeps its types.
THEOREM TypeCorrect == Spec => []TypeOK
  <1>1. Init => TypeOK
    BY TypeInit
  <1>2. TypeOK /\ [Next]_vars => TypeOK'
    BY TypeStep
  <1> QED
    BY <1>1, <1>2, PTL DEF Spec

------------------------------------------------------------------------------
\* One hello is not inductive alone: the hello is sent in Connected, so that
\* state must mean that this connection has carried none, save between the
\* send and the store that follows it.
NoHello == ~greeted /\ \A i \in DOMAIN toApi : toApi[i].kind # "hello"
HelloInv == TypeOK /\ OneHello /\ (state = "Connected" /\ pc # "hello" => NoHello)

\* An event given to the socket leaves the hellos as they were.
LEMMA GiveEvent ==
  ASSUME TypeOK, OneHello, NEW msg \in Event, SendMessage(msg), UNCHANGED greeted
  PROVE  OneHello'
  <1>1. toApi \in Seq(Message) /\ msg.kind # "hello"
    BY Kinds DEF TypeOK, Message
  <1>2. CASE toApi' = toApi
    BY <1>2 DEF OneHello
  <1>3. CASE toApi' = Append(toApi, msg)
    <2>1. \A i \in DOMAIN toApi' : toApi'[i].kind = "hello" => i \in DOMAIN toApi /\ toApi'[i] = toApi[i]
      BY <1>1, <1>3
    <2> QED
      BY <2>1 DEF OneHello
  <1> QED
    BY <1>2, <1>3 DEF SendMessage, Give

\* The first hello of a connection that carried none.
LEMMA GiveHello ==
  ASSUME TypeOK, NoHello, NEW msg \in Hello, Give(msg), UNCHANGED greeted
  PROVE  OneHello'
  <1>1. toApi \in Seq(Message)
    BY DEF TypeOK
  <1>2. CASE toApi' = toApi
    BY <1>2 DEF OneHello, NoHello
  <1>3. CASE toApi' = Append(toApi, msg)
    <2>1. \A i \in DOMAIN toApi' : toApi'[i].kind = "hello" => i = Len(toApi) + 1
      BY <1>1, <1>3 DEF NoHello
    <2> QED
      BY <2>1 DEF OneHello, NoHello
  <1> QED
    BY <1>2, <1>3 DEF Give

\* Steps that leave the connection alone, or send in HandshakeCompleted.
LEMMA HelloUntouched ==
  ASSUME HelloInv, UNCHANGED <<toApi, greeted>>,
         state' = "Connected" /\ pc' # "hello" => state = "Connected" /\ pc # "hello"
  PROVE  OneHello' /\ (state' = "Connected" /\ pc' # "hello" => NoHello')
  BY DEF HelloInv, OneHello, NoHello

LEMMA HelloSends ==
  ASSUME HelloInv, NEW msg \in Event, SendMessage(msg), UNCHANGED <<greeted, state, pc>>
  PROVE  OneHello' /\ (state' = "Connected" /\ pc' # "hello" => NoHello')
  <1>1. CASE Sends
    BY <1>1, GiveEvent DEF HelloInv, Sends
  <1>2. CASE ~Sends
    BY <1>2, HelloUntouched DEF SendMessage
  <1> QED
    BY <1>1, <1>2

\* The API takes the hello, or a message after it.
LEMMA HelloRead ==
  ASSUME HelloInv, ApiReads
  PROVE  OneHello' /\ (state' = "Connected" /\ pc' # "hello" => NoHello')
  <1>1. /\ toApi \in Seq(Message) /\ toApi # <<>> /\ toApi' = Tail(toApi)
        /\ greeted' = (greeted \/ Head(toApi).kind = "hello")
        /\ UNCHANGED <<state, pc>>
    BY DEF HelloInv, TypeOK, ApiReads
  <1>2. /\ Len(toApi) \in Nat /\ 1 \in DOMAIN toApi /\ Head(toApi) = toApi[1]
        /\ \A i \in DOMAIN toApi' : i \in Nat /\ i + 1 \in DOMAIN toApi /\ toApi'[i] = toApi[i + 1]
    BY <1>1
  <1>3. OneHello'
    <2> SUFFICES ASSUME NEW i \in DOMAIN toApi', toApi'[i].kind = "hello"
                 PROVE  ~greeted' /\ \A j \in DOMAIN toApi' : toApi'[j].kind = "hello" => i = j
      BY DEF OneHello
    <2>1. toApi[i + 1].kind = "hello" /\ i + 1 \in DOMAIN toApi
      BY <1>2
    <2>2. ~greeted /\ \A j \in DOMAIN toApi : toApi[j].kind = "hello" => i + 1 = j
      BY <2>1 DEF HelloInv, OneHello
    <2>3. i + 1 # 1 /\ \A j \in DOMAIN toApi' : i + 1 = j + 1 => i = j
      BY <1>2
    <2>4. ~greeted'
      BY <1>1, <1>2, <2>2, <2>3
    <2> QED
      BY <1>2, <2>2, <2>3, <2>4
  <1>4. state' = "Connected" /\ pc' # "hello" => NoHello'
    BY <1>1, <1>2 DEF HelloInv, NoHello
  <1> QED
    BY <1>3, <1>4

LEMMA HelloStep ==
  ASSUME HelloInv, [Next]_vars
  PROVE  HelloInv'
  <1> DEFINE Goal == OneHello' /\ (state' = "Connected" /\ pc' # "hello" => NoHello')
  <1> SUFFICES Goal
    BY TypeStep DEF HelloInv
  <1> HIDE DEF Goal
  <1>1. ASSUME NEW m \in Maps, OnActivateServer(m) PROVE Goal
    <2>1. CASE state = "Uninitialized"
      BY <1>1, <2>1, HelloUntouched DEF OnActivateServer, apiVars, Goal
    <2>2. CASE state # "Uninitialized"
      <3>1. [kind |-> "map", map |-> m] \in Event
        BY DEF Event
      <3> QED
        BY <1>1, <2>2, <3>1, HelloSends DEF OnActivateServer, apiVars, Goal
    <2> QED
      BY <2>1, <2>2
  <1>2. ASSUME NEW p \in Players, OnPlayerAuthorized(p) \/ OnClientDisconnect(p) PROVE Goal
    <2>1. [kind |-> "join", player |-> p] \in Event /\ [kind |-> "leave", player |-> p] \in Event
      BY DEF Event
    <2> QED
      BY <1>2, <2>1, HelloSends DEF OnPlayerAuthorized, OnClientDisconnect, SendOrWait, apiVars, Goal
  <1>3. ASSUME NEW r \in Records, SubmitRecord(r) PROVE Goal
    <2> DEFINE msg == [kind |-> "record", record |-> r]
    <2>1. msg \in Event
      BY DEF Event
    <2>2. SendMessage(msg)
      <3> HIDE DEF msg
      <3>1. CASE Sends
        <4>1. Give(msg)
          BY <1>3, <3>1 DEF SubmitRecord, Sends, Give, msg
        <4> QED
          BY <3>1, <4>1 DEF SendMessage
      <3>2. CASE ~Sends
        <4>1. toApi' = toApi
          BY <1>3, <3>2 DEF SubmitRecord
        <4> QED
          BY <3>2, <4>1 DEF SendMessage
      <3> QED
        BY <3>1, <3>2
    <2> QED
      BY <1>3, <2>1, <2>2, HelloSends DEF SubmitRecord, apiVars, Goal
  <1>4. CASE InitReturns
    BY <1>4, HelloUntouched DEF InitReturns, netVars, apiVars, Goal
  <1>5. CASE OnServerGamePostSimulate
    BY <1>5, HelloUntouched DEF OnServerGamePostSimulate, netVars, apiVars, Goal
  <1>6. CASE InitiateHandshake
    <2>1. CASE state = "Connected"
      <3>1. NoHello
        BY <1>6, <2>1 DEF InitiateHandshake, Runs, HelloInv
      <3>2. [kind |-> "hello", map |-> map, players |-> players] \in Hello
        BY DEF Hello, HelloInv, TypeOK
      <3>3. OneHello'
        BY <1>6, <2>1, <3>1, <3>2, GiveHello DEF InitiateHandshake, apiVars, HelloInv
      <3> QED
        BY <1>6, <3>3 DEF InitiateHandshake, Goal
    <2>2. CASE state # "Connected"
      BY <1>6, <2>2, HelloUntouched DEF InitiateHandshake, apiVars, Goal
    <2> QED
      BY <2>1, <2>2
  <1>7. CASE HandshakeInitiated
    BY <1>7, HelloUntouched DEF HandshakeInitiated, netVars, apiVars, Goal
  <1>8. CASE CompleteHandshake
    BY <1>8, HelloUntouched DEF CompleteHandshake, netVars, apiVars, Goal
  <1> DEFINE c == Head(running)
  <1>9. ASSUME running # <<>>, c.op \in {"execute", "send"} PROVE c.msg \in Event
    BY <1>9, Callbacks DEF HelloInv, TypeOK
  <1>10. CASE ExecuteMessageCallback
    <2>1. CASE c.msg.kind = "join" /\ c.msg.player \in players /\ currentMap # None
      <3>1. [kind |-> "pbs", player |-> c.msg.player] \in Event
        BY <2>1 DEF Event, HelloInv, TypeOK
      <3> QED
        BY <1>10, <2>1, <3>1, HelloSends DEF ExecuteMessageCallback, SendOrWait, apiVars, Goal
    <2>2. CASE ~(c.msg.kind = "join" /\ c.msg.player \in players /\ currentMap # None)
      BY <1>10, <2>2, HelloUntouched DEF ExecuteMessageCallback, apiVars, Goal
    <2> QED
      BY <2>1, <2>2
  <1>11. CASE DeferredSend
    <2>1. c.msg \in Event
      BY <1>11, <1>9 DEF DeferredSend, Runs
    <2> QED
      BY <1>11, <2>1, HelloSends DEF DeferredSend, apiVars, Goal
  <1>12. CASE Open
    BY <1>12 DEF Open, OneHello, NoHello, Goal
  <1>13. CASE Close
    <2>1. toApi' = <<>> /\ state' # "Connected"
      BY <1>13 DEF Close, Ends
    <2> QED
      BY <2>1 DEF OneHello, Goal
  <1>14. CASE Error
    BY <1>14, HelloUntouched DEF Error, Ends, apiVars, Goal
  <1>15. CASE Receive
    BY <1>15, HelloUntouched DEF Receive, apiVars, Goal
  <1>16. CASE ApiReads
    BY <1>16, HelloRead DEF Goal
  <1>17. CASE UNCHANGED vars
    BY <1>17, HelloUntouched DEF vars, netVars, apiVars, Goal
  <1> QED
    BY <1>1, <1>2, <1>3, <1>4, <1>5, <1>6, <1>7, <1>8, <1>10, <1>11, <1>12, <1>13, <1>14, <1>15,
       <1>16, <1>17 DEF Next, GameThread

\* However often it reconnects, whatever was left queued and wherever the
\* network's thread cuts in, a connection carries at most one hello.
THEOREM OneHelloHolds == Spec => []OneHello
  <1>1. Init => HelloInv
    <2>1. Init => OneHello /\ state # "Connected"
      BY DEF Init, OneHello
    <2>2. Init => TypeOK
      BY TypeInit
    <2> QED
      BY <2>1, <2>2 DEF HelloInv
  <1>2. HelloInv /\ [Next]_vars => HelloInv'
    BY HelloStep
  <1>3. HelloInv => OneHello
    BY DEF HelloInv
  <1> QED
    BY <1>1, <1>2, <1>3, PTL DEF Spec

------------------------------------------------------------------------------
(* Who the API knows.  A player of the server is known when what is on its  *)
(* way ends with him known, or his message still waits in a place whose     *)
(* messages are sent.  The difficulty is the callbacks that earlier          *)
(* connections left queued: an InitiateHandshake among them greets the API  *)
(* on this connection, and a CompleteHandshake completes a handshake that   *)
(* this connection has not made.                                            *)

\* The callbacks of s greet the API, or complete a handshake after the last
\* one that greets it.
Initiates(s) == \E i \in DOMAIN s : s[i].op = "initiate"
Completes(s) ==
  \E i \in DOMAIN s : s[i].op = "complete" /\ \A j \in DOMAIN s : j > i => s[j].op # "initiate"

LEMMA TailType ==
  ASSUME NEW S, NEW s \in Seq(S), s # <<>>
  PROVE  Tail(s) \in Seq(S)
OBVIOUS

LEMMA ConcatType ==
  ASSUME NEW S, NEW s \in Seq(S), NEW t \in Seq(S)
  PROVE  s \o t \in Seq(S)
OBVIOUS

LEMMA CallbackAppended ==
  ASSUME NEW s \in Seq(Callback), NEW c \in Callback
  PROVE  /\ Initiates(Append(s, c)) <=> Initiates(s) \/ c.op = "initiate"
         /\ Completes(Append(s, c)) <=> c.op = "complete" \/ (Completes(s) /\ c.op # "initiate")
<1>1. PICK n \in Seq(Callback) : n = Append(s, c)
  BY AppendType
<1>2. /\ Len(s) \in Nat /\ DOMAIN s = 1..Len(s) /\ DOMAIN n = 1..(Len(s) + 1)
      /\ n[Len(s) + 1] = c /\ \A i \in 1..Len(s) : n[i] = s[i]
  BY <1>1
<1>3. Initiates(n) <=> Initiates(s) \/ c.op = "initiate"
  BY <1>2 DEF Initiates
<1>4. c.op = "complete" => Completes(n)
  BY <1>2 DEF Completes
<1>5. Completes(s) /\ c.op # "initiate" => Completes(n)
  BY <1>2 DEF Completes
<1>6. ASSUME Completes(n), c.op # "complete"
      PROVE  Completes(s) /\ c.op # "initiate"
  <2>1. PICK i \in DOMAIN n : n[i].op = "complete" /\ \A j \in DOMAIN n : j > i => n[j].op # "initiate"
    BY <1>6 DEF Completes
  <2>2. i # Len(s) + 1
    BY <1>2, <1>6, <2>1
  <2>3. i \in DOMAIN s /\ s[i].op = "complete" /\ \A j \in DOMAIN s : j > i => s[j].op # "initiate"
    BY <1>2, <2>1, <2>2
  <2>4. c.op # "initiate"
    BY <1>2, <2>1, <2>2
  <2> QED
    BY <2>3, <2>4 DEF Completes
<1> QED
  BY <1>1, <1>3, <1>4, <1>5, <1>6

LEMMA CallbackTaken ==
  ASSUME NEW s \in Seq(Callback), s # <<>>
  PROVE  /\ Initiates(s) <=> Head(s).op = "initiate" \/ Initiates(Tail(s))
         /\ Completes(s) <=> Completes(Tail(s)) \/ (Head(s).op = "complete" /\ ~Initiates(Tail(s)))
<1>1. PICK n \in Seq(Callback) : n = Tail(s)
  BY TailType
<1>2. /\ Len(s) \in Nat /\ Len(s) >= 1 /\ DOMAIN s = 1..Len(s) /\ DOMAIN n = 1..(Len(s) - 1)
      /\ s[1] = Head(s) /\ \A i \in 1..(Len(s) - 1) : n[i] = s[i + 1]
  BY <1>1
<1>3. \A i \in 1..Len(s) : i = 1 \/ (i - 1 \in 1..(Len(s) - 1) /\ n[i - 1] = s[i])
  BY <1>2
<1>4. Initiates(s) => Head(s).op = "initiate" \/ Initiates(n)
  BY <1>2, <1>3 DEF Initiates
<1>5. Initiates(n) => Initiates(s)
  <2>1. ASSUME NEW i \in DOMAIN n, n[i].op = "initiate" PROVE Initiates(s)
    <3>1. i + 1 \in DOMAIN s /\ s[i + 1].op = "initiate"
      BY <1>2, <2>1
    <3> QED
      BY <3>1 DEF Initiates
  <2> QED
    BY <2>1 DEF Initiates
<1>6. Head(s).op = "initiate" => Initiates(s)
  BY <1>2 DEF Initiates
<1>7. ASSUME Completes(n) PROVE Completes(s)
  <2>1. PICK i \in DOMAIN n : n[i].op = "complete" /\ \A j \in DOMAIN n : j > i => n[j].op # "initiate"
    BY <1>7 DEF Completes
  <2>2. i + 1 \in DOMAIN s /\ s[i + 1].op = "complete"
    BY <1>2, <2>1
  <2>3. ASSUME NEW j \in DOMAIN s, j > i + 1 PROVE s[j].op # "initiate"
    <3>1. j - 1 \in DOMAIN n /\ j - 1 > i /\ n[j - 1] = s[j]
      BY <1>2, <1>3, <2>3
    <3> QED
      BY <2>1, <3>1
  <2> QED
    BY <2>2, <2>3 DEF Completes
<1>8. ASSUME Head(s).op = "complete", ~Initiates(n) PROVE Completes(s)
  <2>1. \A j \in DOMAIN s : j > 1 => s[j].op # "initiate"
    BY <1>2, <1>3, <1>8 DEF Initiates
  <2> QED
    BY <1>2, <1>8, <2>1 DEF Completes
<1>9. ASSUME Completes(s), ~Completes(n) PROVE Head(s).op = "complete" /\ ~Initiates(n)
  <2>1. PICK i \in DOMAIN s : s[i].op = "complete" /\ \A j \in DOMAIN s : j > i => s[j].op # "initiate"
    BY <1>9 DEF Completes
  <2>2. i = 1
    <3>1. SUFFICES ASSUME i # 1 PROVE Completes(n)
      BY <1>9
    <3>2. i - 1 \in DOMAIN n /\ n[i - 1].op = "complete"
      BY <1>2, <1>3, <2>1, <3>1
    <3>3. ASSUME NEW j \in DOMAIN n, j > i - 1 PROVE n[j].op # "initiate"
      <4>1. j + 1 \in DOMAIN s /\ j + 1 > i /\ n[j] = s[j + 1]
        BY <1>2, <2>1, <3>3
      <4> QED
        BY <2>1, <4>1
    <3> QED
      BY <3>2, <3>3 DEF Completes
  <2>3. ASSUME NEW j \in DOMAIN n PROVE n[j].op # "initiate"
    <3>1. j + 1 \in DOMAIN s /\ j + 1 > i /\ n[j] = s[j + 1]
      BY <1>2, <2>2
    <3> QED
      BY <2>1, <3>1
  <2> QED
    BY <1>2, <2>1, <2>2, <2>3 DEF Initiates
<1> QED
  BY <1>1, <1>4, <1>5, <1>6, <1>7, <1>8, <1>9

\* The callbacks that waited for the connection come after the others.
LEMMA CallbacksJoined ==
  ASSUME NEW s \in Seq(Callback), NEW t \in Seq(Callback), \A i \in DOMAIN t : t[i].op = "send"
  PROVE  /\ Initiates(s \o t) <=> Initiates(s)
         /\ Completes(s \o t) <=> Completes(s)
<1>1. PICK n \in Seq(Callback) : n = s \o t
  BY ConcatType
<1>2. /\ Len(s) \in Nat /\ Len(t) \in Nat /\ DOMAIN s = 1..Len(s) /\ DOMAIN t = 1..Len(t)
      /\ DOMAIN n = 1..(Len(s) + Len(t))
      /\ \A i \in 1..(Len(s) + Len(t)) : n[i] = IF i <= Len(s) THEN s[i] ELSE t[i - Len(s)]
  BY <1>1
<1>3. \A i \in DOMAIN s : i \in DOMAIN n /\ n[i] = s[i]
  BY <1>2
<1>4. \A i \in DOMAIN n : i \in DOMAIN s \/ (i > Len(s) /\ n[i].op = "send")
  <2> SUFFICES ASSUME NEW i \in DOMAIN n, i \notin DOMAIN s
               PROVE  i > Len(s) /\ n[i].op = "send"
    OBVIOUS
  <2>1. i > Len(s) /\ i - Len(s) \in DOMAIN t /\ n[i] = t[i - Len(s)]
    BY <1>2
  <2> QED
    BY <2>1
<1>5. Initiates(n) <=> Initiates(s)
  BY <1>3, <1>4 DEF Initiates
<1>6. ASSUME Completes(s) PROVE Completes(n)
  <2>1. PICK i \in DOMAIN s : s[i].op = "complete" /\ \A j \in DOMAIN s : j > i => s[j].op # "initiate"
    BY <1>6 DEF Completes
  <2>2. i \in DOMAIN n /\ n[i].op = "complete" /\ \A j \in DOMAIN n : j > i => n[j].op # "initiate"
    BY <1>3, <1>4, <2>1
  <2> QED
    BY <2>2 DEF Completes
<1>7. ASSUME Completes(n) PROVE Completes(s)
  <2>1. PICK i \in DOMAIN n : n[i].op = "complete" /\ \A j \in DOMAIN n : j > i => n[j].op # "initiate"
    BY <1>7 DEF Completes
  <2>2. i \in DOMAIN s /\ s[i].op = "complete" /\ \A j \in DOMAIN s : j > i => s[j].op # "initiate"
    BY <1>3, <1>4, <2>1
  <2> QED
    BY <2>2 DEF Completes
<1> QED
  BY <1>1, <1>5, <1>6, <1>7

LEMMA NoCallbacks == ~Initiates(<<>>) /\ ~Completes(<<>>)
BY DEF Initiates, Completes

\* With s on its way to an API that knows a, and has the hello if g, the API
\* will know p.
Tells(msg, p)  == (msg.kind = "join" /\ msg.player = p) \/ (msg.kind = "hello" /\ p \in msg.players)
Leaves(msg, p) == msg.kind = "leave" /\ msg.player = p
Reaches(s, g, a, p) ==
  \/ g /\ p \in a /\ \A i \in DOMAIN s : ~Leaves(s[i], p)
  \/ \E i \in DOMAIN s :
       /\ Tells(s[i], p)
       /\ g \/ \E h \in DOMAIN s : h <= i /\ s[h].kind = "hello"
       /\ \A j \in DOMAIN s : j > i => ~Leaves(s[j], p)

\* Other messages than his leaving keep him known.
LEMMA MessageAppended ==
  ASSUME NEW s \in Seq(Message), NEW g, NEW a, NEW p, NEW msg \in Message, Reaches(s, g, a, p), ~Leaves(msg, p)
  PROVE  Reaches(Append(s, msg), g, a, p)
<1>1. PICK n \in Seq(Message) : n = Append(s, msg)
  BY AppendType
<1>2. /\ Len(s) \in Nat /\ DOMAIN s = 1..Len(s) /\ DOMAIN n = 1..(Len(s) + 1)
      /\ n[Len(s) + 1] = msg /\ \A i \in 1..Len(s) : n[i] = s[i]
  BY <1>1
<1>3. CASE g /\ p \in a /\ \A i \in DOMAIN s : ~Leaves(s[i], p)
  <2>1. \A i \in DOMAIN n : ~Leaves(n[i], p)
    BY <1>2, <1>3
  <2> QED
    BY <1>1, <1>3, <2>1 DEF Reaches
<1>4. CASE \E i \in DOMAIN s :
             /\ Tells(s[i], p)
             /\ g \/ \E h \in DOMAIN s : h <= i /\ s[h].kind = "hello"
             /\ \A j \in DOMAIN s : j > i => ~Leaves(s[j], p)
  <2>1. PICK i \in DOMAIN s :
             /\ Tells(s[i], p)
             /\ g \/ \E h \in DOMAIN s : h <= i /\ s[h].kind = "hello"
             /\ \A j \in DOMAIN s : j > i => ~Leaves(s[j], p)
    BY <1>4
  <2>2. i \in DOMAIN n /\ Tells(n[i], p)
    BY <1>2, <2>1
  <2>3. g \/ \E h \in DOMAIN n : h <= i /\ n[h].kind = "hello"
    BY <1>2, <2>1
  <2>4. \A j \in DOMAIN n : j > i => ~Leaves(n[j], p)
    BY <1>2, <2>1
  <2> QED
    BY <1>1, <2>2, <2>3, <2>4 DEF Reaches
<1> QED
  BY <1>3, <1>4 DEF Reaches

\* His joining is heard behind a hello, and the hello by itself.
LEMMA MessageTells ==
  ASSUME NEW s \in Seq(Message), NEW g, NEW a, NEW p, NEW msg \in Message, Tells(msg, p),
         g \/ msg.kind = "hello" \/ \E h \in DOMAIN s : s[h].kind = "hello"
  PROVE  Reaches(Append(s, msg), g, a, p)
<1>1. PICK n \in Seq(Message) : n = Append(s, msg)
  BY AppendType
<1>2. /\ Len(s) \in Nat /\ DOMAIN s = 1..Len(s) /\ DOMAIN n = 1..(Len(s) + 1)
      /\ n[Len(s) + 1] = msg /\ \A i \in 1..Len(s) : n[i] = s[i]
  BY <1>1
<1>3. PICK e \in DOMAIN n : e = Len(s) + 1
  BY <1>2
<1>4. Tells(n[e], p) /\ \A j \in DOMAIN n : j > e => ~Leaves(n[j], p)
  BY <1>2, <1>3
<1>5. g \/ \E h \in DOMAIN n : h <= e /\ n[h].kind = "hello"
  BY <1>2, <1>3
<1> QED
  BY <1>1, <1>4, <1>5 DEF Reaches

\* The API reads a message.
LEMMA MessageRead ==
  ASSUME NEW s \in Seq(Message), s # <<>>, NEW g \in BOOLEAN, NEW a, NEW p, Reaches(s, g, a, p),
         NEW heard \in BOOLEAN, heard <=> g \/ Head(s).kind = "hello",
         NEW b, heard /\ Tells(Head(s), p) => p \in b,
         heard /\ Head(s).kind # "hello" /\ ~Leaves(Head(s), p) /\ p \in a => p \in b,
         g => Head(s).kind # "hello"
  PROVE  Reaches(Tail(s), heard, b, p)
<1>1. PICK n \in Seq(Message) : n = Tail(s)
  BY TailType
<1>2. /\ Len(s) \in Nat /\ Len(s) >= 1 /\ DOMAIN s = 1..Len(s) /\ DOMAIN n = 1..(Len(s) - 1)
      /\ s[1] = Head(s) /\ 1 \in DOMAIN s /\ \A i \in 1..(Len(s) - 1) : n[i] = s[i + 1]
  BY <1>1
<1>3. \A i \in 1..Len(s) : i = 1 \/ (i - 1 \in 1..(Len(s) - 1) /\ n[i - 1] = s[i])
  BY <1>2
<1>4. \A i \in DOMAIN n : i + 1 \in DOMAIN s /\ i + 1 > 1 /\ n[i] = s[i + 1]
  BY <1>2
<1>5. CASE g /\ p \in a /\ \A i \in DOMAIN s : ~Leaves(s[i], p)
  <2>1. heard /\ p \in b
    BY <1>2, <1>5
  <2>2. \A i \in DOMAIN n : ~Leaves(n[i], p)
    BY <1>4, <1>5
  <2> QED
    BY <1>1, <2>1, <2>2 DEF Reaches
<1>6. CASE \E i \in DOMAIN s :
             /\ Tells(s[i], p)
             /\ g \/ \E h \in DOMAIN s : h <= i /\ s[h].kind = "hello"
             /\ \A j \in DOMAIN s : j > i => ~Leaves(s[j], p)
  <2>1. PICK i \in DOMAIN s :
             /\ Tells(s[i], p)
             /\ g \/ \E h \in DOMAIN s : h <= i /\ s[h].kind = "hello"
             /\ \A j \in DOMAIN s : j > i => ~Leaves(s[j], p)
    BY <1>6
  <2>2. CASE i = 1
    <3>1. heard
      BY <1>2, <2>1, <2>2
    <3>2. p \in b
      BY <1>2, <2>1, <2>2, <3>1
    <3>3. \A j \in DOMAIN n : ~Leaves(n[j], p)
      BY <1>4, <2>1, <2>2
    <3> QED
      BY <1>1, <3>1, <3>2, <3>3 DEF Reaches
  <2>3. CASE i # 1
    <3>1. i - 1 \in DOMAIN n /\ Tells(n[i - 1], p)
      BY <1>2, <1>3, <2>1, <2>3
    <3>2. heard \/ \E h \in DOMAIN n : h <= i - 1 /\ n[h].kind = "hello"
      <4>1. CASE g
        BY <4>1
      <4>2. CASE \E h \in DOMAIN s : h <= i /\ s[h].kind = "hello"
        <5>1. PICK h \in DOMAIN s : h <= i /\ s[h].kind = "hello"
          BY <4>2
        <5>2. CASE h = 1
          BY <1>2, <5>1, <5>2
        <5>3. CASE h # 1
          <6>1. h - 1 \in DOMAIN n /\ h - 1 <= i - 1 /\ n[h - 1].kind = "hello"
            BY <1>2, <1>3, <5>1, <5>3
          <6> QED
            BY <6>1
        <5> QED
          BY <5>2, <5>3
      <4> QED
        BY <2>1, <4>1, <4>2
    <3>3. \A j \in DOMAIN n : j > i - 1 => ~Leaves(n[j], p)
      <4> SUFFICES ASSUME NEW j \in DOMAIN n, j > i - 1
                   PROVE  ~Leaves(n[j], p)
        OBVIOUS
      <4>1. j + 1 \in DOMAIN s /\ j + 1 > i /\ n[j] = s[j + 1]
        BY <1>2, <1>4
      <4> QED
        BY <2>1, <4>1
    <3> QED
      BY <1>1, <3>1, <3>2, <3>3 DEF Reaches
  <2> QED
    BY <2>2, <2>3
<1> QED
  BY <1>5, <1>6 DEF Reaches

\* His joining is among the messages w, or the callbacks s, before any that
\* greets the API.
Waiting(w, p) == \E i \in DOMAIN w : w[i].kind = "join" /\ w[i].player = p
Deferred(s, p) ==
  \E i \in DOMAIN s :
    /\ s[i].op = "send" /\ s[i].msg.kind = "join" /\ s[i].msg.player = p
    /\ \A j \in DOMAIN s : j < i => s[j].op # "initiate"

LEMMA DeferredTaken ==
  ASSUME NEW s \in Seq(Callback), s # <<>>, NEW p, Deferred(s, p)
  PROVE  /\ Head(s).op # "initiate"
         /\ \/ Deferred(Tail(s), p)
            \/ Head(s).op = "send" /\ Head(s).msg.kind = "join" /\ Head(s).msg.player = p
<1>1. PICK n \in Seq(Callback) : n = Tail(s)
  BY TailType
<1>2. /\ Len(s) \in Nat /\ Len(s) >= 1 /\ DOMAIN s = 1..Len(s) /\ DOMAIN n = 1..(Len(s) - 1)
      /\ s[1] = Head(s) /\ 1 \in DOMAIN s /\ \A i \in 1..(Len(s) - 1) : n[i] = s[i + 1]
  BY <1>1
<1>3. PICK i \in DOMAIN s : /\ s[i].op = "send" /\ s[i].msg.kind = "join" /\ s[i].msg.player = p
                            /\ \A j \in DOMAIN s : j < i => s[j].op # "initiate"
  BY DEF Deferred
<1>4. Head(s).op # "initiate"
  BY <1>2, <1>3
<1>5. CASE i = 1
  BY <1>2, <1>3, <1>4, <1>5
<1>6. CASE i # 1
  <2>1. i - 1 \in DOMAIN n /\ n[i - 1] = s[i]
    BY <1>2, <1>6
  <2>2. ASSUME NEW j \in DOMAIN n, j < i - 1 PROVE n[j].op # "initiate"
    <3>1. j + 1 \in DOMAIN s /\ j + 1 < i /\ n[j] = s[j + 1]
      BY <1>2, <2>2
    <3> QED
      BY <1>3, <3>1
  <2>3. Deferred(n, p)
    BY <1>3, <2>1, <2>2 DEF Deferred
  <2> QED
    BY <1>1, <1>4, <2>3
<1> QED
  BY <1>5, <1>6

LEMMA WaitingFlushed ==
  ASSUME NEW s \in Seq(Callback), ~Initiates(s), NEW w \in Seq(Event), NEW p, Waiting(w, p),
         NEW t \in Seq(Callback), DOMAIN t = DOMAIN w,
         \A i \in DOMAIN t : t[i].op = "send" /\ t[i].msg = w[i]
  PROVE  Deferred(s \o t, p)
<1>1. PICK n \in Seq(Callback) : n = s \o t
  BY ConcatType
<1>2. PICK k \in DOMAIN w : w[k].kind = "join" /\ w[k].player = p
  BY DEF Waiting
<1>3. /\ Len(s) \in Nat /\ DOMAIN s = 1..Len(s) /\ Len(t) \in Nat /\ DOMAIN t = 1..Len(t)
      /\ DOMAIN n = 1..(Len(s) + Len(t))
      /\ \A i \in 1..(Len(s) + Len(t)) : n[i] = IF i <= Len(s) THEN s[i] ELSE t[i - Len(s)]
  BY <1>1
<1>4. k \in Nat /\ k >= 1 /\ Len(s) + k \in DOMAIN n /\ n[Len(s) + k] = t[k]
  <2>1. k \in 1..Len(t)
    BY <1>3
  <2>2. k \in Nat /\ k >= 1 /\ Len(s) + k \in DOMAIN n /\ ~(Len(s) + k <= Len(s)) /\ (Len(s) + k) - Len(s) = k
    BY <1>3, <2>1
  <2> QED
    BY <1>3, <2>2
<1>5. ASSUME NEW j \in DOMAIN n PROVE n[j].op # "initiate"
  <2>1. CASE j <= Len(s)
    <3>1. j \in DOMAIN s /\ n[j] = s[j]
      BY <1>3, <2>1
    <3> QED
      BY <3>1 DEF Initiates
  <2>2. CASE ~(j <= Len(s))
    <3>1. j - Len(s) \in DOMAIN t /\ n[j] = t[j - Len(s)]
      BY <1>3, <2>2
    <3> QED
      BY <3>1
  <2> QED
    BY <2>1, <2>2
<1> QED
  BY <1>1, <1>2, <1>4, <1>5 DEF Deferred

\* What the network's thread queues when it receives a message.
LEMMA Received ==
  ASSUME TypeOK, Receive
  PROVE  /\ toGame # <<>> /\ toGame' = Tail(toGame)
         /\ UNCHANGED <<state, pc, running, whenConnected, conn, toApi, greeted, apiPlayers, players, opens, map>>
         /\ \/ UNCHANGED queue
            \/ \E c \in Callback : c.op \in {"complete", "execute"} /\ queue' = Append(queue, c)
<1> DEFINE msg == Head(toGame)
<1>1. msg \in Message /\ toGame # <<>>
  BY DEF Receive, TypeOK
<1>2. CASE state = "HandshakeInitiated" /\ msg.kind = "hello"
  <2>1. PICK c : c = [op |-> "complete", map |-> msg.map]
    OBVIOUS
  <2>2. c \in Callback /\ c.op = "complete"
    BY <1>1, <1>2, <2>1, Kinds DEF Callback
  <2>3. queue' = Append(queue, c)
    BY <1>2, <2>1 DEF Receive
  <2> QED
    BY <2>2, <2>3 DEF Receive, apiVars, gameVars
<1>3. CASE Sends /\ msg.kind # "hello"
  <2>1. PICK c : c = [op |-> "execute", msg |-> msg]
    OBVIOUS
  <2>2. c \in Callback /\ c.op = "execute"
    BY <1>1, <1>3, <2>1, Kinds DEF Callback
  <2>3. queue' = Append(queue, c)
    BY <1>3, <2>1 DEF Receive, Sends
  <2> QED
    BY <2>2, <2>3 DEF Receive, apiVars, gameVars
<1>4. CASE ~(state = "HandshakeInitiated" /\ msg.kind = "hello") /\ ~(Sends /\ msg.kind # "hello")
  BY <1>4 DEF Receive, apiVars, gameVars
<1> QED
  BY <1>2, <1>3, <1>4

------------------------------------------------------------------------------
(* The invariant of the players. *)

\* Only a player's joining, his times and the records are put off.
PutOff == {"join", "pbs", "record"}
Plain(s) == \A i \in DOMAIN s : s[i].op = "send" => s[i].msg.kind \in PutOff
Deferrals ==
  /\ Plain(queue) /\ Plain(running)
  /\ \A i \in DOMAIN whenConnected : whenConnected[i].kind \in PutOff

\* The API answers after the hello; and the handshake of this connection is
\* completed, or will be, only once it has been made, unless a callback that
\* greets the API comes after.
Greeted ==
  /\ toGame # <<>> => greeted
  /\ conn = "open" =>
       /\ Completes(queue) => greeted
       /\ Completes(running) /\ ~Initiates(queue) => greeted
       /\ Sends /\ pc # "hello" /\ ~Initiates(running) /\ ~Initiates(queue) => greeted

\* A message that waits will be sent by a frame that no InitiateHandshake
\* precedes, and one that is being sent has none before it.
Waits(p) ==
  /\ Waiting(whenConnected, p)
  /\ Initiates(queue) => ~Completes(running) /\ (Sends /\ pc # "hello" => Initiates(running))
Follows(p) == Sends /\ pc = "idle" /\ Deferred(running, p)
Known(p) == Reaches(toApi, greeted, apiPlayers, p) \/ Waits(p) \/ Follows(p)

Hears == conn = "open" /\ ~NoHello
AllKnown ==
  Hears => /\ state \in {"Connected", "HandshakeInitiated", "HandshakeCompleted"} /\ pc # "init"
           /\ \A p \in players : Known(p)

PlayersInv == HelloInv /\ Deferrals /\ Greeted /\ AllKnown

LEMMA PlainAppended ==
  ASSUME NEW s \in Seq(Callback), NEW c \in Callback, Plain(s), c.op = "send" => c.msg.kind \in PutOff
  PROVE  Plain(Append(s, c))
<1>1. PICK n : n = Append(s, c)
  OBVIOUS
<1>2. /\ Len(s) \in Nat /\ DOMAIN s = 1..Len(s) /\ DOMAIN n = 1..(Len(s) + 1)
      /\ n[Len(s) + 1] = c /\ \A i \in 1..Len(s) : n[i] = s[i]
  BY <1>1
<1>3. Plain(n)
  BY <1>2 DEF Plain
<1> QED
  BY <1>1, <1>3

LEMMA PlainTaken ==
  ASSUME NEW s \in Seq(Callback), s # <<>>, Plain(s)
  PROVE  Plain(Tail(s)) /\ (Head(s).op = "send" => Head(s).msg.kind \in PutOff)
<1>1. PICK n : n = Tail(s)
  OBVIOUS
<1>2. /\ DOMAIN s = 1..Len(s) /\ Len(s) \in Nat /\ Len(s) >= 1 /\ s[1] = Head(s)
      /\ DOMAIN n = 1..(Len(s) - 1) /\ \A i \in 1..(Len(s) - 1) : n[i] = s[i + 1]
  BY <1>1
<1>3. \A i \in DOMAIN n : i + 1 \in DOMAIN s /\ n[i] = s[i + 1]
  BY <1>2
<1>4. Plain(n)
  BY <1>3 DEF Plain
<1>5. 1 \in DOMAIN s
  BY <1>2
<1> QED
  BY <1>1, <1>2, <1>4, <1>5 DEF Plain

LEMMA WaitAppended ==
  ASSUME NEW w \in Seq(Event), NEW msg \in Event
  PROVE  /\ \A p : Waiting(w, p) \/ (msg.kind = "join" /\ msg.player = p) => Waiting(Append(w, msg), p)
         /\ (\A i \in DOMAIN w : w[i].kind \in PutOff) /\ msg.kind \in PutOff =>
              \A i \in DOMAIN Append(w, msg) : Append(w, msg)[i].kind \in PutOff
<1>1. PICK n : n = Append(w, msg)
  OBVIOUS
<1>2. /\ Len(w) \in Nat /\ DOMAIN w = 1..Len(w) /\ DOMAIN n = 1..(Len(w) + 1)
      /\ n[Len(w) + 1] = msg /\ \A i \in 1..Len(w) : n[i] = w[i]
  BY <1>1
<1>3. \A p : Waiting(w, p) \/ (msg.kind = "join" /\ msg.player = p) => Waiting(n, p)
  BY <1>2 DEF Waiting
<1>4. (\A i \in DOMAIN w : w[i].kind \in PutOff) /\ msg.kind \in PutOff =>
        \A i \in DOMAIN n : n[i].kind \in PutOff
  BY <1>2
<1> QED
  BY <1>1, <1>3, <1>4

\* The callbacks a frame takes.
LEMMA Taken ==
  ASSUME TypeOK, Deferrals, OnServerGamePostSimulate
  PROVE  \E t \in Seq(Callback) :
           /\ running' = queue \o t /\ Plain(t)
           /\ \A i \in DOMAIN t : t[i].op = "send"
           /\ Sends => DOMAIN t = DOMAIN whenConnected /\ \A i \in DOMAIN t : t[i].msg = whenConnected[i]
           /\ ~Sends => t = <<>>
<1> DEFINE waited == IF Sends THEN whenConnected ELSE <<>>
           sends  == [i \in DOMAIN waited |-> [op |-> "send", msg |-> waited[i]]]
<1>1. waited \in Seq(Event) /\ \A i \in DOMAIN waited : waited[i].kind \in PutOff
  BY DEF TypeOK, Deferrals
<1>2. \A i \in DOMAIN waited : [op |-> "send", msg |-> waited[i]] \in Callback
  BY <1>1 DEF Callback
<1>3. DOMAIN waited = 1..Len(waited) /\ Len(waited) \in Nat
  BY <1>1
<1>4. sends \in [1..Len(waited) -> Callback]
  BY <1>2, <1>3
<1>5. sends \in Seq(Callback)
  <2> HIDE DEF sends
  <2> QED
    BY <1>3, <1>4, SequenceOf
<1>6. /\ \A i \in DOMAIN sends : sends[i].op = "send" /\ sends[i].msg = waited[i]
      /\ DOMAIN sends = DOMAIN waited
  OBVIOUS
<1>7. Plain(sends)
  BY <1>1, <1>6 DEF Plain
<1>8. running' = queue \o sends
  BY DEF OnServerGamePostSimulate
<1>9. Sends => DOMAIN sends = DOMAIN whenConnected /\ \A i \in DOMAIN sends : sends[i].msg = whenConnected[i]
  BY <1>6
<1>10. ~Sends => sends = <<>>
  <2> SUFFICES ASSUME ~Sends PROVE sends = <<>>
    OBVIOUS
  <2>1. Len(waited) = 0 /\ DOMAIN sends = {}
    BY <1>6
  <2> HIDE DEF sends
  <2> QED
    BY <1>5, <2>1
<1> HIDE DEF sends
<1> QED
  BY <1>5, <1>6, <1>7, <1>8, <1>9, <1>10

LEMMA PlainJoined ==
  ASSUME NEW s \in Seq(Callback), NEW t \in Seq(Callback), Plain(s), Plain(t)
  PROVE  Plain(s \o t)
<1>1. PICK n : n = s \o t
  OBVIOUS
<1>2. /\ Len(s) \in Nat /\ Len(t) \in Nat /\ DOMAIN s = 1..Len(s) /\ DOMAIN t = 1..Len(t)
      /\ DOMAIN n = 1..(Len(s) + Len(t))
      /\ \A i \in 1..(Len(s) + Len(t)) : n[i] = IF i <= Len(s) THEN s[i] ELSE t[i - Len(s)]
  BY <1>1
<1>3. ASSUME NEW i \in DOMAIN n, n[i].op = "send" PROVE n[i].msg.kind \in PutOff
  <2>1. CASE i <= Len(s)
    <3>1. i \in DOMAIN s /\ n[i] = s[i]
      BY <1>2, <2>1
    <3> QED
      BY <1>3, <3>1 DEF Plain
  <2>2. CASE ~(i <= Len(s))
    <3>1. i - Len(s) \in DOMAIN t /\ n[i] = t[i - Len(s)]
      BY <1>2, <2>2
    <3> QED
      BY <1>3, <3>1 DEF Plain
  <2> QED
    BY <2>1, <2>2
<1> QED
  BY <1>1, <1>3 DEF Plain

LEMMA WaitDeferrals ==
  ASSUME TypeOK, Deferrals, NEW msg \in Event, msg.kind \in PutOff, SendOrWait(msg)
  PROVE  \A i \in DOMAIN whenConnected' : whenConnected'[i].kind \in PutOff
<1>1. whenConnected \in Seq(Event) /\ \A i \in DOMAIN whenConnected : whenConnected[i].kind \in PutOff
  BY DEF TypeOK, Deferrals
<1>2. whenConnected' = whenConnected \/ whenConnected' = Append(whenConnected, msg)
  BY DEF SendOrWait
<1> QED
  BY <1>1, <1>2, WaitAppended

LEMMA DeferralStep ==
  ASSUME TypeOK, Deferrals, [Next]_vars
  PROVE  Deferrals'
<1>1. queue \in Seq(Callback) /\ running \in Seq(Callback) /\ Plain(queue) /\ Plain(running)
      /\ \A i \in DOMAIN whenConnected : whenConnected[i].kind \in PutOff
  BY DEF TypeOK, Deferrals
<1> DEFINE Same == UNCHANGED <<queue, running, whenConnected>>
<1>2. Same => Deferrals'
  BY <1>1 DEF Deferrals
<1>3. ASSUME NEW m \in Maps, OnActivateServer(m) PROVE Deferrals'
  BY <1>2, <1>3 DEF OnActivateServer
<1>4. ASSUME NEW p \in Players, OnPlayerAuthorized(p) PROVE Deferrals'
  <2>1. [kind |-> "join", player |-> p] \in Event /\ [kind |-> "join", player |-> p].kind \in PutOff
    BY DEF Event, PutOff
  <2>2. \A i \in DOMAIN whenConnected' : whenConnected'[i].kind \in PutOff
    BY <1>4, <2>1, WaitDeferrals DEF OnPlayerAuthorized
  <2> QED
    BY <1>1, <1>4, <2>2 DEF OnPlayerAuthorized, Deferrals
<1>5. ASSUME NEW p \in Players, OnClientDisconnect(p) PROVE Deferrals'
  BY <1>2, <1>5 DEF OnClientDisconnect
<1>6. ASSUME NEW r \in Records, SubmitRecord(r) PROVE Deferrals'
  <2>1. PICK c : c = [op |-> "send", msg |-> [kind |-> "record", record |-> r]]
    OBVIOUS
  <2>2. c \in Callback /\ c.msg.kind \in PutOff
    BY <2>1 DEF Callback, Event, PutOff
  <2>3. queue' = queue \/ queue' = Append(queue, c)
    BY <1>6, <2>1 DEF SubmitRecord
  <2>4. Plain(queue')
    BY <1>1, <2>2, <2>3, PlainAppended
  <2> QED
    BY <1>1, <1>6, <2>4 DEF SubmitRecord, Deferrals
<1>7. CASE InitReturns \/ HandshakeInitiated
  BY <1>2, <1>7 DEF InitReturns, HandshakeInitiated
<1>8. CASE OnServerGamePostSimulate
  <2>1. PICK t \in Seq(Callback) : running' = queue \o t /\ Plain(t)
    BY <1>8, Taken
  <2>2. Plain(running')
    BY <1>1, <2>1, PlainJoined
  <2>3. queue' = <<>> /\ (whenConnected' = <<>> \/ whenConnected' = whenConnected)
    BY <1>8 DEF OnServerGamePostSimulate
  <2> QED
    BY <1>1, <2>2, <2>3 DEF Deferrals, Plain
<1>9. ASSUME running # <<>>, running' = Tail(running), UNCHANGED <<queue, whenConnected>> PROVE Deferrals'
  BY <1>1, <1>9, PlainTaken DEF Deferrals
<1>10. CASE InitiateHandshake \/ CompleteHandshake \/ DeferredSend
  BY <1>9, <1>10 DEF InitiateHandshake, CompleteHandshake, DeferredSend, Runs
<1>11. CASE ExecuteMessageCallback
  <2>1. running # <<>> /\ running' = Tail(running) /\ UNCHANGED queue
    BY <1>11 DEF ExecuteMessageCallback, Runs
  <2>2. CASE UNCHANGED whenConnected
    BY <1>9, <2>1, <2>2
  <2>3. CASE ~UNCHANGED whenConnected
    <3>1. PICK p \in Players : SendOrWait([kind |-> "pbs", player |-> p])
      BY <1>11, <2>3 DEF ExecuteMessageCallback, TypeOK
    <3>2. [kind |-> "pbs", player |-> p] \in Event /\ [kind |-> "pbs", player |-> p].kind \in PutOff
      BY DEF Event, PutOff
    <3>3. \A i \in DOMAIN whenConnected' : whenConnected'[i].kind \in PutOff
      BY <3>1, <3>2, WaitDeferrals
    <3> QED
      BY <1>1, <2>1, <3>3, PlainTaken DEF Deferrals
  <2> QED
    BY <2>2, <2>3
<1>12. ASSUME NEW c \in Callback, c.op # "send", queue' = Append(queue, c), UNCHANGED <<running, whenConnected>>
       PROVE  Deferrals'
  BY <1>1, <1>12, PlainAppended DEF Deferrals
<1>13. CASE Open
  <2>1. PICK c : c = [op |-> "initiate"]
    OBVIOUS
  <2>2. c \in Callback /\ c.op # "send"
    BY <2>1 DEF Callback
  <2> QED
    BY <1>12, <1>13, <2>1, <2>2 DEF Open
<1>14. CASE Close \/ Error
  BY <1>2, <1>14 DEF Close, Error, Ends
<1>15. CASE Receive
  BY <1>2, <1>12, <1>15, Received
<1>16. CASE ApiReads
  BY <1>2, <1>16 DEF ApiReads
<1>17. CASE UNCHANGED vars
  BY <1>2, <1>17 DEF vars
<1> QED
  BY <1>3, <1>4, <1>5, <1>6, <1>7, <1>8, <1>10, <1>11, <1>13, <1>14, <1>15, <1>16, <1>17 DEF Next, GameThread

LEMMA GreetedStep ==
  ASSUME HelloInv, Deferrals, Greeted, [Next]_vars
  PROVE  Greeted'
<1>1. queue \in Seq(Callback) /\ running \in Seq(Callback)
  BY DEF HelloInv, TypeOK
<1>2. ASSUME UNCHANGED <<queue, running, conn, greeted, toGame>>,
             state' = "HandshakeCompleted" /\ pc' # "hello" => Sends /\ pc # "hello"
      PROVE  Greeted'
  BY <1>2 DEF Greeted, Sends
<1>3. ASSUME NEW m \in Maps, OnActivateServer(m) PROVE Greeted'
  BY <1>2, <1>3 DEF OnActivateServer, apiVars, Idle, Sends
<1>4. ASSUME NEW p \in Players, OnPlayerAuthorized(p) \/ OnClientDisconnect(p) PROVE Greeted'
  BY <1>2, <1>4 DEF OnPlayerAuthorized, OnClientDisconnect, apiVars, Sends
<1>5. ASSUME NEW r \in Records, SubmitRecord(r) PROVE Greeted'
  <2>1. PICK c : c = [op |-> "send", msg |-> [kind |-> "record", record |-> r]]
    OBVIOUS
  <2>2. c \in Callback /\ c.op = "send"
    BY <2>1 DEF Callback, Event
  <2>3. queue' = queue \/ queue' = Append(queue, c)
    BY <1>5, <2>1 DEF SubmitRecord
  <2>4. (Initiates(queue') <=> Initiates(queue)) /\ (Completes(queue') <=> Completes(queue))
    BY <1>1, <2>2, <2>3, CallbackAppended, ZenonT(60)
  <2> QED
    BY <1>5, <2>4 DEF SubmitRecord, apiVars, Greeted, Sends
<1>6. CASE InitReturns \/ HandshakeInitiated
  BY <1>2, <1>6 DEF InitReturns, HandshakeInitiated, netVars, apiVars
<1>7. CASE OnServerGamePostSimulate
  <2>1. PICK t \in Seq(Callback) : running' = queue \o t /\ \A i \in DOMAIN t : t[i].op = "send"
    BY <1>7, Taken DEF HelloInv
  <2>2. (Initiates(running') <=> Initiates(queue)) /\ (Completes(running') <=> Completes(queue))
    BY <1>1, <2>1, CallbacksJoined
  <2>3. queue' = <<>> /\ running = <<>> /\ UNCHANGED <<state, pc, conn, greeted, toGame>>
    BY <1>7 DEF OnServerGamePostSimulate, Idle, netVars, apiVars
  <2> QED
    BY <2>2, <2>3, NoCallbacks DEF Greeted, Sends
<1>8. CASE InitiateHandshake
  <2>1. running # <<>> /\ running' = Tail(running) /\ pc' = "hello" /\ UNCHANGED <<queue, conn, greeted, toGame>>
    BY <1>8 DEF InitiateHandshake, Runs, apiVars
  <2> QED
    BY <1>1, <2>1, CallbackTaken DEF Greeted
<1>9. CASE CompleteHandshake
  <2>1. running # <<>> /\ running' = Tail(running) /\ Head(running).op = "complete"
        /\ UNCHANGED <<queue, conn, greeted, toGame>>
    BY <1>9 DEF CompleteHandshake, Runs, netVars, apiVars
  <2> QED
    BY <1>1, <2>1, CallbackTaken DEF Greeted
<1>10. CASE ExecuteMessageCallback \/ DeferredSend
  <2>1. running # <<>> /\ running' = Tail(running) /\ Head(running).op \notin {"initiate", "complete"}
        /\ UNCHANGED <<queue, conn, greeted, toGame, state, pc>>
    BY <1>10 DEF ExecuteMessageCallback, DeferredSend, Runs, apiVars
  <2>2. (Initiates(running') <=> Initiates(running)) /\ (Completes(running') <=> Completes(running))
    BY <1>1, <2>1, CallbackTaken
  <2> QED
    BY <2>1, <2>2 DEF Greeted, Sends
<1>11. CASE Open
  <2>1. PICK c : c = [op |-> "initiate"]
    OBVIOUS
  <2>2. c \in Callback /\ c.op = "initiate"
    BY <2>1 DEF Callback
  <2>3. queue' = Append(queue, c) /\ toGame' = <<>>
    BY <1>11, <2>1 DEF Open
  <2>4. Initiates(queue') /\ ~Completes(queue')
    BY <1>1, <2>2, <2>3, CallbackAppended
  <2> QED
    BY <2>3, <2>4 DEF Greeted
<1>12. CASE Close
  BY <1>12 DEF Close, Greeted
<1>13. CASE Error
  BY <1>13 DEF Error, Ends, MayConnect, apiVars, Greeted
<1>14. CASE Receive
  BY <1>14 DEF Receive, apiVars, Greeted
<1>15. CASE ApiReads
  BY <1>15 DEF ApiReads, Greeted, Sends
<1>16. CASE UNCHANGED vars
  BY <1>2, <1>16 DEF vars, netVars, apiVars, Sends
<1> QED
  BY <1>3, <1>4, <1>5, <1>6, <1>7, <1>8, <1>9, <1>10, <1>11, <1>12, <1>13, <1>14, <1>15, <1>16
  DEF Next, GameThread

\* A message that is sent keeps known whom it does not announce to leave.
LEMMA SendKeeps ==
  ASSUME TypeOK, NEW msg \in Event, SendMessage(msg), UNCHANGED <<greeted, apiPlayers>>
  PROVE  /\ NoHello => NoHello'
         /\ \A p : ~Leaves(msg, p) /\ Reaches(toApi, greeted, apiPlayers, p) =>
              Reaches(toApi', greeted', apiPlayers', p)
<1>1. toApi \in Seq(Message) /\ msg \in Message /\ msg.kind # "hello"
  BY Kinds DEF TypeOK, Message
<1>2. toApi' = toApi \/ toApi' = Append(toApi, msg)
  BY DEF SendMessage, Give
<1>3. NoHello => NoHello'
  <2>1. CASE toApi' = toApi
    BY <2>1 DEF NoHello
  <2>2. CASE toApi' = Append(toApi, msg)
    <3>1. PICK n : n = toApi'
      OBVIOUS
    <3>2. /\ Len(toApi) \in Nat /\ DOMAIN toApi = 1..Len(toApi) /\ DOMAIN n = 1..(Len(toApi) + 1)
          /\ n[Len(toApi) + 1] = msg /\ \A i \in 1..Len(toApi) : n[i] = toApi[i]
      BY <1>1, <2>2, <3>1
    <3>3. (\A i \in DOMAIN toApi : toApi[i].kind # "hello") => \A i \in DOMAIN n : n[i].kind # "hello"
      BY <1>1, <3>2
    <3> QED
      BY <3>1, <3>3 DEF NoHello
  <2> QED
    BY <1>2, <2>1, <2>2
<1>4. ASSUME NEW p, ~Leaves(msg, p), Reaches(toApi, greeted, apiPlayers, p)
      PROVE  Reaches(toApi', greeted', apiPlayers', p)
  BY <1>1, <1>2, <1>4, MessageAppended
<1> QED
  BY <1>3, <1>4

\* A player's joining that is sent reaches an API that hears.
LEMMA SendTells ==
  ASSUME TypeOK, Hears, Sends, NEW msg \in Event, SendMessage(msg), NEW p, Tells(msg, p),
         UNCHANGED <<greeted, apiPlayers>>
  PROVE  Reaches(toApi', greeted', apiPlayers', p)
<1>1. toApi \in Seq(Message) /\ msg \in Message
  BY DEF TypeOK, Message
<1>2. toApi' = Append(toApi, msg)
  BY DEF SendMessage, Give, Hears
<1>3. greeted \/ \E h \in DOMAIN toApi : toApi[h].kind = "hello"
  BY DEF Hears, NoHello
<1> QED
  BY <1>1, <1>2, <1>3, MessageTells

\* A step that leaves the handshake and the order of the callbacks alone.
LEMMA StaysKnown ==
  ASSUME NEW p, Known(p), UNCHANGED <<state, pc>>,
         Reaches(toApi, greeted, apiPlayers, p) => Reaches(toApi', greeted', apiPlayers', p),
         Initiates(queue') <=> Initiates(queue),
         Initiates(running') <=> Initiates(running),
         Completes(running') <=> Completes(running),
         Waiting(whenConnected, p) => Waiting(whenConnected', p),
         Sends /\ Deferred(running, p) =>
           Deferred(running', p) \/ Reaches(toApi', greeted', apiPlayers', p)
  PROVE  Known(p)'
<1>1. CASE Reaches(toApi, greeted, apiPlayers, p)
  BY <1>1 DEF Known
<1>2. CASE Waits(p)
  <2>1. Waits(p)'
    BY <1>2 DEF Waits, Sends
  <2> QED
    BY <2>1 DEF Known
<1>3. CASE Follows(p)
  <2>1. Reaches(toApi', greeted', apiPlayers', p) \/ Follows(p)'
    BY <1>3 DEF Follows, Sends
  <2> QED
    BY <2>1 DEF Known
<1> QED
  BY <1>1, <1>2, <1>3 DEF Known

LEMMA KnownStep ==
  ASSUME PlayersInv, [Next]_vars
  PROVE  AllKnown'
<1>1. TypeOK /\ HelloInv /\ Deferrals /\ AllKnown /\ queue \in Seq(Callback) /\ running \in Seq(Callback)
      /\ whenConnected \in Seq(Event) /\ toApi \in Seq(Message)
  BY DEF PlayersInv, HelloInv, TypeOK
<1>2. ASSUME Hears, pc = "idle" PROVE state \in {"HandshakeInitiated", "HandshakeCompleted"}
  BY <1>1, <1>2 DEF AllKnown, HelloInv, Hears
<1>3. ASSUME UNCHANGED <<conn, toApi, greeted>> PROVE Hears' <=> Hears
  BY <1>3 DEF Hears, NoHello
<1>4. ASSUME NEW msg \in Event, SendMessage(msg), UNCHANGED <<greeted, apiPlayers, conn>>
      PROVE  Hears' => Hears
  <2>1. NoHello => NoHello'
    BY <1>1, <1>4, SendKeeps
  <2> QED
    BY <1>4, <2>1 DEF Hears
<1>5. ASSUME NEW p, Hears, p \in players PROVE Known(p)
  BY <1>1, <1>5 DEF AllKnown
<1>6. ASSUME Hears' => Hears, UNCHANGED <<state, pc>>, \A p \in players' : Hears => Known(p)' PROVE AllKnown'
  BY <1>1, <1>6 DEF AllKnown
<1> DEFINE Same == UNCHANGED <<state, pc, queue, running, whenConnected, toApi, greeted, apiPlayers>>
<1>7. ASSUME Same, UNCHANGED <<players, conn>> PROVE AllKnown'
  <2>1. ASSUME NEW p, Hears, p \in players PROVE Known(p)'
    BY <1>5, <1>7, <2>1, StaysKnown
  <2> QED
    BY <1>3, <1>6, <1>7, <2>1
<1>8. ASSUME NEW m \in Maps, OnActivateServer(m) PROVE AllKnown'
  <2>1. pc = "idle" /\ UNCHANGED <<queue, running, whenConnected, greeted, apiPlayers, players, conn>>
    BY <1>8 DEF OnActivateServer, Idle, apiVars
  <2>2. CASE state = "Uninitialized"
    <3>1. ~Hears /\ UNCHANGED toApi
      BY <1>1, <1>8, <2>2 DEF OnActivateServer, AllKnown
    <3> QED
      BY <1>3, <2>1, <3>1 DEF AllKnown
  <2>3. CASE state # "Uninitialized"
    <3>1. PICK msg : msg = [kind |-> "map", map |-> m]
      OBVIOUS
    <3>2. msg \in Event /\ \A p : ~Leaves(msg, p)
      BY <3>1 DEF Event, Leaves
    <3>3. SendMessage(msg) /\ UNCHANGED <<state, pc>>
      BY <1>8, <2>3, <3>1 DEF OnActivateServer
    <3>4. ASSUME NEW p, Hears, p \in players PROVE Known(p)'
      <4>1. Reaches(toApi, greeted, apiPlayers, p) => Reaches(toApi', greeted', apiPlayers', p)
        BY <1>1, <2>1, <3>2, <3>3, SendKeeps
      <4> QED
        BY <1>5, <2>1, <3>3, <3>4, <4>1, StaysKnown
    <3> QED
      BY <1>4, <1>6, <2>1, <3>2, <3>3, <3>4
  <2> QED
    BY <2>2, <2>3
<1>9. ASSUME NEW q \in Players, OnPlayerAuthorized(q) PROVE AllKnown'
  <2>1. PICK msg : msg = [kind |-> "join", player |-> q]
    OBVIOUS
  <2>2. msg \in Event /\ Tells(msg, q) /\ \A p : ~Leaves(msg, p)
    BY <2>1 DEF Event, Leaves, Tells
  <2>3. /\ SendMessage(msg) /\ SendOrWait(msg) /\ pc = "idle" /\ running = <<>> /\ players' = players \cup {q}
        /\ UNCHANGED <<state, pc, queue, running, greeted, apiPlayers, conn>>
    BY <1>9, <2>1 DEF OnPlayerAuthorized, SendOrWait, Idle, apiVars
  <2>4. \A p : Waiting(whenConnected, p) => Waiting(whenConnected', p)
    BY <1>1, <2>2, <2>3, WaitAppended DEF SendOrWait
  <2>5. ASSUME NEW p, Hears, p \in players PROVE Known(p)'
    <3>1. Reaches(toApi, greeted, apiPlayers, p) => Reaches(toApi', greeted', apiPlayers', p)
      BY <1>1, <2>2, <2>3, SendKeeps
    <3> QED
      BY <1>5, <2>3, <2>4, <2>5, <3>1, StaysKnown
  <2>6. ASSUME Hears PROVE Known(q)'
    <3>1. state \in {"HandshakeInitiated", "HandshakeCompleted"}
      BY <1>2, <2>3, <2>6
    <3>2. CASE state = "HandshakeCompleted"
      <4>1. Reaches(toApi', greeted', apiPlayers', q)
        BY <1>1, <2>2, <2>3, <2>6, <3>2, SendTells DEF Sends
      <4> QED
        BY <4>1 DEF Known
    <3>3. CASE state = "HandshakeInitiated"
      <4>1. whenConnected' = Append(whenConnected, msg)
        BY <2>3, <3>3 DEF SendOrWait
      <4>2. Waiting(whenConnected', q)
        BY <1>1, <2>1, <2>2, <4>1, WaitAppended
      <4>3. ~Completes(running')
        BY <2>3, NoCallbacks
      <4>4. Waits(q)'
        BY <2>3, <3>3, <4>2, <4>3 DEF Waits, Sends
      <4> QED
        BY <4>4 DEF Known
    <3> QED
      BY <3>1, <3>2, <3>3
  <2>7. Hears' => Hears
    BY <1>4, <2>2, <2>3
  <2> QED
    BY <1>6, <2>3, <2>5, <2>6, <2>7
<1>10. ASSUME NEW q \in Players, OnClientDisconnect(q) PROVE AllKnown'
  <2>1. PICK msg : msg = [kind |-> "leave", player |-> q]
    OBVIOUS
  <2>2. msg \in Event /\ \A p : Leaves(msg, p) => p = q
    BY <2>1 DEF Event, Leaves
  <2>3. /\ SendMessage(msg) /\ players' = players \ {q}
        /\ UNCHANGED <<state, pc, queue, running, whenConnected, greeted, apiPlayers, conn>>
    BY <1>10, <2>1 DEF OnClientDisconnect, apiVars
  <2>4. ASSUME NEW p, Hears, p \in players, p # q PROVE Known(p)'
    <3>1. Reaches(toApi, greeted, apiPlayers, p) => Reaches(toApi', greeted', apiPlayers', p)
      BY <1>1, <2>2, <2>3, <2>4, SendKeeps
    <3> QED
      BY <1>5, <2>3, <2>4, <3>1, StaysKnown
  <2> QED
    BY <1>4, <1>6, <2>2, <2>3, <2>4
<1>11. ASSUME NEW r \in Records, SubmitRecord(r) PROVE AllKnown'
  <2>1. PICK msg : msg = [kind |-> "record", record |-> r]
    OBVIOUS
  <2>2. msg \in Event /\ \A p : ~Leaves(msg, p)
    BY <2>1 DEF Event, Leaves
  <2>3. UNCHANGED <<state, pc, running, whenConnected, greeted, apiPlayers, conn, players>>
    BY <1>11 DEF SubmitRecord, apiVars, gameVars
  <2>4. SendMessage(msg)
    <3>1. CASE Sends
      <4>1. Give(msg)
        BY <1>11, <2>1, <3>1 DEF SubmitRecord, Sends
      <4> QED
        BY <3>1, <4>1 DEF SendMessage
    <3>2. CASE ~Sends
      <4>1. toApi' = toApi
        BY <1>11, <3>2 DEF SubmitRecord
      <4> QED
        BY <3>2, <4>1 DEF SendMessage
    <3> QED
      BY <3>1, <3>2
  <2>5. Initiates(queue') <=> Initiates(queue)
    <3>1. PICK c : c = [op |-> "send", msg |-> msg]
      OBVIOUS
    <3>2. c \in Callback /\ c.op = "send"
      BY <2>2, <3>1 DEF Callback
    <3>3. queue' = queue \/ queue' = Append(queue, c)
      BY <1>11, <2>1, <3>1 DEF SubmitRecord
    <3> QED
      BY <1>1, <3>2, <3>3, CallbackAppended
  <2>6. ASSUME NEW p, Hears, p \in players PROVE Known(p)'
    <3>1. Reaches(toApi, greeted, apiPlayers, p) => Reaches(toApi', greeted', apiPlayers', p)
      BY <1>1, <2>2, <2>3, <2>4, SendKeeps
    <3> QED
      BY <1>5, <2>3, <2>5, <2>6, <3>1, StaysKnown
  <2> QED
    BY <1>4, <1>6, <2>2, <2>3, <2>4, <2>6
<1>12. CASE InitReturns
  <2>1. ~Hears
    BY <1>1, <1>12 DEF InitReturns, AllKnown
  <2> QED
    BY <1>3, <1>12, <2>1 DEF InitReturns, netVars, apiVars, AllKnown
<1>13. CASE OnServerGamePostSimulate
  <2>1. /\ pc = "idle" /\ running = <<>> /\ queue' = <<>> /\ (~Sends => whenConnected' = whenConnected)
        /\ UNCHANGED <<state, pc, toApi, greeted, apiPlayers, conn, players>>
    BY <1>13 DEF OnServerGamePostSimulate, Idle, netVars, apiVars, gameVars
  <2>2. PICK t \in Seq(Callback) :
          /\ running' = queue \o t /\ \A i \in DOMAIN t : t[i].op = "send"
          /\ Sends => DOMAIN t = DOMAIN whenConnected /\ \A i \in DOMAIN t : t[i].msg = whenConnected[i]
    BY <1>1, <1>13, Taken
  <2>3. ASSUME NEW p, Hears, p \in players PROVE Known(p)'
    <3>1. CASE Reaches(toApi, greeted, apiPlayers, p)
      BY <2>1, <3>1 DEF Known
    <3>2. CASE Waits(p) /\ Sends
      <4>1. ~Initiates(queue)
        BY <2>1, <3>2, NoCallbacks DEF Waits
      <4>2. Waiting(whenConnected, p)
        BY <3>2 DEF Waits
      <4>3. Deferred(running', p)
        BY <1>1, <2>2, <3>2, <4>1, <4>2, WaitingFlushed
      <4>4. Follows(p)'
        BY <2>1, <3>2, <4>3 DEF Follows, Sends
      <4> QED
        BY <4>4 DEF Known
    <3>3. CASE Waits(p) /\ ~Sends
      <4>1. Waits(p)'
        BY <2>1, <3>3, NoCallbacks DEF Waits
      <4> QED
        BY <4>1 DEF Known
    <3>4. CASE Follows(p)
      BY <2>1, <3>4 DEF Follows, Deferred
    <3> QED
      BY <1>5, <2>3, <3>1, <3>2, <3>3, <3>4 DEF Known
  <2> QED
    BY <1>3, <1>6, <2>1, <2>3
<1>14. CASE InitiateHandshake
  <2>1. /\ running # <<>> /\ running' = Tail(running) /\ Head(running).op = "initiate" /\ pc' = "hello"
        /\ UNCHANGED <<state, queue, whenConnected, greeted, apiPlayers, conn, players>>
    BY <1>14 DEF InitiateHandshake, Runs, apiVars, gameVars
  <2>2. CASE state = "Connected"
    <3>1. PICK msg : msg = [kind |-> "hello", map |-> map, players |-> players]
      OBVIOUS
    <3>2. msg \in Message /\ msg.kind = "hello" /\ \A p \in players : Tells(msg, p)
      BY <1>1, <3>1 DEF Message, Hello, TypeOK, Tells
    <3>3. Give(msg)
      BY <1>14, <2>2, <3>1 DEF InitiateHandshake
    <3>4. ASSUME Hears', NEW p, p \in players PROVE Known(p)'
      <4>1. toApi' = Append(toApi, msg)
        BY <2>1, <3>3, <3>4 DEF Give, Hears
      <4>2. Reaches(toApi', greeted', apiPlayers', p)
        BY <1>1, <2>1, <3>2, <3>4, <4>1, MessageTells
      <4> QED
        BY <4>2 DEF Known
    <3> QED
      BY <2>1, <2>2, <3>4 DEF AllKnown
  <2>3. CASE state # "Connected"
    <3>1. UNCHANGED toApi
      BY <1>14, <2>3 DEF InitiateHandshake
    <3>2. ASSUME NEW p, Hears, p \in players PROVE Known(p)'
      <4>1. CASE Reaches(toApi, greeted, apiPlayers, p)
        BY <2>1, <3>1, <4>1 DEF Known
      <4>2. CASE Waits(p)
        <5>1. Completes(running') => Completes(running)
          BY <1>1, <2>1, CallbackTaken
        <5>2. Waits(p)'
          BY <2>1, <4>2, <5>1 DEF Waits
        <5> QED
          BY <5>2 DEF Known
      <4>3. CASE Follows(p)
        BY <1>1, <2>1, <4>3, DeferredTaken DEF Follows
      <4> QED
        BY <1>5, <3>2, <4>1, <4>2, <4>3 DEF Known
    <3> QED
      BY <1>1, <1>3, <2>1, <3>1, <3>2 DEF AllKnown
  <2> QED
    BY <2>2, <2>3
<1>15. CASE HandshakeInitiated
  <2>1. /\ pc = "hello" /\ pc' = "idle" /\ state' = "HandshakeInitiated"
        /\ UNCHANGED <<queue, running, whenConnected, toApi, greeted, apiPlayers, conn, players>>
    BY <1>15 DEF HandshakeInitiated, netVars, apiVars, gameVars
  <2>2. ASSUME NEW p, Hears, p \in players PROVE Known(p)'
    <3>1. CASE Reaches(toApi, greeted, apiPlayers, p)
      BY <2>1, <3>1 DEF Known
    <3>2. CASE Waits(p)
      <4>1. Waits(p)'
        BY <2>1, <3>2 DEF Waits, Sends
      <4> QED
        BY <4>1 DEF Known
    <3>3. CASE Follows(p)
      BY <2>1, <3>3 DEF Follows
    <3> QED
      BY <1>5, <2>2, <3>1, <3>2, <3>3 DEF Known
  <2> QED
    BY <1>3, <2>1, <2>2 DEF AllKnown
<1>16. CASE CompleteHandshake
  <2>1. /\ running # <<>> /\ running' = Tail(running) /\ Head(running).op = "complete" /\ pc = "idle"
        /\ state' = "HandshakeCompleted"
        /\ UNCHANGED <<pc, queue, whenConnected, toApi, greeted, apiPlayers, conn, players>>
    BY <1>16 DEF CompleteHandshake, Runs, netVars, apiVars, gameVars
  <2>2. /\ ~Completes(running) => ~Completes(running') /\ Initiates(running')
    BY <1>1, <2>1, CallbackTaken
  <2>3. ASSUME NEW p, Hears, p \in players PROVE Known(p)'
    <3>1. CASE Reaches(toApi, greeted, apiPlayers, p)
      BY <2>1, <3>1 DEF Known
    <3>2. CASE Waits(p)
      <4>1. Waits(p)'
        BY <2>1, <2>2, <3>2 DEF Waits
      <4> QED
        BY <4>1 DEF Known
    <3>3. CASE Follows(p)
      <4>1. Deferred(running', p)
        BY <1>1, <2>1, <3>3, DeferredTaken DEF Follows
      <4>2. Follows(p)'
        BY <2>1, <4>1 DEF Follows, Sends
      <4> QED
        BY <4>2 DEF Known
    <3> QED
      BY <1>5, <2>3, <3>1, <3>2, <3>3 DEF Known
  <2> QED
    BY <1>3, <2>1, <2>3 DEF AllKnown
<1>17. CASE ExecuteMessageCallback
  <2>1. /\ running # <<>> /\ running' = Tail(running) /\ Head(running).op = "execute"
        /\ UNCHANGED <<state, pc, queue, greeted, apiPlayers, conn, players>>
    BY <1>17 DEF ExecuteMessageCallback, Runs, apiVars, gameVars
  <2>2. (Initiates(running') <=> Initiates(running)) /\ (Completes(running') <=> Completes(running))
    BY <1>1, <2>1, CallbackTaken
  <2>3. \A p : Deferred(running, p) => Deferred(running', p)
    BY <1>1, <2>1, DeferredTaken
  <2>4. CASE UNCHANGED <<toApi, whenConnected>>
    <3>1. ASSUME NEW p, Hears, p \in players PROVE Known(p)'
      BY <1>5, <2>1, <2>2, <2>3, <2>4, <3>1, StaysKnown
    <3> QED
      BY <1>3, <1>6, <2>1, <2>4, <3>1
  <2>5. CASE ~UNCHANGED <<toApi, whenConnected>>
    <3>1. PICK q \in Players : SendOrWait([kind |-> "pbs", player |-> q])
      BY <1>1, <1>17, <2>5 DEF ExecuteMessageCallback, TypeOK
    <3>2. PICK msg : msg = [kind |-> "pbs", player |-> q]
      OBVIOUS
    <3>3. msg \in Event /\ SendOrWait(msg) /\ SendMessage(msg) /\ \A p : ~Leaves(msg, p)
      BY <3>1, <3>2 DEF Event, Leaves, SendOrWait
    <3>4. \A p : Waiting(whenConnected, p) => Waiting(whenConnected', p)
      BY <1>1, <3>3, WaitAppended DEF SendOrWait
    <3>5. ASSUME NEW p, Hears, p \in players PROVE Known(p)'
      <4>1. Reaches(toApi, greeted, apiPlayers, p) => Reaches(toApi', greeted', apiPlayers', p)
        BY <1>1, <2>1, <3>3, SendKeeps
      <4> QED
        BY <1>5, <2>1, <2>2, <2>3, <3>4, <3>5, <4>1, StaysKnown
    <3> QED
      BY <1>4, <1>6, <2>1, <3>3, <3>5
  <2> QED
    BY <2>4, <2>5
<1>18. CASE DeferredSend
  <2>1. PICK msg : msg = Head(running).msg
    OBVIOUS
  <2>2. /\ running # <<>> /\ running' = Tail(running) /\ Head(running).op = "send" /\ SendMessage(msg)
        /\ UNCHANGED <<state, pc, queue, whenConnected, greeted, apiPlayers, conn, players>>
    BY <1>18, <2>1 DEF DeferredSend, Runs, apiVars, gameVars
  <2>3. (Initiates(running') <=> Initiates(running)) /\ (Completes(running') <=> Completes(running))
    BY <1>1, <2>2, CallbackTaken
  <2>4. msg \in Event /\ \A p : ~Leaves(msg, p)
    <3>1. Head(running) \in Callback
      BY <1>1, <2>2
    <3>2. msg \in Event
      BY <2>1, <2>2, <3>1, Callbacks
    <3>3. msg.kind \in PutOff
      BY <1>1, <2>1, <2>2, PlainTaken DEF Deferrals
    <3> QED
      BY <3>2, <3>3 DEF PutOff, Leaves
  <2>5. ASSUME NEW p, Hears, p \in players PROVE Known(p)'
    <3>1. Reaches(toApi, greeted, apiPlayers, p) => Reaches(toApi', greeted', apiPlayers', p)
      BY <1>1, <2>2, <2>4, SendKeeps
    <3>2. ASSUME Sends, Deferred(running, p), ~Deferred(running', p)
          PROVE  Reaches(toApi', greeted', apiPlayers', p)
      <4>1. Tells(msg, p)
        BY <1>1, <2>1, <2>2, <3>2, DeferredTaken DEF Tells
      <4> QED
        BY <1>1, <2>2, <2>4, <2>5, <3>2, <4>1, SendTells
    <3> QED
      BY <1>5, <2>2, <2>3, <2>5, <3>1, <3>2, StaysKnown
  <2> QED
    BY <1>4, <1>6, <2>2, <2>4, <2>5
<1>19. CASE Open
  <2>1. ~Hears'
    BY <1>19 DEF Open, Hears, NoHello
  <2> QED
    BY <2>1 DEF AllKnown
<1>20. CASE Close \/ Error
  <2>1. ~Hears'
    BY <1>20 DEF Close, Error, MayConnect, Hears
  <2> QED
    BY <2>1 DEF AllKnown
<1>21. CASE Receive
  <2>1. UNCHANGED <<state, pc, running, whenConnected, conn, toApi, greeted, apiPlayers, players>>
        /\ (Initiates(queue') <=> Initiates(queue))
    BY <1>1, <1>21, Received, CallbackAppended, ZenonT(60)
  <2>2. ASSUME NEW p, Hears, p \in players PROVE Known(p)'
    BY <1>5, <2>1, <2>2, StaysKnown
  <2> QED
    BY <1>3, <1>6, <2>1, <2>2
<1>22. CASE ApiReads
  <2>1. PICK msg \in Message : toApi # <<>> /\ msg = Head(toApi)
    BY <1>1, <1>22 DEF ApiReads
  <2>2. PICK heard \in BOOLEAN : heard <=> greeted \/ msg.kind = "hello"
    OBVIOUS
  <2>3. /\ toApi' = Tail(toApi) /\ greeted' = heard
        /\ UNCHANGED <<state, pc, queue, running, whenConnected, conn, players>>
    BY <1>22, <2>1, <2>2 DEF ApiReads, gameVars
  <2>4. Len(toApi) \in Nat /\ Len(toApi) >= 1 /\ DOMAIN toApi = 1..Len(toApi) /\ toApi[1] = msg
    BY <1>1, <2>1
  <2>5. Hears' => Hears
    <3>1. SUFFICES ASSUME NoHello PROVE NoHello'
      BY <2>3 DEF Hears
    <3>2. ~heard
      BY <2>2, <2>4, <3>1 DEF NoHello
    <3>3. PICK n : n = Tail(toApi)
      OBVIOUS
    <3>4. \A i \in DOMAIN n : i + 1 \in DOMAIN toApi /\ n[i] = toApi[i + 1]
      BY <1>1, <2>4, <3>3
    <3>5. \A i \in DOMAIN n : n[i].kind # "hello"
      BY <3>1, <3>4 DEF NoHello
    <3> QED
      BY <2>3, <3>2, <3>3, <3>5 DEF NoHello
  <2>6. greeted => msg.kind # "hello"
    BY <1>1, <2>4 DEF HelloInv, OneHello
  <2>7. ASSUME NEW p, Hears, p \in players PROVE Known(p)'
    <3>1. heard /\ Tells(msg, p) => p \in apiPlayers'
      BY <1>22, <2>1, <2>2 DEF ApiReads, Tells
    <3>2. heard /\ msg.kind # "hello" /\ ~Leaves(msg, p) /\ p \in apiPlayers => p \in apiPlayers'
      BY <1>22, <2>1, <2>2 DEF ApiReads, Leaves
    <3>3. Reaches(toApi, greeted, apiPlayers, p) => Reaches(toApi', greeted', apiPlayers', p)
      <4>1. PICK b : b = apiPlayers'
        OBVIOUS
      <4>2. greeted \in BOOLEAN
        BY <1>1 DEF TypeOK
      <4>3. Reaches(toApi, greeted, apiPlayers, p) => Reaches(Tail(toApi), heard, b, p)
        BY <1>1, <2>1, <2>2, <2>6, <3>1, <3>2, <4>1, <4>2, MessageRead
      <4> QED
        BY <2>3, <4>1, <4>3
    <3> QED
      BY <1>5, <2>3, <2>7, <3>3, StaysKnown
  <2> QED
    BY <1>6, <2>3, <2>5, <2>7
<1>23. CASE UNCHANGED vars
  BY <1>7, <1>23 DEF vars, netVars, apiVars, gameVars
<1> QED
  BY <1>8, <1>9, <1>10, <1>11, <1>12, <1>13, <1>14, <1>15, <1>16, <1>17, <1>18, <1>19, <1>20, <1>21, <1>22, <1>23
  DEF Next, GameThread

LEMMA PlayersStart == Init => PlayersInv
<1> SUFFICES ASSUME Init PROVE PlayersInv
  OBVIOUS
<1>1. TypeOK
  BY TypeInit
<1>2. OneHello /\ state # "Connected"
  BY DEF Init, OneHello
<1>3. Deferrals
  BY DEF Init, Deferrals, Plain
<1>4. Greeted /\ AllKnown
  BY DEF Init, Greeted, AllKnown, Hears
<1> QED
  BY <1>1, <1>2, <1>3, <1>4 DEF PlayersInv, HelloInv

LEMMA PlayersStep ==
  ASSUME PlayersInv, [Next]_vars
  PROVE  PlayersInv'
<1>1. HelloInv' /\ Deferrals'
  BY HelloStep, DeferralStep DEF PlayersInv, HelloInv
<1>2. Greeted'
  BY GreetedStep DEF PlayersInv
<1>3. AllKnown'
  BY KnownStep
<1> QED
  BY <1>1, <1>2, <1>3 DEF PlayersInv

\* With nothing on its way, the API knows every player of the server, whether
\* they came before, during or after the handshake, or left and came back:
\* for any number of players, maps and connections, whatever callbacks earlier
\* connections left queued, and wherever the network's thread cuts in.
THEOREM PlayersAreKnown == Spec => []PlayersKnown
<1>1. Init => PlayersInv
  BY PlayersStart
<1>2. PlayersInv /\ [Next]_vars => PlayersInv'
  BY PlayersStep
<1>3. PlayersInv => PlayersKnown
  <2> SUFFICES ASSUME PlayersInv, Available PROVE players \subseteq apiPlayers
    BY DEF PlayersKnown
  <2>1. conn = "open" /\ Sends /\ pc = "idle" /\ running = <<>> /\ queue = <<>> /\ toApi = <<>>
        /\ whenConnected = <<>>
    BY DEF Available, Quiet, Idle
  <2>2. greeted
    BY <2>1, NoCallbacks DEF PlayersInv, Greeted
  <2>3. Hears
    BY <2>1, <2>2 DEF Hears, NoHello
  <2>4. ASSUME NEW p \in players PROVE p \in apiPlayers
    <3>1. Known(p)
      BY <2>3 DEF PlayersInv, AllKnown
    <3>2. ~Waits(p) /\ ~Follows(p)
      BY <2>1 DEF Waits, Waiting, Follows, Deferred
    <3>3. Reaches(toApi, greeted, apiPlayers, p)
      BY <3>1, <3>2 DEF Known
    <3> QED
      BY <2>1, <3>3 DEF Reaches
  <2> QED
    BY <2>4
<1> QED
  BY <1>1, <1>2, <1>3, PTL DEF Spec

------------------------------------------------------------------------------
(* The map of the first connection.  Its handshake is one thing that moves:  *)
(* the callback that greets, the hello, its answer, the callback that        *)
(* completes.  Then the map being played is the last one on its way, or the  *)
(* one the service knows.                                                   *)

LastMap(s, m) ==
  \E i \in DOMAIN s : s[i].kind = "map" /\ s[i].map = m /\ \A j \in DOMAIN s : j > i => s[j].kind # "map"
NoMap(s) == \A i \in DOMAIN s : s[i].kind # "map"

Answers(c) == c.op = "execute" /\ c.msg.kind = "map"
LastAnswer(s, m) ==
  \E i \in DOMAIN s : Answers(s[i]) /\ s[i].msg.map = m /\ \A j \in DOMAIN s : j > i => ~Answers(s[j])
NoAnswer(s) == \A i \in DOMAIN s : ~Answers(s[i])

Flow ==
  \/ LastMap(toApi, map)
  \/ NoMap(toApi) /\ LastMap(toGame, map)
  \/ NoMap(toApi) /\ NoMap(toGame) /\ LastAnswer(queue, map)
  \/ NoMap(toApi) /\ NoMap(toGame) /\ NoAnswer(queue) /\ LastAnswer(running, map)
  \/ NoMap(toApi) /\ NoMap(toGame) /\ NoAnswer(queue) /\ NoAnswer(running) /\ currentMap = MapInfo(map)

NoHelloIn(s) == \A i \in DOMAIN s : s[i].kind # "hello"
After ==
  /\ NoHelloIn(toApi) /\ NoHelloIn(toGame) /\ greeted /\ pc = "idle"
  /\ ~Initiates(queue) /\ ~Initiates(running) /\ ~Completes(queue) /\ ~Completes(running)
  /\ Flow

\* The one callback there is.
Only(c) == (queue = <<c>> /\ running = <<>>) \/ (queue = <<>> /\ running = <<c>>)
Nothing == queue = <<>> /\ running = <<>>

Greets    == toApi = <<>> /\ toGame = <<>> /\ Only([op |-> "initiate"])
Asks      == toGame = <<>> /\ Nothing /\ \E h \in Hello : h.map = map /\ toApi = <<h>>
Answered  == toApi = <<>> /\ Nothing /\ \E h \in Hello : h.map = map /\ toGame = <<h>>
Finishes  == toApi = <<>> /\ toGame = <<>> /\ greeted /\ Only([op |-> "complete", map |-> map])
Abandoned == toApi = <<>> /\ toGame = <<>> /\ Nothing
\* From the send of the hello on.
Greeting == pc = "hello" \/ state = "HandshakeInitiated"
Before == currentMap = None /\ (Greets \/ (Greeting /\ (Asks \/ Answered \/ Finishes)) \/ Abandoned)

MapInv ==
  /\ state = "Uninitialized" => opens = 0
  /\ pc = "init" => state # "HandshakeInitiated"
  /\ opens = 0 => conn # "open" /\ toApi = <<>> /\ toGame = <<>> /\ Nothing /\ ~Sends /\ currentMap = None
  /\ opens = 1 /\ conn = "open" => IF Sends THEN After ELSE Before

LEMMA MapAppended ==
  ASSUME NEW s \in Seq(Message), NEW msg \in Message
  PROVE  /\ NoMap(s) /\ msg.kind # "map" => NoMap(Append(s, msg))
         /\ NoHelloIn(s) /\ msg.kind # "hello" => NoHelloIn(Append(s, msg))
         /\ \A m : LastMap(s, m) /\ msg.kind # "map" => LastMap(Append(s, msg), m)
         /\ \A m : msg.kind = "map" /\ msg.map = m => LastMap(Append(s, msg), m)
<1>1. PICK n \in Seq(Message) : n = Append(s, msg)
  BY AppendType
<1>2. /\ Len(s) \in Nat /\ DOMAIN s = 1..Len(s) /\ DOMAIN n = 1..(Len(s) + 1)
      /\ n[Len(s) + 1] = msg /\ \A i \in 1..Len(s) : n[i] = s[i]
  BY <1>1
<1>3. NoMap(s) /\ msg.kind # "map" => NoMap(n)
  BY <1>2 DEF NoMap
<1>4. NoHelloIn(s) /\ msg.kind # "hello" => NoHelloIn(n)
  BY <1>2 DEF NoHelloIn
<1>5. ASSUME NEW m, LastMap(s, m), msg.kind # "map" PROVE LastMap(n, m)
  <2>1. PICK i \in DOMAIN s : s[i].kind = "map" /\ s[i].map = m /\ \A j \in DOMAIN s : j > i => s[j].kind # "map"
    BY <1>5 DEF LastMap
  <2>2. i \in DOMAIN n /\ n[i] = s[i] /\ \A j \in DOMAIN n : j > i => n[j].kind # "map"
    BY <1>2, <1>5, <2>1
  <2> QED
    BY <2>1, <2>2 DEF LastMap
<1>6. ASSUME NEW m, msg.kind = "map", msg.map = m PROVE LastMap(n, m)
  <2>1. PICK e \in DOMAIN n : e = Len(s) + 1
    BY <1>2
  <2>2. n[e] = msg /\ \A j \in DOMAIN n : j > e => n[j].kind # "map"
    BY <1>2, <2>1
  <2> QED
    BY <1>6, <2>2 DEF LastMap
<1> QED
  BY <1>1, <1>3, <1>4, <1>5, <1>6

LEMMA MapTaken ==
  ASSUME NEW s \in Seq(Message), s # <<>>
  PROVE  /\ NoMap(s) => Head(s).kind # "map" /\ NoMap(Tail(s))
         /\ NoHelloIn(s) => Head(s).kind # "hello" /\ NoHelloIn(Tail(s))
         /\ \A m : LastMap(s, m) =>
              LastMap(Tail(s), m) \/ (NoMap(Tail(s)) /\ Head(s).kind = "map" /\ Head(s).map = m)
<1>1. PICK n \in Seq(Message) : n = Tail(s)
  BY TailType
<1>2. /\ Len(s) \in Nat /\ Len(s) >= 1 /\ DOMAIN s = 1..Len(s) /\ DOMAIN n = 1..(Len(s) - 1)
      /\ s[1] = Head(s) /\ 1 \in DOMAIN s /\ \A i \in 1..(Len(s) - 1) : n[i] = s[i + 1]
  BY <1>1
<1>3. \A i \in 1..Len(s) : i = 1 \/ (i - 1 \in 1..(Len(s) - 1) /\ n[i - 1] = s[i])
  BY <1>2
<1>4. \A i \in DOMAIN n : i + 1 \in DOMAIN s /\ i + 1 > 1 /\ n[i] = s[i + 1]
  BY <1>2
<1>5. NoMap(s) => Head(s).kind # "map" /\ NoMap(n)
  BY <1>2, <1>4 DEF NoMap
<1>6. NoHelloIn(s) => Head(s).kind # "hello" /\ NoHelloIn(n)
  BY <1>2, <1>4 DEF NoHelloIn
<1>7. ASSUME NEW m, LastMap(s, m)
      PROVE  LastMap(n, m) \/ (NoMap(n) /\ Head(s).kind = "map" /\ Head(s).map = m)
  <2>1. PICK i \in DOMAIN s : s[i].kind = "map" /\ s[i].map = m /\ \A j \in DOMAIN s : j > i => s[j].kind # "map"
    BY <1>7 DEF LastMap
  <2>2. CASE i = 1
    <3>1. NoMap(n)
      BY <1>4, <2>1, <2>2 DEF NoMap
    <3> QED
      BY <1>2, <2>1, <2>2, <3>1
  <2>3. CASE i # 1
    <3>1. i - 1 \in DOMAIN n /\ n[i - 1] = s[i]
      BY <1>2, <1>3, <2>3
    <3>2. ASSUME NEW j \in DOMAIN n, j > i - 1 PROVE n[j].kind # "map"
      <4>1. j + 1 \in DOMAIN s /\ j + 1 > i /\ n[j] = s[j + 1]
        BY <1>2, <1>4, <3>2
      <4> QED
        BY <2>1, <4>1
    <3> QED
      BY <2>1, <3>1, <3>2 DEF LastMap
  <2> QED
    BY <2>2, <2>3
<1> QED
  BY <1>1, <1>5, <1>6, <1>7

LEMMA AnswerAppended ==
  ASSUME NEW s \in Seq(Callback), NEW c \in Callback
  PROVE  /\ NoAnswer(s) /\ ~Answers(c) => NoAnswer(Append(s, c))
         /\ \A m : LastAnswer(s, m) /\ ~Answers(c) => LastAnswer(Append(s, c), m)
         /\ \A m : Answers(c) /\ c.msg.map = m => LastAnswer(Append(s, c), m)
<1>1. PICK n \in Seq(Callback) : n = Append(s, c)
  BY AppendType
<1>2. /\ Len(s) \in Nat /\ DOMAIN s = 1..Len(s) /\ DOMAIN n = 1..(Len(s) + 1)
      /\ n[Len(s) + 1] = c /\ \A i \in 1..Len(s) : n[i] = s[i]
  BY <1>1
<1>3. NoAnswer(s) /\ ~Answers(c) => NoAnswer(n)
  BY <1>2 DEF NoAnswer
<1>4. ASSUME NEW m, LastAnswer(s, m), ~Answers(c) PROVE LastAnswer(n, m)
  <2>1. PICK i \in DOMAIN s : Answers(s[i]) /\ s[i].msg.map = m /\ \A j \in DOMAIN s : j > i => ~Answers(s[j])
    BY <1>4 DEF LastAnswer
  <2>2. i \in DOMAIN n /\ n[i] = s[i] /\ \A j \in DOMAIN n : j > i => ~Answers(n[j])
    BY <1>2, <1>4, <2>1
  <2> QED
    BY <2>1, <2>2 DEF LastAnswer
<1>5. ASSUME NEW m, Answers(c), c.msg.map = m PROVE LastAnswer(n, m)
  <2>1. PICK e \in DOMAIN n : e = Len(s) + 1
    BY <1>2
  <2>2. n[e] = c /\ \A j \in DOMAIN n : j > e => ~Answers(n[j])
    BY <1>2, <2>1
  <2> QED
    BY <1>5, <2>2 DEF LastAnswer
<1> QED
  BY <1>1, <1>3, <1>4, <1>5

LEMMA AnswerTaken ==
  ASSUME NEW s \in Seq(Callback), s # <<>>
  PROVE  /\ NoAnswer(s) => ~Answers(Head(s)) /\ NoAnswer(Tail(s))
         /\ \A m : LastAnswer(s, m) =>
              LastAnswer(Tail(s), m) \/ (NoAnswer(Tail(s)) /\ Answers(Head(s)) /\ Head(s).msg.map = m)
<1>1. PICK n \in Seq(Callback) : n = Tail(s)
  BY TailType
<1>2. /\ Len(s) \in Nat /\ Len(s) >= 1 /\ DOMAIN s = 1..Len(s) /\ DOMAIN n = 1..(Len(s) - 1)
      /\ s[1] = Head(s) /\ 1 \in DOMAIN s /\ \A i \in 1..(Len(s) - 1) : n[i] = s[i + 1]
  BY <1>1
<1>3. \A i \in 1..Len(s) : i = 1 \/ (i - 1 \in 1..(Len(s) - 1) /\ n[i - 1] = s[i])
  BY <1>2
<1>4. \A i \in DOMAIN n : i + 1 \in DOMAIN s /\ i + 1 > 1 /\ n[i] = s[i + 1]
  BY <1>2
<1>5. NoAnswer(s) => ~Answers(Head(s)) /\ NoAnswer(n)
  BY <1>2, <1>4 DEF NoAnswer
<1>6. ASSUME NEW m, LastAnswer(s, m)
      PROVE  LastAnswer(n, m) \/ (NoAnswer(n) /\ Answers(Head(s)) /\ Head(s).msg.map = m)
  <2>1. PICK i \in DOMAIN s : Answers(s[i]) /\ s[i].msg.map = m /\ \A j \in DOMAIN s : j > i => ~Answers(s[j])
    BY <1>6 DEF LastAnswer
  <2>2. CASE i = 1
    <3>1. NoAnswer(n)
      BY <1>4, <2>1, <2>2 DEF NoAnswer
    <3> QED
      BY <1>2, <2>1, <2>2, <3>1
  <2>3. CASE i # 1
    <3>1. i - 1 \in DOMAIN n /\ n[i - 1] = s[i]
      BY <1>2, <1>3, <2>3
    <3>2. ASSUME NEW j \in DOMAIN n, j > i - 1 PROVE ~Answers(n[j])
      <4>1. j + 1 \in DOMAIN s /\ j + 1 > i /\ n[j] = s[j + 1]
        BY <1>2, <1>4, <3>2
      <4> QED
        BY <2>1, <4>1
    <3> QED
      BY <2>1, <3>1, <3>2 DEF LastAnswer
  <2> QED
    BY <2>2, <2>3
<1> QED
  BY <1>1, <1>5, <1>6

LEMMA AnswersJoined ==
  ASSUME NEW s \in Seq(Callback), NEW t \in Seq(Callback), \A i \in DOMAIN t : t[i].op = "send"
  PROVE  /\ NoAnswer(s) => NoAnswer(s \o t)
         /\ \A m : LastAnswer(s, m) => LastAnswer(s \o t, m)
<1>1. PICK n \in Seq(Callback) : n = s \o t
  BY ConcatType
<1>2. /\ Len(s) \in Nat /\ Len(t) \in Nat /\ DOMAIN s = 1..Len(s) /\ DOMAIN t = 1..Len(t)
      /\ DOMAIN n = 1..(Len(s) + Len(t))
      /\ \A i \in 1..(Len(s) + Len(t)) : n[i] = IF i <= Len(s) THEN s[i] ELSE t[i - Len(s)]
  BY <1>1
<1>3. \A i \in DOMAIN s : i \in DOMAIN n /\ n[i] = s[i]
  BY <1>2
<1>4. ASSUME NEW i \in DOMAIN n, i \notin DOMAIN s PROVE i > Len(s) /\ ~Answers(n[i])
  <2>1. i > Len(s) /\ i - Len(s) \in DOMAIN t /\ n[i] = t[i - Len(s)]
    BY <1>2, <1>4
  <2> QED
    BY <2>1 DEF Answers
<1>5. NoAnswer(s) => NoAnswer(n)
  BY <1>3, <1>4 DEF NoAnswer
<1>6. ASSUME NEW m, LastAnswer(s, m) PROVE LastAnswer(n, m)
  <2>1. PICK i \in DOMAIN s : Answers(s[i]) /\ s[i].msg.map = m /\ \A j \in DOMAIN s : j > i => ~Answers(s[j])
    BY <1>6 DEF LastAnswer
  <2>2. i \in DOMAIN n /\ n[i] = s[i] /\ \A j \in DOMAIN n : j > i => ~Answers(n[j])
    BY <1>3, <1>4, <2>1
  <2> QED
    BY <2>1, <2>2 DEF LastAnswer
<1> QED
  BY <1>1, <1>5, <1>6

\* A message that is sent and is not a map's.
LEMMA OtherSent ==
  ASSUME TypeOK, NEW msg \in Event, msg.kind # "map", SendMessage(msg)
  PROVE  /\ NoHelloIn(toApi) => NoHelloIn(toApi')
         /\ NoMap(toApi) => NoMap(toApi')
         /\ \A m : LastMap(toApi, m) => LastMap(toApi', m)
<1>1. toApi \in Seq(Message) /\ msg \in Message /\ msg.kind # "hello"
  BY Kinds DEF TypeOK, Message
<1>2. toApi' = toApi \/ toApi' = Append(toApi, msg)
  BY DEF SendMessage, Give
<1> QED
  BY <1>1, <1>2, MapAppended

LEMMA AfterSent ==
  ASSUME TypeOK, After, NEW msg \in Event, msg.kind # "map", SendMessage(msg),
         UNCHANGED <<toGame, greeted, pc, queue, running, map, currentMap>>
  PROVE  After'
<1>1. /\ NoHelloIn(toApi) => NoHelloIn(toApi')
      /\ NoMap(toApi) => NoMap(toApi')
      /\ LastMap(toApi, map) => LastMap(toApi', map)
  BY OtherSent
<1>2. Flow'
  BY <1>1 DEF After, Flow
<1> QED
  BY <1>1, <1>2 DEF After

\* Once the first handshake is completed, nothing of a handshake is left, and
\* the map follows.
LEMMA AfterStep ==
  ASSUME PlayersInv, state # "Uninitialized", conn = "open", opens = 1, Sends, After,
         [Next]_vars, conn' = "open", opens' = 1
  PROVE  Sends' /\ After'
<1> DEFINE Goal == Sends' /\ After'
<1> SUFFICES Goal
  OBVIOUS
<1> HIDE DEF Goal
<1>1. TypeOK /\ Deferrals /\ toApi \in Seq(Message) /\ toGame \in Seq(Message)
      /\ queue \in Seq(Callback) /\ running \in Seq(Callback)
  BY DEF PlayersInv, HelloInv, TypeOK
<1>2. pc = "idle" /\ NoHelloIn(toApi) /\ NoHelloIn(toGame) /\ greeted
      /\ ~Initiates(queue) /\ ~Initiates(running) /\ ~Completes(queue) /\ ~Completes(running) /\ Flow
  BY DEF After
<1>3. ASSUME NEW m \in Maps, OnActivateServer(m) PROVE Goal
  <2>1. PICK msg : msg = [kind |-> "map", map |-> m]
    OBVIOUS
  <2>2. msg \in Message /\ msg.kind = "map" /\ msg.map = m
    BY <2>1 DEF Event, Message
  <2>3. SendMessage(msg) /\ map' = m /\ UNCHANGED <<state, toGame, greeted, pc, queue, running>>
    BY <1>3, <2>1 DEF OnActivateServer, apiVars
  <2>4. toApi' = Append(toApi, msg)
    BY <2>3 DEF SendMessage, Give
  <2>5. LastMap(toApi', map') /\ NoHelloIn(toApi')
    BY <1>1, <1>2, <2>2, <2>3, <2>4, MapAppended
  <2> QED
    BY <1>2, <2>3, <2>5 DEF Goal, Sends, After, Flow
<1>4. ASSUME NEW q \in Players, OnPlayerAuthorized(q) \/ OnClientDisconnect(q) PROVE Goal
  <2>1. PICK msg \in Event : msg.kind # "map" /\ SendMessage(msg)
    <3>1. PICK j, l : j = [kind |-> "join", player |-> q] /\ l = [kind |-> "leave", player |-> q]
      OBVIOUS
    <3>2. j \in Event /\ j.kind # "map" /\ l \in Event /\ l.kind # "map"
      BY <3>1 DEF Event
    <3>3. SendMessage(j) \/ SendMessage(l)
      BY <1>4, <3>1 DEF OnPlayerAuthorized, OnClientDisconnect, SendOrWait
    <3> QED
      BY <3>2, <3>3
  <2>2. UNCHANGED <<state, toGame, greeted, pc, queue, running, map, currentMap>>
    BY <1>4 DEF OnPlayerAuthorized, OnClientDisconnect, apiVars
  <2> QED
    BY <1>1, <2>1, <2>2, AfterSent DEF Goal, Sends
<1>5. ASSUME NEW r \in Records, SubmitRecord(r) PROVE Goal
  <2>1. PICK msg : msg = [kind |-> "record", record |-> r]
    OBVIOUS
  <2>2. msg \in Event /\ msg.kind # "map"
    BY <2>1 DEF Event
  <2>3. SendMessage(msg) /\ UNCHANGED <<state, toGame, greeted, pc, queue, running, map, currentMap>>
    BY <1>5, <2>1 DEF SubmitRecord, SendMessage, Sends, apiVars, gameVars
  <2> QED
    BY <1>1, <2>2, <2>3, AfterSent DEF Goal, Sends
<1>6. CASE InitReturns \/ HandshakeInitiated
  BY <1>2, <1>6 DEF InitReturns, HandshakeInitiated
<1>7. CASE OnServerGamePostSimulate
  <2>1. PICK t \in Seq(Callback) : running' = queue \o t /\ \A i \in DOMAIN t : t[i].op = "send"
    BY <1>1, <1>7, Taken
  <2>2. queue' = <<>> /\ running = <<>> /\ UNCHANGED <<state, pc, toApi, toGame, greeted, map, currentMap>>
    BY <1>7 DEF OnServerGamePostSimulate, Idle, netVars, apiVars, gameVars
  <2>3. ~Initiates(running') /\ ~Completes(running')
    BY <1>1, <1>2, <2>1, CallbacksJoined
  <2>4. NoAnswer(queue') /\ ~LastAnswer(running, map)
    BY <2>2 DEF NoAnswer, LastAnswer
  <2>5. (NoAnswer(queue) => NoAnswer(running')) /\ (LastAnswer(queue, map) => LastAnswer(running', map))
    BY <1>1, <2>1, AnswersJoined
  <2>6. Flow'
    BY <1>2, <2>2, <2>4, <2>5 DEF Flow
  <2>7. ~Initiates(queue') /\ ~Completes(queue')
    BY <2>2, NoCallbacks
  <2> QED
    BY <1>2, <2>2, <2>3, <2>6, <2>7 DEF Goal, Sends, After
<1>8. CASE InitiateHandshake \/ CompleteHandshake
  <2>1. running # <<>> /\ Head(running).op \in {"initiate", "complete"}
    BY <1>8 DEF InitiateHandshake, CompleteHandshake, Runs
  <2>2. Initiates(running) \/ Completes(running)
    BY <1>1, <2>1, CallbackTaken
  <2> QED
    BY <1>2, <2>2
<1>9. ASSUME running # <<>>, running' = Tail(running)
      PROVE  ~Initiates(running') /\ ~Completes(running')
  BY <1>1, <1>2, <1>9, CallbackTaken
<1>10. CASE ExecuteMessageCallback
  <2>1. PICK c \in Callback : running # <<>> /\ c = Head(running)
    BY <1>1, <1>10 DEF ExecuteMessageCallback, Runs
  <2>2. /\ running' = Tail(running) /\ c.op = "execute" /\ currentMap' = MapAfter(c.msg)
        /\ UNCHANGED <<state, pc, queue, toGame, greeted, map>>
    BY <1>10, <2>1 DEF ExecuteMessageCallback, Runs, apiVars, gameVars
  <2>3. /\ NoHelloIn(toApi) => NoHelloIn(toApi')
        /\ NoMap(toApi) => NoMap(toApi')
        /\ LastMap(toApi, map) => LastMap(toApi', map)
    <3>1. CASE toApi' = toApi
      BY <3>1
    <3>2. CASE toApi' # toApi
      <4>1. PICK q \in Players : SendOrWait([kind |-> "pbs", player |-> q])
        BY <1>1, <1>10, <3>2 DEF ExecuteMessageCallback, TypeOK
      <4>2. PICK msg : msg = [kind |-> "pbs", player |-> q]
        OBVIOUS
      <4>3. msg \in Event /\ msg.kind # "map" /\ SendMessage(msg)
        BY <4>1, <4>2 DEF Event, SendOrWait
      <4> QED
        BY <1>1, <4>3, OtherSent
    <3> QED
      BY <3>1, <3>2
  <2>4. /\ NoAnswer(running) => ~Answers(c) /\ NoAnswer(running')
        /\ LastAnswer(running, map) =>
             LastAnswer(running', map) \/ (NoAnswer(running') /\ Answers(c) /\ c.msg.map = map)
    BY <1>1, <2>1, <2>2, AnswerTaken
  <2>5. /\ Answers(c) /\ c.msg.map = map => currentMap' = MapInfo(map)
        /\ ~Answers(c) => currentMap' = currentMap
    BY <2>2 DEF Answers, MapAfter
  <2>6. Flow'
    BY <1>2, <2>2, <2>3, <2>4, <2>5 DEF Flow, MapInfo
  <2> QED
    BY <1>2, <1>9, <2>1, <2>2, <2>3, <2>6 DEF Goal, Sends, After
<1>11. CASE DeferredSend
  <2>1. PICK c \in Callback : running # <<>> /\ c = Head(running)
    BY <1>1, <1>11 DEF DeferredSend, Runs
  <2>2. /\ running' = Tail(running) /\ c.op = "send" /\ SendMessage(c.msg)
        /\ UNCHANGED <<state, pc, queue, toGame, greeted, map, currentMap>>
    BY <1>11, <2>1 DEF DeferredSend, Runs, apiVars, gameVars
  <2>3. PICK msg : msg = c.msg
    OBVIOUS
  <2>4. msg \in Event /\ msg.kind # "map"
    <3>1. c.msg.kind \in PutOff
      BY <1>1, <2>1, <2>2, PlainTaken DEF Deferrals
    <3> QED
      BY <2>2, <2>3, <3>1, Callbacks DEF PutOff
  <2>5. /\ NoHelloIn(toApi) => NoHelloIn(toApi')
        /\ NoMap(toApi) => NoMap(toApi')
        /\ LastMap(toApi, map) => LastMap(toApi', map)
    BY <1>1, <2>2, <2>3, <2>4, OtherSent
  <2>6. /\ NoAnswer(running) => NoAnswer(running')
        /\ LastAnswer(running, map) => LastAnswer(running', map)
    BY <1>1, <2>1, <2>2, AnswerTaken DEF Answers
  <2>7. Flow'
    BY <1>2, <2>2, <2>5, <2>6 DEF Flow
  <2> QED
    BY <1>2, <1>9, <2>1, <2>2, <2>5, <2>7 DEF Goal, Sends, After
<1>12. CASE Open \/ Close \/ Error
  BY <1>12 DEF Open, Close, Error, MayConnect
<1>13. CASE Receive
  <2>1. PICK msg \in Message : toGame # <<>> /\ msg = Head(toGame)
    BY <1>1, <1>13 DEF Receive
  <2>2. toGame' = Tail(toGame) /\ UNCHANGED <<state, pc, toApi, greeted, running, map, currentMap>>
    BY <1>13 DEF Receive, apiVars, gameVars
  <2>3. msg.kind # "hello" /\ NoHelloIn(toGame')
    BY <1>1, <1>2, <2>1, <2>2, MapTaken
  <2>4. PICK c : c = [op |-> "execute", msg |-> msg]
    OBVIOUS
  <2>5. c \in Callback /\ c.op = "execute" /\ c.msg = msg /\ queue' = Append(queue, c)
    <3>1. c \in Callback
      BY <2>3, <2>4, Kinds DEF Callback
    <3>2. queue' = Append(queue, c)
      BY <1>13, <2>1, <2>3, <2>4 DEF Receive, Sends
    <3> QED
      BY <2>4, <3>1, <3>2
  <2>6. ~Initiates(queue') /\ ~Completes(queue')
    BY <1>1, <1>2, <2>5, CallbackAppended
  <2>7. /\ NoMap(toGame) => msg.kind # "map" /\ NoMap(toGame')
        /\ LastMap(toGame, map) =>
             LastMap(toGame', map) \/ (NoMap(toGame') /\ msg.kind = "map" /\ msg.map = map)
    BY <1>1, <2>1, <2>2, MapTaken
  <2>8. /\ msg.kind # "map" /\ NoAnswer(queue) => NoAnswer(queue')
        /\ msg.kind # "map" /\ LastAnswer(queue, map) => LastAnswer(queue', map)
        /\ msg.kind = "map" /\ msg.map = map => LastAnswer(queue', map)
    BY <1>1, <2>5, AnswerAppended DEF Answers
  <2>9. Flow'
    BY <1>2, <2>2, <2>7, <2>8 DEF Flow
  <2> QED
    BY <1>2, <2>2, <2>3, <2>6, <2>9 DEF Goal, Sends, After
<1>14. CASE ApiReads
  <2>1. PICK msg \in Message : toApi # <<>> /\ msg = Head(toApi)
    BY <1>1, <1>14 DEF ApiReads
  <2>2. toApi' = Tail(toApi) /\ UNCHANGED <<state, pc, queue, running, map, currentMap>>
    BY <1>14 DEF ApiReads, gameVars
  <2>3. msg.kind # "hello" /\ NoHelloIn(toApi')
    BY <1>1, <1>2, <2>1, <2>2, MapTaken
  <2>4. greeted' /\ toGame' = IF msg.kind # "leave" THEN Append(toGame, msg) ELSE toGame
    BY <1>2, <1>14, <2>1 DEF ApiReads
  <2>5. /\ NoHelloIn(toGame')
        /\ msg.kind # "map" /\ NoMap(toGame) => NoMap(toGame')
        /\ msg.kind # "map" /\ LastMap(toGame, map) => LastMap(toGame', map)
        /\ msg.kind = "map" /\ msg.map = map => LastMap(toGame', map)
    BY <1>1, <1>2, <2>3, <2>4, MapAppended
  <2>6. /\ NoMap(toApi) => msg.kind # "map" /\ NoMap(toApi')
        /\ LastMap(toApi, map) =>
             LastMap(toApi', map) \/ (NoMap(toApi') /\ msg.kind = "map" /\ msg.map = map)
    BY <1>1, <2>1, <2>2, MapTaken
  <2>7. Flow'
    BY <1>2, <2>2, <2>5, <2>6 DEF Flow
  <2> QED
    BY <1>2, <2>2, <2>3, <2>4, <2>5, <2>7 DEF Goal, Sends, After
<1>15. CASE UNCHANGED vars
  BY <1>2, <1>15 DEF vars, netVars, apiVars, gameVars, Goal, Sends, After, Flow
<1> QED
  BY <1>3, <1>4, <1>5, <1>6, <1>7, <1>8, <1>10, <1>11, <1>12, <1>13, <1>14, <1>15 DEF Next, GameThread

\* The callback of one that is alone.
LEMMA Alone ==
  ASSUME NEW c
  PROVE  /\ <<c>> # <<>> /\ Head(<<c>>) = c /\ Tail(<<c>>) = <<>>
         /\ <<c>> \o <<>> = <<c>> /\ Append(<<>>, c) = <<c>>
OBVIOUS

\* What a frame takes before the handshake is completed.
LEMMA TakenBefore ==
  ASSUME TypeOK, Deferrals, ~Sends, OnServerGamePostSimulate
  PROVE  running = <<>> /\ queue # <<>> /\ queue' = <<>> /\ running' = queue
<1>1. PICK t \in Seq(Callback) : running' = queue \o t /\ t = <<>>
  BY Taken
<1>2. queue \in Seq(Callback)
  BY DEF TypeOK
<1>3. running' = queue
  BY <1>1, <1>2
<1> QED
  BY <1>3 DEF OnServerGamePostSimulate, Idle

\* No map starts between the hello and its answer.
MapWaits == state = "HandshakeInitiated" => map' = map

\* A step before the first handshake is completed.
LEMMA BeforeStep ==
  ASSUME PlayersInv, state # "Uninitialized", pc = "init" => state # "HandshakeInitiated",
         conn = "open", opens = 1, ~Sends, Before,
         [Next]_vars, MapWaits, conn' = "open", opens' = 1
  PROVE  IF Sends' THEN After' ELSE Before'
<1> DEFINE Goal == IF Sends' THEN After' ELSE Before'
<1> SUFFICES Goal
  OBVIOUS
<1> HIDE DEF Goal
<1>1. TypeOK /\ Deferrals /\ currentMap = None /\ state # "HandshakeCompleted"
  BY DEF PlayersInv, HelloInv, Before, Sends
<1>2. ASSUME UNCHANGED <<toApi, toGame, queue, running, greeted, map, currentMap>>, ~Sends',
             Greeting => Greeting'
      PROVE  Goal
  BY <1>2 DEF Goal, Before, Greets, Asks, Answered, Finishes, Abandoned, Only, Nothing
<1>3. PICK i0, c0 : i0 = [op |-> "initiate"] /\ c0 = [op |-> "complete", map |-> map]
  OBVIOUS
<1>4. i0.op = "initiate" /\ c0.op = "complete" /\ c0.map = map
  BY <1>3
<1>5. ASSUME running # <<>>
      PROVE  /\ queue = <<>> /\ toApi = <<>> /\ toGame = <<>>
             /\ running = <<i0>> \/ (running = <<c0>> /\ greeted)
  BY <1>3, <1>5 DEF Before, Greets, Asks, Answered, Finishes, Abandoned, Only, Nothing
<1>6. ASSUME NEW m \in Maps, OnActivateServer(m) PROVE Goal
  <2>1. UNCHANGED <<toApi, toGame, queue, running, greeted, currentMap, state, pc>> /\ pc = "idle"
    BY <1>1, <1>6 DEF OnActivateServer, SendMessage, Sends, Idle, apiVars
  <2>2. CASE Greeting
    <3>1. map' = map
      BY <2>1, <2>2 DEF Greeting, MapWaits
    <3> QED
      BY <1>1, <1>2, <2>1, <3>1 DEF Sends, Greeting
  <2>3. CASE ~Greeting
    <3>1. Greets \/ Abandoned
      BY <2>3 DEF Before
    <3>2. Greets' \/ Abandoned'
      BY <2>1, <3>1 DEF Greets, Abandoned, Only, Nothing
    <3> QED
      BY <1>1, <2>1, <3>2 DEF Goal, Before, Sends
  <2> QED
    BY <2>2, <2>3
<1>7. ASSUME NEW q \in Players, OnPlayerAuthorized(q) \/ OnClientDisconnect(q) PROVE Goal
  BY <1>2, <1>7 DEF OnPlayerAuthorized, OnClientDisconnect, SendOrWait, SendMessage, Sends, apiVars, Greeting
<1>8. ASSUME NEW r \in Records, SubmitRecord(r) PROVE Goal
  BY <1>1, <1>8 DEF SubmitRecord
<1>9. CASE InitReturns \/ HandshakeInitiated
  <2>1. UNCHANGED <<toApi, toGame, queue, running, greeted, map, currentMap>> /\ ~Sends'
        /\ (Greeting => Greeting')
    BY <1>9 DEF InitReturns, HandshakeInitiated, Sends, netVars, apiVars, gameVars, Greeting
  <2> QED
    BY <1>2, <2>1
<1>10. CASE OnServerGamePostSimulate
  <2>1. running = <<>> /\ queue # <<>> /\ queue' = <<>> /\ running' = queue
    BY <1>1, <1>10, TakenBefore
  <2>2. UNCHANGED <<state, pc, toApi, toGame, greeted, map, currentMap>>
    BY <1>10 DEF OnServerGamePostSimulate, netVars, apiVars, gameVars
  <2>3. Greets \/ Finishes
    BY <2>1 DEF Before, Asks, Answered, Abandoned, Nothing
  <2>4. Greets => Greets'
    BY <2>1, <2>2 DEF Greets, Only
  <2>5. Finishes => Finishes'
    BY <2>1, <2>2 DEF Finishes, Only
  <2>6. Finishes => Greeting \/ Greets
    BY <2>1 DEF Before, Abandoned, Nothing
  <2> QED
    BY <1>1, <2>2, <2>3, <2>4, <2>5, <2>6 DEF Goal, Before, Sends, Greeting
<1>11. CASE InitiateHandshake
  <2>1. /\ running # <<>> /\ Head(running).op = "initiate" /\ running' = Tail(running)
        /\ UNCHANGED <<state, queue, toGame, greeted, map, currentMap>>
    BY <1>11 DEF InitiateHandshake, Runs, apiVars, gameVars
  <2>2. queue = <<>> /\ toApi = <<>> /\ toGame = <<>> /\ running = <<i0>>
    BY <1>4, <1>5, <2>1, Alone
  <2>3. Nothing' /\ toGame' = <<>>
    BY <2>1, <2>2, Alone DEF Nothing
  <2>4. PICK h : h = [kind |-> "hello", map |-> map, players |-> players]
    OBVIOUS
  <2>5. h \in Hello /\ h.map = map'
    BY <1>1, <2>1, <2>4 DEF Hello, TypeOK
  <2>6. toApi' = <<h>> \/ toApi' = <<>>
    BY <1>11, <2>2, <2>4, Alone DEF InitiateHandshake, Give
  <2>7. Greeting' /\ (Asks' \/ Abandoned')
    BY <1>11, <2>3, <2>5, <2>6 DEF Asks, Abandoned, Greeting, InitiateHandshake
  <2> QED
    BY <1>1, <2>1, <2>7 DEF Goal, Before, Sends
<1>12. CASE CompleteHandshake
  <2>1. /\ running # <<>> /\ Head(running).op = "complete" /\ running' = Tail(running) /\ pc = "idle"
        /\ currentMap' = MapInfo(Head(running).map) /\ Sends'
        /\ UNCHANGED <<pc, queue, toApi, toGame, greeted, map>>
    BY <1>12 DEF CompleteHandshake, Runs, Sends, netVars, apiVars, gameVars
  <2>2. queue = <<>> /\ toApi = <<>> /\ toGame = <<>> /\ running = <<c0>> /\ greeted
    BY <1>4, <1>5, <2>1, Alone
  <2>3. running' = <<>> /\ currentMap' = MapInfo(map)
    BY <1>4, <2>1, <2>2, Alone
  <2>4. NoHelloIn(<<>>) /\ NoMap(<<>>) /\ NoAnswer(<<>>)
    BY DEF NoHelloIn, NoMap, NoAnswer
  <2>5. currentMap' = MapInfo(map)'
    BY <2>1, <2>3 DEF MapInfo
  <2>6. Flow'
    BY <2>1, <2>2, <2>3, <2>4, <2>5 DEF Flow
  <2>7. After'
    BY <2>1, <2>2, <2>3, <2>4, <2>6, NoCallbacks DEF After
  <2> QED
    BY <2>1, <2>7 DEF Goal
<1>13. CASE ExecuteMessageCallback \/ DeferredSend
  <2>1. running # <<>> /\ Head(running).op \in {"execute", "send"}
    BY <1>13 DEF ExecuteMessageCallback, DeferredSend, Runs
  <2> QED
    BY <1>4, <1>5, <2>1, Alone
<1>14. CASE Open \/ Close \/ Error
  BY <1>14 DEF Open, Close, Error, MayConnect
<1>15. CASE Receive
  <2>1. toGame # <<>> /\ toGame' = Tail(toGame)
        /\ UNCHANGED <<state, pc, toApi, greeted, running, map, currentMap>>
    BY <1>15 DEF Receive, apiVars, gameVars
  <2>2. Answered /\ Greeting /\ greeted
    BY <2>1 DEF Before, Greets, Asks, Finishes, Abandoned, PlayersInv, Greeted
  <2>3. PICK h \in Hello : h.map = map /\ toGame = <<h>>
    BY <2>2 DEF Answered
  <2>4. toGame' = <<>> /\ Head(toGame) = h
    BY <2>1, <2>3, Alone
  <2>5. queue' = queue \/ queue' = Append(queue, c0)
    BY <1>1, <1>3, <1>15, <2>3, <2>4 DEF Receive, Sends
  <2>6. queue' = <<>> \/ queue' = <<c0>>
    BY <2>2, <2>5, Alone DEF Answered, Nothing
  <2>7. Greeting' /\ (Abandoned' \/ Finishes')
    BY <1>3, <2>1, <2>2, <2>4, <2>6 DEF Answered, Nothing, Abandoned, Finishes, Only, Greeting
  <2> QED
    BY <1>1, <2>1, <2>7 DEF Goal, Before, Sends
<1>16. CASE ApiReads
  <2>1. toApi # <<>> /\ toApi' = Tail(toApi)
        /\ UNCHANGED <<state, pc, queue, running, map, currentMap>>
    BY <1>16 DEF ApiReads, gameVars
  <2>2. Asks /\ Greeting
    BY <2>1 DEF Before, Greets, Answered, Finishes, Abandoned
  <2>3. PICK h \in Hello : h.map = map /\ toApi = <<h>>
    BY <2>2 DEF Asks
  <2>4. toApi' = <<>> /\ Head(toApi) = h /\ h.kind = "hello"
    BY <2>1, <2>3, Alone DEF Hello
  <2>5. toGame' = <<h>>
    BY <1>16, <2>2, <2>4, Alone DEF ApiReads, Asks
  <2>6. Answered' /\ Greeting'
    BY <2>1, <2>2, <2>3, <2>4, <2>5 DEF Asks, Answered, Nothing, Greeting
  <2> QED
    BY <1>1, <2>1, <2>6 DEF Goal, Before, Sends
<1>17. CASE UNCHANGED vars
  <2>1. UNCHANGED <<toApi, toGame, queue, running, greeted, map, currentMap>> /\ ~Sends'
        /\ (Greeting => Greeting')
    BY <1>17 DEF vars, netVars, apiVars, gameVars, Sends, Greeting
  <2> QED
    BY <1>2, <2>1
<1> QED
  BY <1>6, <1>7, <1>8, <1>9, <1>10, <1>11, <1>12, <1>13, <1>14, <1>15, <1>16, <1>17 DEF Next, GameThread

\* A step before the first connection.
LEMMA UnopenedStep ==
  ASSUME PlayersInv, MapInv, opens = 0, [Next]_vars
  PROVE  IF opens' = 0
         THEN /\ conn' # "open" /\ toApi' = <<>> /\ toGame' = <<>> /\ Nothing' /\ ~Sends' /\ currentMap' = None
         ELSE ~Sends' /\ Before'
<1> DEFINE Goal == IF opens' = 0
                   THEN /\ conn' # "open" /\ toApi' = <<>> /\ toGame' = <<>> /\ Nothing' /\ ~Sends'
                        /\ currentMap' = None
                   ELSE ~Sends' /\ Before'
<1> SUFFICES Goal
  OBVIOUS
<1> HIDE DEF Goal
<1>1. TypeOK /\ Deferrals /\ conn # "open" /\ toApi = <<>> /\ toGame = <<>> /\ queue = <<>> /\ running = <<>>
      /\ state # "HandshakeCompleted" /\ currentMap = None
  BY DEF PlayersInv, HelloInv, MapInv, Nothing, Sends
<1>2. ASSUME UNCHANGED <<conn, toApi, toGame, queue, running, currentMap, opens>>,
             state' # "HandshakeCompleted"
      PROVE  Goal
  BY <1>1, <1>2 DEF Goal, Nothing, Sends
<1>3. \A msg : Give(msg) \/ SendMessage(msg) => toApi' = toApi
  BY <1>1 DEF Give, SendMessage
<1>4. ASSUME NEW m \in Maps, OnActivateServer(m) PROVE Goal
  <2>1. UNCHANGED <<conn, toGame, queue, running, currentMap, opens>> /\ state' # "HandshakeCompleted"
    BY <1>1, <1>4 DEF OnActivateServer
  <2>2. toApi' = toApi
    BY <1>3, <1>4 DEF OnActivateServer
  <2> QED
    BY <1>2, <2>1, <2>2
<1>5. ASSUME NEW q \in Players, OnPlayerAuthorized(q) \/ OnClientDisconnect(q) PROVE Goal
  <2>1. UNCHANGED <<conn, toGame, queue, running, currentMap, opens, state>>
    BY <1>5 DEF OnPlayerAuthorized, OnClientDisconnect
  <2>2. toApi' = toApi
    BY <1>3, <1>5 DEF OnPlayerAuthorized, OnClientDisconnect, SendOrWait
  <2> QED
    BY <1>1, <1>2, <2>1, <2>2
<1>6. ASSUME NEW r \in Records, SubmitRecord(r) PROVE Goal
  BY <1>1, <1>6 DEF SubmitRecord
<1>7. CASE InitReturns \/ HandshakeInitiated
  <2>1. UNCHANGED <<conn, toApi, toGame, queue, running, currentMap, opens>> /\ state' # "HandshakeCompleted"
    BY <1>7 DEF InitReturns, HandshakeInitiated, netVars
  <2> QED
    BY <1>2, <2>1
<1>8. CASE OnServerGamePostSimulate
  <2>1. ~Sends
    BY <1>1 DEF Sends
  <2> QED
    BY <1>1, <1>8, <2>1, TakenBefore
<1>9. CASE InitiateHandshake \/ CompleteHandshake \/ ExecuteMessageCallback \/ DeferredSend
  BY <1>1, <1>9 DEF InitiateHandshake, CompleteHandshake, ExecuteMessageCallback, DeferredSend, Runs
<1>10. CASE Open
  <2>1. PICK c : c = [op |-> "initiate"]
    OBVIOUS
  <2>2. /\ toApi' = <<>> /\ toGame' = <<>> /\ queue' = Append(queue, c) /\ opens' = opens + 1
        /\ state' = "Connected" /\ UNCHANGED <<running, currentMap>>
    BY <1>10, <2>1 DEF Open
  <2>3. queue' = <<c>>
    BY <1>1, <2>2, Alone
  <2>4. Greets' /\ ~Sends' /\ currentMap' = None
    BY <1>1, <2>1, <2>2, <2>3 DEF Greets, Only, Sends
  <2> QED
    BY <2>2, <2>4 DEF Goal, Before
<1>11. CASE Close \/ Receive \/ ApiReads
  BY <1>1, <1>11 DEF Close, Receive, ApiReads
<1>12. CASE Error
  <2>1. UNCHANGED <<conn, toApi, toGame, queue, running, currentMap, opens>> /\ state' # "HandshakeCompleted"
    BY <1>1, <1>12 DEF Error, Ends
  <2> QED
    BY <1>2, <2>1
<1>13. CASE UNCHANGED vars
  <2>1. UNCHANGED <<conn, toApi, toGame, queue, running, currentMap, opens>> /\ state' # "HandshakeCompleted"
    BY <1>1, <1>13 DEF vars, netVars
  <2> QED
    BY <1>2, <2>1
<1> QED
  BY <1>4, <1>5, <1>6, <1>7, <1>8, <1>9, <1>10, <1>11, <1>12, <1>13 DEF Next, GameThread

\* Nothing goes back to Uninitialized, and only Open counts a connection.
LEMMA Opened ==
  ASSUME TypeOK, [Next]_vars
  PROVE  /\ state' = "Uninitialized" => state = "Uninitialized" /\ opens' = opens
         /\ opens' = opens \/ (opens' = opens + 1 /\ Open)
         /\ conn' = "open" => conn = "open" \/ Open
         /\ (pc = "init" => state # "HandshakeInitiated") => (pc' = "init" => state' # "HandshakeInitiated")
<1> USE DEF netVars, apiVars, gameVars
<1>1. ASSUME NEW m \in Maps, OnActivateServer(m)
      PROVE  /\ UNCHANGED <<opens, conn>> /\ (state' = "Uninitialized" => state = "Uninitialized")
             /\ pc' = "init" => state' # "HandshakeInitiated"
  BY <1>1 DEF OnActivateServer, Idle
<1>2. ASSUME NEW q \in Players, OnPlayerAuthorized(q) \/ OnClientDisconnect(q)
      PROVE  UNCHANGED <<state, pc, opens, conn>>
  BY <1>2 DEF OnPlayerAuthorized, OnClientDisconnect
<1>3. ASSUME NEW r \in Records, SubmitRecord(r) PROVE UNCHANGED <<state, pc, opens, conn>>
  BY <1>3 DEF SubmitRecord
<1>4. ASSUME GameThread
      PROVE  /\ UNCHANGED <<opens, conn>> /\ (state' = "Uninitialized" => state = "Uninitialized")
             /\ pc' # "init"
  BY <1>4 DEF GameThread, InitReturns, OnServerGamePostSimulate, InitiateHandshake, HandshakeInitiated,
              CompleteHandshake, ExecuteMessageCallback, DeferredSend, Runs, Idle
<1>5. ASSUME Open PROVE opens' = opens + 1 /\ state' = "Connected"
  BY <1>5 DEF Open
<1>6. ASSUME Close \/ Error
      PROVE  /\ state' \notin {"Uninitialized", "HandshakeInitiated"} /\ opens' = opens
             /\ conn' = conn \/ conn' # "open"
  BY <1>6 DEF Close, Error, Ends
<1>7. ASSUME Receive \/ ApiReads PROVE UNCHANGED <<state, pc, opens, conn>>
  BY <1>7 DEF Receive, ApiReads
<1>8. ASSUME UNCHANGED vars PROVE UNCHANGED <<state, pc, opens, conn>>
  BY <1>8 DEF vars
<1> QED
  BY <1>1, <1>2, <1>3, <1>4, <1>5, <1>6, <1>7, <1>8 DEF Next

LEMMA MapStep ==
  ASSUME PlayersInv, MapInv, [Next]_vars, MapWaits
  PROVE  MapInv'
<1>1. TypeOK /\ opens \in Nat
  BY DEF PlayersInv, HelloInv, TypeOK
<1>2. /\ state' = "Uninitialized" => state = "Uninitialized" /\ opens' = opens
      /\ opens' = opens \/ (opens' = opens + 1 /\ Open)
      /\ conn' = "open" => conn = "open" \/ Open
      /\ pc = "init" => state # "HandshakeInitiated"
      /\ pc' = "init" => state' # "HandshakeInitiated"
  BY <1>1, Opened DEF MapInv
<1>3. state' = "Uninitialized" => opens' = 0
  BY <1>2 DEF MapInv
<1>4. CASE opens = 0
  <2>1. opens' = 0 => /\ conn' # "open" /\ toApi' = <<>> /\ toGame' = <<>> /\ Nothing'
                      /\ ~Sends' /\ currentMap' = None
    BY <1>4, UnopenedStep
  <2>2. opens' = 1 => ~Sends' /\ Before'
    BY <1>4, UnopenedStep
  <2> QED
    BY <1>2, <1>3, <2>1, <2>2 DEF MapInv
<1>5. CASE opens # 0
  <2>1. opens' # 0
    BY <1>1, <1>2, <1>5
  <2>2. ASSUME opens' = 1, conn' = "open" PROVE IF Sends' THEN After' ELSE Before'
    <3>1. opens = 1 /\ conn = "open" /\ state # "Uninitialized"
      <4>1. opens = 1 /\ ~(opens' = opens + 1)
        BY <1>1, <1>2, <1>5, <2>2
      <4>2. Open => opens' = opens + 1
        BY DEF Open
      <4> QED
        BY <1>2, <1>5, <2>2, <4>1, <4>2 DEF MapInv
    <3>2. CASE Sends
      BY <2>2, <3>1, <3>2, AfterStep DEF MapInv
    <3>3. CASE ~Sends
      BY <1>2, <2>2, <3>1, <3>3, BeforeStep DEF MapInv
    <3> QED
      BY <3>2, <3>3
  <2> QED
    BY <1>2, <1>3, <2>1, <2>2 DEF MapInv
<1> QED
  BY <1>4, <1>5

\* Unless a map starts while the hello is unanswered, the service ends up with
\* the map that is being played: maps may follow one another before the service
\* is started, before the connection opens, before the hello is sent, and with
\* anything on its way in both directions once the handshake is completed.
THEOREM MapStaysCurrent == Spec /\ [][MapWaits]_vars => []MapIsCurrent
<1>1. Init => PlayersInv /\ MapInv
  BY PlayersStart DEF Init, MapInv, Nothing, Sends
<1>2. PlayersInv /\ MapInv /\ [Next]_vars /\ [MapWaits]_vars => (PlayersInv /\ MapInv)'
  <2> SUFFICES ASSUME PlayersInv, MapInv, [Next]_vars, [MapWaits]_vars PROVE (PlayersInv /\ MapInv)'
    OBVIOUS
  <2>1. MapWaits
    BY DEF MapWaits, vars, gameVars
  <2> QED
    BY <2>1, PlayersStep, MapStep
<1>3. MapInv => MapIsCurrent
  <2> SUFFICES ASSUME MapInv, opens = 1, Available PROVE currentMap = MapInfo(map)
    BY DEF MapIsCurrent
  <2>1. toApi = <<>> /\ toGame = <<>> /\ queue = <<>> /\ running = <<>> /\ Flow
    BY DEF Available, Quiet, Idle, MapInv, After
  <2> QED
    BY <2>1 DEF Flow, LastMap, LastAnswer
<1> QED
  BY <1>1, <1>2, <1>3, PTL DEF Spec
==============================================================================
