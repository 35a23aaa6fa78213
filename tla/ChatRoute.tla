------------------------------ MODULE ChatRoute ------------------------------
(***************************************************************************)
(* The chat route: a client's chat message goes from the gate's player     *)
(* server (module GatePlayers) to a chat server and its answer comes back  *)
(* through the gate's node server to the player that holds the id.         *)
(*                                                                         *)
(* All gate objects live on one thread, whose loop runs the node server    *)
(* first and the player server after it (GateServerThread::ThreadLoop):    *)
(* what the node server handles, it handles while the player server is     *)
(* between two passes (phase = "idle").  Chat servers are processes of     *)
(* their own; a connection between a server and the gate is TCP, in order  *)
(* until it breaks, and what is in flight is lost with it.                 *)
(***************************************************************************)
EXTENDS GatePlayers, FiniteSetsExt

CONSTANTS
    NodeServers,    \* ids of the servers that connect to the gate
    ChatServers,    \* those of type SERVER_TYPE_CHAT
    NodeFDs,        \* descriptors of the node server's connections
    MaxLinks,       \* bound: connections the servers make in all
    MaxAsks         \* bound: chat messages the clients send in all

Asks == 1 .. MaxAsks
Ends == {"unsent", "asked", "lost", "unhandled", "unclaimed"} \* of a message nobody was answered yet

RPC_CHAT_CHAT_REQ == 1301   \* the one id ModuleChat registers a handler for
MsgIds == {RPC_CHAT_CHAT_REQ, RPC_CHAT_CHAT_REQ + 1}    \* and another of the chat module

ASSUME ChatRouteAssumption ==
    /\ NodeServers \subseteq Nat /\ IsFiniteSet(NodeServers)
    /\ ChatServers \subseteq NodeServers
    /\ NoFd \notin NodeFDs
    /\ MaxLinks \in Nat /\ MaxAsks \in Nat
    /\ Ends \cap Objs = {}

VARIABLES
    m_mClientNodes, \* GateNodeServer: server id -> descriptor of its last report (nFD)
    nodeFd,         \* per server, the descriptor the gate has its connection under
    reported,       \* servers whose report on the current connection was handled
    links,          \* connections made so far
    toChat,         \* per server, packets on their way to it
    toGate,         \* per server, packets on their way to the gate
    asker,          \* per chat message, the connection that sent it
    msg_id,         \* per chat message, the id it was sent under (0 before that)
    fate,           \* per chat message, what became of it
    newest          \* the last connection that was given a player

nodeVars == <<m_mClientNodes, nodeFd, reported, links>>
wireVars == <<toChat, toGate, asker, msg_id, fate>>
chatVars == <<gateVars, nodeVars, wireVars, newest>>

ChatInit ==
    /\ GateInit
    /\ m_mClientNodes = [s \in {} |-> NoFd]
    /\ nodeFd = [s \in NodeServers |-> NoFd]
    /\ reported = {}
    /\ links = 0
    /\ toChat = [s \in NodeServers |-> <<>>]
    /\ toGate = [s \in NodeServers |-> <<>>]
    /\ asker = [n \in Asks |-> Null]
    /\ msg_id = [n \in Asks |-> 0]
    /\ fate = [n \in Asks |-> "unsent"]
    /\ newest = Null

-----------------------------------------------------------------------------
(* The player server's own steps. *)
PlayerServerStep ==
    /\ \/ LoopStarts
       \/ LoopReturns
       \/ \E fd \in FDs : ClientRefused(fd)
       \/ \E o \in Objs, ev \in Events : ClientEvent(o, ev)
       \/ \E o \in Objs : ClientHangsUp(o)
    /\ UNCHANGED <<nodeVars, wireVars, newest>>

PlayerConnects(fd, o) ==
    /\ ClientConnects(fd, o)
    /\ newest' = IF mNonPlayerList = <<>> THEN newest ELSE o
    /\ UNCHANGED <<nodeVars, wireVars>>

-----------------------------------------------------------------------------
(* A server (re)connects; its report follows on the same connection.       *)
ServerConnects(s, fd) ==
    /\ links < MaxLinks
    /\ nodeFd[s] = NoFd
    /\ \A t \in NodeServers : nodeFd[t] # fd
    /\ nodeFd' = [nodeFd EXCEPT ![s] = fd]
    /\ links' = links + 1
    /\ UNCHANGED <<gateVars, m_mClientNodes, reported, wireVars, newest>>

(* RemoveElement before AddElement: NFMapEx never overwrites an entry. *)
SetClientNode_AddOnly(s, fd) ==     \* slip: RemoveElement is missing
    m_mClientNodes' = [t \in DOMAIN m_mClientNodes \cup {s} |->
                          IF t \in DOMAIN m_mClientNodes THEN m_mClientNodes[t] ELSE fd]

SetClientNode(s, fd) ==
    m_mClientNodes' = [t \in DOMAIN m_mClientNodes \cup {s} |->
                          IF t = s THEN fd ELSE m_mClientNodes[t]]

OnReportToServer(s) ==
    /\ phase = "idle"
    /\ nodeFd[s] # NoFd
    /\ s \notin reported
    /\ SetClientNode(s, nodeFd[s])
    /\ reported' = reported \cup {s}
    /\ UNCHANGED <<gateVars, nodeFd, links, wireVars, newest>>

InFlight(s) ==
    {m.n : m \in {toChat[s][i] : i \in DOMAIN toChat[s]}
                 \cup {toGate[s][i] : i \in DOMAIN toGate[s]}}

(* The connection breaks.  GateNodeServer::OnClientDisconnect is empty: the *)
(* entry of the server stays, with a descriptor that is free for others.    *)
ServerDisconnects(s) ==
    /\ nodeFd[s] # NoFd
    /\ nodeFd' = [nodeFd EXCEPT ![s] = NoFd]
    /\ reported' = reported \ {s}
    /\ fate' = [n \in Asks |-> IF n \in InFlight(s) THEN "lost" ELSE fate[n]]
    /\ toChat' = [toChat EXCEPT ![s] = <<>>]
    /\ toGate' = [toGate EXCEPT ![s] = <<>>]
    /\ UNCHANGED <<gateVars, m_mClientNodes, links, asker, msg_id, newest>>

-----------------------------------------------------------------------------
(* typed_list[0]: the map is walked in the order of the ids. *)
ChatNodes == DOMAIN m_mClientNodes \cap ChatServers

(* Whoever the node server has under the descriptor of the first chat entry. *)
Receivers == {t \in NodeServers : nodeFd[t] = m_mClientNodes[Min(ChatNodes)]}

(* SendMsg finds nobody under a descriptor that is closed, and a server     *)
(* that is no chat server has no handler for GATE_ROUTE_TO_CHAT.            *)
SentPackToChat(m) ==
    IF ChatNodes # {} /\ Receivers \cap ChatServers # {}
    THEN LET t == CHOOSE t \in Receivers : TRUE IN
         /\ toChat' = [toChat EXCEPT ![t] = Append(@, m)]
         /\ fate' = [fate EXCEPT ![m.n] = "asked"]
    ELSE /\ fate' = [fate EXCEPT ![m.n] = "lost"]
         /\ UNCHANGED toChat

(* OnOtherMessage for a message of the chat module, whatever its id, from a *)
(* connection that conn_readcb still reads.                                 *)
ClientAsks(o, n, id) ==
    /\ phase = "loop"
    /\ o \in Live \ needRemove
    /\ "READING" \in armed[o]
    /\ fate[n] = "unsent" /\ \A k \in Asks : k < n => fate[k] # "unsent"
    /\ objFd[o] \in DOMAIN mPlayerSockMap
    /\ asker' = [asker EXCEPT ![n] = o]
    /\ msg_id' = [msg_id EXCEPT ![n] = id]
    /\ SentPackToChat([player_id |-> m_PlayerId[mPlayerSockMap[objFd[o]]], n |-> n])
    /\ UNCHANGED <<gateVars, nodeVars, toGate, newest>>

(* SendToGate: the packet that goes back names the player of the request.   *)
ChatToGate_NoPlayer(m) == [m EXCEPT !.player_id = 0]    \* slip: set_player_id is missing

ChatToGate(m) == m

(* The chat server takes a packet from the gate and answers it on the       *)
(* connection it came by, if the message has a handler (GetMsgHandle); any  *)
(* other it drops without an answer.  Its two earlier returns are never     *)
(* taken: ReceivePB parses what the gate itself serialised, and             *)
(* GetServerNetInfo finds the ConnectData of the connection the packet came *)
(* by, since NFNet::GetNetObject compares the real descriptor and not the   *)
(* key 0 (SockLeadsToItsServer in module NetClient), so the remark at the   *)
(* second, "TODO pServerData allways null", no longer describes the code.   *)
OnGateRouteChat(s) ==
    /\ toChat[s] # <<>>
    /\ toChat' = [toChat EXCEPT ![s] = Tail(@)]
    /\ LET m == Head(toChat[s]) IN
       \/ /\ msg_id[m.n] = RPC_CHAT_CHAT_REQ
          /\ toGate' = [toGate EXCEPT ![s] = Append(@, ChatToGate(m))]
          /\ UNCHANGED fate
       \/ /\ msg_id[m.n] # RPC_CHAT_CHAT_REQ
          /\ fate' = [fate EXCEPT ![m.n] = "unhandled"]
          /\ UNCHANGED toGate
    /\ UNCHANGED <<gateVars, nodeVars, asker, msg_id, newest>>

(* OnChatRouteBack: whoever holds the player id is sent the answer.         *)
OnChatRouteBack_Ignored(s) ==       \* slip: xData.msg_id() compared with another id
    /\ phase = "idle"
    /\ toGate[s] # <<>>
    /\ toGate' = [toGate EXCEPT ![s] = Tail(@)]
    /\ fate' = [fate EXCEPT ![Head(toGate[s]).n] = "unclaimed"]
    /\ UNCHANGED <<gateVars, nodeVars, toChat, asker, msg_id, newest>>

OnChatRouteBack(s) ==
    /\ phase = "idle"
    /\ toGate[s] # <<>>
    /\ toGate' = [toGate EXCEPT ![s] = Tail(@)]
    /\ LET m == Head(toGate[s]) IN
       IF m.player_id \notin DOMAIN mPlayerIDMap
       THEN fate' = [fate EXCEPT ![m.n] = "unclaimed"] /\ UNCHANGED fault
       ELSE LET p == mPlayerIDMap[m.player_id] IN
            IF Dangling(p)
            THEN fault' = TRUE /\ UNCHANGED fate
            ELSE /\ fate' = [fate EXCEPT ![m.n] = m_pNetObject[p]]
                 /\ UNCHANGED fault
    /\ UNCHANGED <<netVars, mNonPlayerList, mPlayerSockMap, mPlayerIDMap, m_pNetObject,
                   m_PlayerId, unserved, nodeVars, toChat, asker, msg_id, newest>>

-----------------------------------------------------------------------------
ChatNext ==
    /\ ~fault
    /\ \/ PlayerServerStep
       \/ \E fd \in FDs, o \in Objs : PlayerConnects(fd, o)
       \/ \E s \in NodeServers, fd \in NodeFDs : ServerConnects(s, fd)
       \/ \E s \in NodeServers : OnReportToServer(s)
       \/ \E s \in NodeServers : ServerDisconnects(s)
       \/ \E o \in Objs, n \in Asks, id \in MsgIds : ClientAsks(o, n, id)
       \/ \E s \in ChatServers : OnGateRouteChat(s)
       \/ \E s \in ChatServers : OnChatRouteBack(s)

ChatSpec == ChatInit /\ [][ChatNext]_chatVars

(* The gate's thread loops for ever and each pass of the node server polls  *)
(* all its connections; a chat server's thread does the same.               *)
ChatFairness ==
    /\ WF_chatVars(~fault /\ LoopStarts /\ PlayerServerStep)
    /\ WF_chatVars(~fault /\ LoopReturns /\ PlayerServerStep)
    /\ \A s \in ChatServers :
         /\ WF_chatVars(~fault /\ OnGateRouteChat(s))
         /\ SF_chatVars(~fault /\ OnChatRouteBack(s))

ChatFairSpec == ChatSpec /\ ChatFairness

-----------------------------------------------------------------------------
Packets == [player_id : {DefaultId}, n : Asks]

(* Types of the route: every packet carries the id that players really have. *)
ChatTypeOK ==
    /\ GateTypeOK
    /\ m_mClientNodes \in UNION {[D -> NodeFDs] : D \in SUBSET NodeServers}
    /\ nodeFd \in [NodeServers -> NodeFDs \cup {NoFd}]
    /\ reported \subseteq NodeServers
    /\ links \in 0 .. MaxLinks
    /\ toChat \in [NodeServers -> Seq(Packets)]
    /\ toGate \in [NodeServers -> Seq(Packets)]
    /\ asker \in [Asks -> Objs \cup {Null}]
    /\ msg_id \in [Asks -> MsgIds \cup {0}]
    /\ fate \in [Asks -> Ends \cup Objs]
    /\ newest \in Objs \cup {Null}

(* An answer only ever goes to the newest connection that was given a       *)
(* player, while that connection lives: not to one that has left, not to    *)
(* one that took its descriptor and not to an older one that once held the  *)
(* id, whatever disconnects the player server missed.                       *)
AnswersGoToNewest ==
    [][ \A n \in Asks : fate'[n] # fate[n] /\ fate'[n] \in Objs
                         => fate'[n] = newest /\ newest \in Live ]_chatVars

(* Entries of servers that left stay behind, and descriptors are reused.    *)
(* Still a chat message is not lost when it is sent while the first chat    *)
(* server of the register has reported on the connection it now has.        *)
FirstChatServerGetsIt ==
    [][ \A n \in Asks :
          /\ fate[n] = "unsent" /\ fate'[n] # "unsent"
          /\ ChatNodes # {} /\ Min(ChatNodes) \in reported
          => fate'[n] = "asked" /\ toChat'[Min(ChatNodes)] # toChat[Min(ChatNodes)] ]_chatVars

HoldsId(o) == o \in Live /\ \E id \in DOMAIN mPlayerIDMap : m_pNetObject[mPlayerIDMap[id]] = o

(* A client whose chat request was handed to a chat server gets its answer, *)
(* unless the connection to that server breaks or a newer client takes over *)
(* the id.  (A message of the chat module under any other id has no handler *)
(* and gets no answer: OnGateRouteChat drops it.)                           *)
AskerIsAnswered ==
    \A n \in Asks :
        (fate[n] = "asked" /\ msg_id[n] = RPC_CHAT_CHAT_REQ)
            ~> (fate[n] = asker[n] \/ fate[n] = "lost" \/ ~HoldsId(asker[n]))
=============================================================================
