---------------------------- MODULE MatrixRooms ----------------------------
(***************************************************************************)
(* How a dApp and a wallet find and share rooms of the Matrix relay: the   *)
(* pairing code, the pairing response, the rooms either side opens and     *)
(* joins, the room each side has recorded for the other, and what happens  *)
(* when a join is refused, a message is refused, a page is reloaded or a   *)
(* side logs in at another server.                                         *)
(*                                                                         *)
(* An address of a client is a pair of the client and a server, as in      *)
(* "@hash:server".  The relay is external: servers share their rooms, a    *)
(* room is its members, its invitations and its messages.  What follows a  *)
(* message to the listeners of a client is module P2PClient; here a        *)
(* message is handled when its callback has updated the records.           *)
(***************************************************************************)
EXTENDS Naturals, Sequences, FiniteSets

CONSTANTS
  DApp, Wallet,  \* the two clients
  Servers,       \* the relay servers
  Texts,         \* what the clients have to say, each message once
  Speaker,       \* the client that sends each message
  FirstHome,     \* the server each client is logged in at first
  Undefined,     \* stands for undefined
  Open,          \* stands for a pairing response, "@channel-open:..."
  MaxRooms,      \* bound: rooms that are opened
  MaxScans,      \* bound: how often a pairing code is scanned
  MaxRejoins,    \* how often a refused join is repeated, 10 in the code
  MaxLoads       \* bound: how often a page is loaded again

Clients == {DApp, Wallet}
Rooms == 1..MaxRooms
Bodies == Texts \cup {Open}
Addresses == Clients \X Servers

ASSUME MatrixRoomsAssumption ==
  /\ DApp # Wallet
  /\ Speaker \in [Texts -> Clients]
  /\ FirstHome \in [Clients -> Servers]
  /\ Undefined \notin Servers \cup Rooms
  /\ Open \notin Texts
  /\ {MaxRooms, MaxScans, MaxRejoins, MaxLoads} \subseteq Nat

VARIABLES
  rooms,     \* the relay: a sequence of rooms [creator, joined, invited, log]
  home,      \* the server each client uses (MATRIX_SELECTED_NODE)
  peerServer,\* the relayServer of the stored peer, Undefined when there is none
  roomIds,   \* MATRIX_PEER_ROOM_IDS: a room for each server of the peer
  known,     \* the rooms in the MatrixClientStore, which are preserved
  ready,     \* is the promise of the MatrixClient resolved?
  ignored,   \* ignoredRooms; 0 is a string that is the id of no room
  tasks,     \* handlers and calls that wait for the relay
  scans,     \* how often a code was scanned
  said,      \* messages whose sending has begun
  heard,     \* messages whose callback has run
  loads,     \* how often a page was loaded again
  excused    \* history: what need not arrive

storage == <<home, peerServer, roomIds, known>>
memory == <<ready, ignored, tasks>>
bounds == <<scans, said, heard, loads>>
roomsVars == <<rooms, storage, memory, bounds, excused>>

Peer(c) == IF c = DApp THEN Wallet ELSE DApp
Address(c) == <<c, home[c]>>

Unknown == [status |-> "UNKNOWN", members |-> {}, read |-> 0]
NoRooms == [s \in Servers |-> Undefined]

RelayRoom == [creator : Addresses, joined : SUBSET Addresses, invited : SUBSET Addresses,
              log : Seq([from : Addresses, body : Bodies])]

KnownRoom == [status : {"UNKNOWN", "INVITED", "JOINED"}, members : SUBSET Addresses,
              read : Nat]

Task == [do : {"look", "create", "wait", "put", "join", "rejoin", "handle"},
         body : Bodies \cup {Undefined}, server : Servers, room : Rooms \cup {Undefined},
         ids : [Servers -> Rooms \cup {Undefined}], tries : 0..MaxRejoins \cup {1}]

RoomsTypeOK ==
  /\ rooms \in Seq(RelayRoom)
  /\ Len(rooms) <= MaxRooms
  /\ home \in [Clients -> Servers]
  /\ peerServer \in [Clients -> Servers \cup {Undefined}]
  /\ roomIds \in [Clients -> [Servers -> Rooms \cup {Undefined}]]
  /\ known \in [Clients -> [Rooms -> KnownRoom]]
  /\ ready \in [Clients -> BOOLEAN]
  /\ ignored \in [Clients -> SUBSET (0..MaxRooms)]
  /\ tasks \in [Clients -> SUBSET Task]
  /\ scans \in 0..MaxScans
  /\ said \subseteq Texts
  /\ heard \subseteq said
  /\ loads \in 0..MaxLoads
  /\ excused \subseteq Bodies

RoomsInit ==
  /\ rooms = <<>>
  /\ home = FirstHome
  /\ peerServer = [c \in Clients |-> Undefined]
  /\ roomIds = [c \in Clients |-> NoRooms]
  /\ known = [c \in Clients |-> [r \in Rooms |-> Unknown]]
  /\ ready = [c \in Clients |-> FALSE]
  /\ ignored = [c \in Clients |-> {}]
  /\ tasks = [c \in Clients |-> {}]
  /\ scans = 0
  /\ said = {}
  /\ heard = {}
  /\ loads = 0
  /\ excused = {}

-----------------------------------------------------------------------------
(***************************************************************************)
(* Records of rooms and servers                                            *)
(***************************************************************************)

\* A task of client c, of which only the fields that matter are given.
NewTask(do, body, server, room) ==
  [do |-> do, body |-> body, server |-> server, room |-> room,
   ids |-> NoRooms, tries |-> 0]

Drop(c, t) == tasks' = [tasks EXCEPT ![c] = @ \ {t}]
Become(c, t, u) == tasks' = [tasks EXCEPT ![c] = (@ \ {t}) \cup {u}]

\* updateRelayServer: the stored peer, if there is one, has moved.
UpdateRelayServer(c, server) ==
  peerServer' = [peerServer EXCEPT ![c] = IF @ = Undefined THEN Undefined ELSE server]

(***************************************************************************)
(* updatePeerRoom.  A room that was recorded before, be it the same, adds  *)
(* the second character of its id (room[1]) to the ignored rooms.          *)
(***************************************************************************)
UpdatePeerRoom(c, server, room) ==
  /\ roomIds' = [roomIds EXCEPT ![c][server] = room]
  /\ ignored' = [ignored EXCEPT ![c] = IF roomIds[c][server] = Undefined
                                       THEN @ ELSE @ \cup {0}]

\* Variant: the room stays in the records.
DeleteRoomKept(c, room) ==
  /\ ignored' = [ignored EXCEPT ![c] = @ \cup {room}]
  /\ UNCHANGED roomIds

\* deleteRoomIdFromRooms
DeleteRoom(c, room) ==
  /\ ignored' = [ignored EXCEPT ![c] = @ \cup {room}]
  /\ roomIds' = [roomIds EXCEPT ![c] =
       [s \in Servers |-> IF @[s] = room THEN Undefined ELSE @[s]]]

JoinedRooms(c) == {r \in Rooms : known[c][r].status = "JOINED"}

\* The joined rooms that have the peer among their members; none is trusted when
\* one was ever ignored.
RelevantJoinedRooms(c, server) ==
  IF ignored[c] # {} THEN {}
  ELSE {r \in JoinedRooms(c) : <<Peer(c), server>> \in known[c][r].members}

\* What is under way is lost.
Excuse == excused' = said \cup {Open}

-----------------------------------------------------------------------------
(***************************************************************************)
(* The sync                                                                *)
(***************************************************************************)

Inside(c, r) == r <= Len(rooms) /\ Address(c) \in rooms[r].joined
IsInvited(c, r) == r <= Len(rooms) /\ Address(c) \in rooms[r].invited

\* The rooms a sync of c may tell of: those it joined and those it is invited to.
SyncedRooms(c) == {r \in Rooms : Inside(c, r) \/ IsInvited(c, r)}

\* Who has created or joined the room, as far as a sync of c tells: with an
\* invitation comes no more than who has created the room.
MembersFromEvents(c, r) ==
  IF Inside(c, r) THEN rooms[r].joined \cup {rooms[r].creator}
                  ELSE {rooms[r].creator}

FromSync(c, r) ==
  [status |-> IF Inside(c, r) THEN "JOINED" ELSE "INVITED",
   members |-> MembersFromEvents(c, r),
   read |-> IF Inside(c, r) THEN Len(rooms[r].log) ELSE 0]

\* The newer status, the members of both.
Merge(new, old) == [new EXCEPT !.members = @ \cup old.members]

\* The rooms in the store after a sync.
MergeRooms(c) ==
  [r \in Rooms |-> IF r \in SyncedRooms(c) THEN Merge(FromSync(c, r), known[c][r])
                                           ELSE known[c][r]]

\* The invitations a sync emits, each to a handler of its own.
EmitInvite(c) ==
  {NewTask("join", Undefined, rooms[r].creator[2], r) :
     r \in {q \in SyncedRooms(c) : IsInvited(c, q) /\ known[c][q].status # "INVITED"}}

\* The messages of a room that are new in a sync.
MessagesFromEvents(c, r) ==
  {rooms[r].log[i] : i \in known[c][r].read + 1 .. Len(rooms[r].log)}

\* The callbacks of c look for messages of its peer, if it has one, and at the
\* dApp for pairing responses.
IsForCallback(c, message) ==
  /\ message.from[1] = Peer(c)
  /\ IF message.body = Open THEN c = DApp ELSE peerServer[c] # Undefined

\* The messages a sync emits and a callback takes.
EmitMessage(c) ==
  UNION {{NewTask("handle", message.body, message.from[2], r) :
            message \in {q \in MessagesFromEvents(c, r) : IsForCallback(c, q)}} :
         r \in {q \in SyncedRooms(c) : Inside(c, q)}}

(***************************************************************************)
(* start(): the client is there after its first sync.  Of the messages     *)
(* that came in before, the callbacks get the initial event at most.       *)
(***************************************************************************)
Start(c) ==
  /\ ~ready[c]
  /\ ready' = [ready EXCEPT ![c] = TRUE]
  /\ known' = [known EXCEPT ![c] = MergeRooms(c)]
  /\ \E M \in SUBSET {t \in EmitMessage(c) : t.body # Open} :
       /\ Cardinality(M) <= 1
       /\ tasks' = [tasks EXCEPT ![c] = @ \cup EmitInvite(c) \cup M]
  /\ UNCHANGED <<rooms, home, peerServer, roomIds, ignored, bounds, excused>>

\* A poll brings something new.
SyncRooms(c) ==
  /\ ready[c]
  /\ MergeRooms(c) # known[c]
  /\ known' = [known EXCEPT ![c] = MergeRooms(c)]
  /\ tasks' = [tasks EXCEPT ![c] = @ \cup EmitInvite(c) \cup EmitMessage(c)]
  /\ UNCHANGED <<rooms, home, peerServer, roomIds, ready, ignored, bounds, excused>>

\* Only the storage is left of a page that is loaded again.
Load(c) ==
  /\ loads < MaxLoads
  /\ loads' = loads + 1
  /\ ready' = [ready EXCEPT ![c] = FALSE]
  /\ ignored' = [ignored EXCEPT ![c] = {}]
  /\ tasks' = [tasks EXCEPT ![c] = {}]
  /\ Excuse

ReloadPage(c) ==
  /\ Load(c)
  /\ UNCHANGED <<rooms, storage, scans, said, heard>>

\* Variant: reset() leaves the recorded rooms.
MoveWithRooms(c, server) ==
  /\ server # home[c]
  /\ Load(c)
  /\ home' = [home EXCEPT ![c] = server]
  /\ known' = [known EXCEPT ![c] = [r \in Rooms |-> Unknown]]
  /\ UNCHANGED <<rooms, peerServer, roomIds, scans, said, heard>>

(***************************************************************************)
(* A login fails and reset() clears the storage; the page, loaded again,   *)
(* chooses another server.  The peer is still stored.                      *)
(***************************************************************************)
Move(c, server) ==
  /\ server # home[c]
  /\ Load(c)
  /\ home' = [home EXCEPT ![c] = server]
  /\ roomIds' = [roomIds EXCEPT ![c] = NoRooms]
  /\ known' = [known EXCEPT ![c] = [r \in Rooms |-> Unknown]]
  /\ UNCHANGED <<rooms, peerServer, scans, said, heard>>

-----------------------------------------------------------------------------
(***************************************************************************)
(* Joining                                                                 *)
(***************************************************************************)

Enter(c, r) ==
  rooms' = [rooms EXCEPT ![r].joined = @ \cup {Address(c)},
                         ![r].invited = @ \ {Address(c)}]

\* What the handler of an invitation does after its first try to join: the one
\* who invites is at that server, and this is the room to reach it.
NoteInvite(c, t) ==
  /\ UpdateRelayServer(c, t.server)
  /\ UpdatePeerRoom(c, t.server, t.room)

\* The handler of an invitation and tryJoinRooms.
Join(c, t) ==
  /\ t.do = "join"
  /\ Enter(c, t.room)
  /\ NoteInvite(c, t)
  /\ Drop(c, t)
  /\ UNCHANGED <<home, known, ready, bounds, excused>>

\* Variant: nobody tries again.
JoinRefusedForGood(c, t) ==
  /\ t.do = "join"
  /\ NoteInvite(c, t)
  /\ Drop(c, t)
  /\ UNCHANGED <<rooms, home, known, ready, bounds, excused>>

\* The server refuses, "if we join the room too fast": a timer tries again, and
\* the handler does not wait for it.
JoinRefused(c, t) ==
  /\ t.do = "join"
  /\ NoteInvite(c, t)
  /\ Become(c, t, [t EXCEPT !.do = "rejoin", !.tries = 1])
  /\ UNCHANGED <<rooms, home, known, ready, bounds, excused>>

\* The timer: joined, refused again, or refused for the last time.
Rejoin(c, t) ==
  /\ t.do = "rejoin"
  /\ \/ /\ Enter(c, t.room)
        /\ Drop(c, t)
        /\ UNCHANGED excused
     \/ /\ t.tries < MaxRejoins
        /\ Become(c, t, [t EXCEPT !.tries = @ + 1])
        /\ UNCHANGED <<rooms, excused>>
     \/ /\ t.tries = MaxRejoins
        /\ Drop(c, t)
        /\ Excuse
        /\ UNCHANGED rooms
  /\ UNCHANGED <<storage, ready, ignored, bounds>>

-----------------------------------------------------------------------------
(***************************************************************************)
(* Pairing and sending                                                     *)
(***************************************************************************)

\* getPairingRequestInfo: the server in the code the dApp shows while it is ready.
Code == home[DApp]

\* A response in a room of its own, whatever rooms there are.
PairingResponse(server) == NewTask("create", Open, server, Undefined)

(***************************************************************************)
(* WalletP2PTransport.addPeer: the wallet stores the dApp and begins       *)
(* sendPairingResponse.                                                    *)
(***************************************************************************)
Scan ==
  /\ ready[Wallet]
  /\ ready[DApp]
  /\ scans < MaxScans
  /\ scans' = scans + 1
  /\ peerServer' = [peerServer EXCEPT ![Wallet] = Code]
  /\ tasks' = [tasks EXCEPT ![Wallet] = @ \cup {PairingResponse(Code)}]
  /\ excused' = excused \ {Open}
  /\ UNCHANGED <<rooms, home, roomIds, known, ready, ignored, said, heard, loads>>

\* Nobody is going to accept the invitation of c to room r any more: the sync has
\* brought it, and the page was loaded again before the join.
Forgotten(c, r) ==
  /\ IsInvited(c, r)
  /\ known[c][r].status = "INVITED"
  /\ \A t \in tasks[c] : t.do \in {"join", "rejoin"} => t.room # r

\* What c says can arrive: its peer is there, c knows where, the peer knows c, and
\* is in the room c has recorded, or will be.
Reachable(c) ==
  /\ ready[Peer(c)]
  /\ peerServer[c] = home[Peer(c)]
  /\ peerServer[Peer(c)] # Undefined
  /\ \A r \in Rooms : ~Forgotten(Peer(c), r)

\* sendMessage to a stored peer.  A wallet has something to say when it was asked.
Say(c, m) ==
  /\ ready[c]
  /\ Speaker[m] = c
  /\ m \notin said
  /\ peerServer[c] # Undefined
  /\ c = Wallet => \E q \in heard : Speaker[q] = DApp
  /\ said' = said \cup {m}
  /\ tasks' = [tasks EXCEPT ![c] = @ \cup {NewTask("look", m, peerServer[c], Undefined)}]
  /\ excused' = IF Reachable(c) THEN excused ELSE excused \cup {m}
  /\ UNCHANGED <<rooms, storage, ready, ignored, scans, heard, loads>>

(***************************************************************************)
(* getRelevantRoom: the recorded room; else one that is joined already, if *)
(* none was ever ignored; else a new one, with the records as they are now *)
(* in hand.                                                                *)
(***************************************************************************)
LookUp(c, t) ==
  /\ t.do = "look"
  /\ LET recorded == roomIds[c][t.server]
         relevant == RelevantJoinedRooms(c, t.server)
         put(r) == Become(c, t, [t EXCEPT !.do = "put", !.room = r])
     IN  \/ /\ recorded # Undefined
            /\ put(recorded)
            /\ UNCHANGED roomIds
         \/ /\ recorded = Undefined
            /\ \E r \in relevant :
                 /\ put(r)
                 /\ roomIds' = [roomIds EXCEPT ![c][t.server] = r]
         \/ /\ recorded = Undefined
            /\ relevant = {}
            /\ Become(c, t, [t EXCEPT !.do = "create", !.ids = roomIds[c]])
            /\ UNCHANGED roomIds
  /\ UNCHANGED <<rooms, home, peerServer, known, ready, ignored, bounds, excused>>

\* A room of this client, to which the peer is invited.
CreateTrustedPrivateRoom(c, server) ==
  rooms' = Append(rooms, [creator |-> Address(c), joined |-> {Address(c)},
                          invited |-> {<<Peer(c), server>>}, log |-> <<>>])

\* sendPairingResponse and getRelevantJoinedRoom open a room.
Create(c, t) ==
  /\ t.do = "create"
  /\ Len(rooms) < MaxRooms
  /\ CreateTrustedPrivateRoom(c, t.server)
  /\ IF t.body = Open THEN UpdatePeerRoom(c, t.server, Len(rooms) + 1)
                      ELSE UNCHANGED <<roomIds, ignored>>
  /\ Become(c, t, [t EXCEPT !.do = "wait", !.room = Len(rooms) + 1])
  /\ UNCHANGED <<home, peerServer, known, ready, bounds, excused>>

(***************************************************************************)
(* waitForJoin looks into the store until the room has two members.        *)
(* getRelevantRoom then writes the records it read before, with the room.  *)
(***************************************************************************)
PeerJoined(c, t) ==
  /\ t.do = "wait"
  /\ Cardinality(known[c][t.room].members) >= 2
  /\ Become(c, t, [t EXCEPT !.do = "put", !.ids = NoRooms])
  /\ IF t.body = Open
     THEN UNCHANGED roomIds
     ELSE roomIds' = [roomIds EXCEPT ![c] = [t.ids EXCEPT ![t.server] = t.room]]
  /\ UNCHANGED <<rooms, home, peerServer, known, ready, ignored, bounds, excused>>

\* "No one joined": the call fails.
GiveUp(c, t) ==
  /\ t.do = "wait"
  /\ Cardinality(known[c][t.room].members) < 2
  /\ Drop(c, t)
  /\ Excuse
  /\ UNCHANGED <<rooms, storage, ready, ignored, bounds>>

SendEvent(c, r, body) ==
  rooms' = [rooms EXCEPT ![r].log = Append(@, [from |-> Address(c), body |-> body])]

\* sendTextMessage: the relay takes the message of a member.
Put(c, t) ==
  /\ t.do = "put"
  /\ Inside(c, t.room)
  /\ SendEvent(c, t.room, t.body)
  /\ Drop(c, t)
  /\ UNCHANGED <<storage, ready, ignored, bounds, excused>>

(***************************************************************************)
(* M_FORBIDDEN: the room is forgotten and another one looked for.  When    *)
(* that is refused as well, the message is lost.                           *)
(***************************************************************************)
PutRefused(c, t) ==
  /\ t.do = "put"
  /\ ~Inside(c, t.room)
  /\ IF t.tries = 0
     THEN /\ DeleteRoom(c, t.room)
          /\ Become(c, t, [t EXCEPT !.do = "look", !.room = Undefined, !.tries = 1])
     ELSE /\ Drop(c, t)
          /\ UNCHANGED <<roomIds, ignored>>
  /\ UNCHANGED <<rooms, home, peerServer, known, ready, bounds, excused>>

(***************************************************************************)
(* A callback has got a message: the server and the room of the sender are *)
(* recorded.  A pairing response makes the wallet a stored peer.           *)
(***************************************************************************)
HandleMessage(c, t) ==
  /\ t.do = "handle"
  /\ UpdatePeerRoom(c, t.server, t.room)
  /\ IF t.body = Open
     THEN /\ peerServer' = [peerServer EXCEPT ![c] = t.server]
          /\ UNCHANGED heard
     ELSE /\ UpdateRelayServer(c, t.server)
          /\ heard' = heard \cup {t.body}
  /\ Drop(c, t)
  /\ UNCHANGED <<rooms, home, known, ready, scans, said, loads, excused>>

-----------------------------------------------------------------------------
\* A step of a task that is not given up.
Advance(c, t) ==
  \/ Join(c, t) \/ JoinRefused(c, t) \/ Rejoin(c, t) \/ HandleMessage(c, t)
  \/ LookUp(c, t) \/ Create(c, t) \/ PeerJoined(c, t) \/ Put(c, t) \/ PutRefused(c, t)

RoomsNext ==
  \/ Scan
  \/ \E c \in Clients :
       \/ Start(c) \/ SyncRooms(c) \/ ReloadPage(c)
       \/ \E s \in Servers : Move(c, s)
       \/ \E m \in Texts : Say(c, m)
       \/ \E t \in tasks[c] : Advance(c, t) \/ GiveUp(c, t)

RoomsSpec == RoomsInit /\ [][RoomsNext]_roomsVars

\* The clients start and poll, and the relay answers what they wait for.  They
\* have finitely many steps to take, so that each of them comes to its turn.
RoomsFairness ==
  WF_roomsVars(\E c \in Clients : Start(c) \/ SyncRooms(c) \/ \E t \in tasks[c] : Advance(c, t))

FairRoomsSpec == RoomsSpec /\ RoomsFairness

-----------------------------------------------------------------------------
(***************************************************************************)
(* Properties                                                              *)
(***************************************************************************)

(***************************************************************************)
(* The room recorded for an address of the peer is one to which both this  *)
(* client, where it is logged in now, and that address belong or are       *)
(* invited, whoever opened it and whatever was refused.                    *)
(***************************************************************************)
RecordedRoomsAreShared ==
  \A c \in Clients, s \in Servers :
    roomIds[c][s] # Undefined =>
      LET room == rooms[roomIds[c][s]]
      IN  {Address(c), <<Peer(c), s>>} \subseteq room.joined \cup room.invited

\* A pairing code that is scanned ends in a dApp that knows the wallet.
PairingCompletes ==
  scans > 0 ~> peerServer[DApp] # Undefined \/ Open \in excused \/ Len(rooms) = MaxRooms

(***************************************************************************)
(* What is sent arrives, although rooms are opened by both sides at once,  *)
(* joins are refused and repeated and messages come before joins.          *)
(***************************************************************************)
MessagesArrive ==
  \A m \in Texts :
    m \in said ~> m \in heard \cup excused \/ Len(rooms) = MaxRooms

=============================================================================
