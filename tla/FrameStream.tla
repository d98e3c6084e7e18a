---------------------------- MODULE FrameStream ----------------------------
(***************************************************************************)
(* The frames of the daq_data edge server on their way from Hashpipe (or   *)
(* the simulation) to the clients.  Each data product has a socket; a      *)
(* connection to it gets a handler of its own, which reads frame by frame  *)
(* and puts them into the bounded data queue.  _processing_loop discovers  *)
(* modules and products, numbers the frames and keeps the newest of each   *)
(* module and type, and each StreamImages loop polls that cache with       *)
(* _get_fresh_images_for_client.                                           *)
(*                                                                         *)
(* A frame is its module, its connection and its number within both;       *)
(* headers and pixels are left out.  Hashpipe writes a frame at once, so   *)
(* it is read whole or not at all.  A reconfiguration (InitHpIo) closes    *)
(* the sockets, replaces queue and cache and starts the frame ids again;   *)
(* its steps are in HpIoLifecycle.  A forced one tells the readers to      *)
(* leave by an event that is cleared at its end (ClientManager): one that  *)
(* wakes meanwhile leaves, one that sleeps through it goes on, with the    *)
(* last ids it has.  A poll in the middle finds an empty cache or the      *)
(* first frames, where the code would have it leave.                       *)
(***************************************************************************)
EXTENDS Integers, Sequences, SequencesExt

CONSTANTS
  Readers,     (* StreamImages RPCs                                        *)
  Modules,     (* telescope modules                                        *)
  Products,    (* data_products of the configuration                       *)
  Requests,    (* module_ids, in the iteration order of their set, <<>> for all, and types *)
  QueueSize,   (* maxsize of data_queue: 500                               *)
  WireSize,    (* bound: frames in the buffers of a connection             *)
  MaxConns,    (* bound: connections                                       *)
  MaxFrames,   (* bound: frames written                                    *)
  MaxInits     (* bound: reconfigurations                                  *)

DataProduct == {"img16", "img8", "ph256", "ph1024"}

ASSUME StreamAssumption ==
  /\ Modules # {} /\ Products # {} /\ Products \subseteq DataProduct
  /\ \A q \in Requests : q.modules \in Seq(Modules) /\ q.types # {}
  /\ {QueueSize, WireSize} \subseteq Nat \ {0}
  /\ {MaxConns, MaxFrames, MaxInits} \subseteq Nat

-----------------------------------------------------------------------------
(* Data products                                                           *)

IsPh(p) == p \in {"ph256", "ph1024"}

(* The key of the cache: "ph" or "movie".                                  *)
TypeOf(p) == IF IsPh(p) THEN "ph" ELSE "movie"
Types == {TypeOf(p) : p \in Products}

(* What an image tells of its product: type, shape and bytes per pixel.    *)
Props(p) ==
  [ph |-> IsPh(p),
   shape |-> IF p = "ph256" THEN <<16, 16>> ELSE <<32, 32>>,
   bytes_per_pixel |-> IF p = "img8" THEN 1 ELSE 2]

(* get_dp_name_from_props: the product such an image is of.                *)
DpName(props) == CHOOSE p \in DataProduct : Props(p) = props

-----------------------------------------------------------------------------
Conns == 1..MaxConns
Frames == [module : Modules, conn : Conns, number : Nat \ {0}]
Entries == Modules \X Types
Nothing == [id |-> -1, frame |-> {}]
Connection(state, p) == [at |-> state, product |-> p, wire |-> <<>>, pending |-> <<>>]
Unused == Connection("unused", CHOOSE p \in Products : TRUE)

VARIABLES
  listening, (* products whose socket is ready                             *)
  conn,      (* per connection: unused, open, closed (by Hashpipe) or done; its product;
                frames written and not read; the frame its handler is blocked putting *)
  sent,      (* per connection and module: frames written                  *)
  queue,     (* data_queue                                                 *)
  counter,   (* _frame_id_counter                                          *)
  cache,     (* latest_data_cache: per module and type the id and the newest frame *)
  found,     (* the keys of the cache, in insertion order                  *)
  products,  (* dp_configs of the modules: <<module, product>>             *)
  inits,     (* reconfigurations so far                                    *)
  streaming, (* per reader: inside the StreamImages loop                   *)
  wanted,    (* per reader: the module_ids and the types of its request    *)
  last,      (* per reader and type: last_sent_movie_id, last_sent_ph_id   *)
  since,     (* history, per reader: inits when its stream began           *)
  got        (* history, per reader and entry: the last frame sent to this client *)

sources == <<listening, conn, sent>>
hpio == <<queue, counter, cache, found, products, inits>>
clients == <<streaming, wanted, last, since, got>>
stream == <<sources, hpio, clients>>

StreamInit ==
  /\ listening = {}
  /\ conn = [c \in Conns |-> Unused]
  /\ sent = [k \in Conns \X Modules |-> 0]
  /\ queue = <<>>
  /\ counter = 0
  /\ cache = [e \in Entries |-> Nothing]
  /\ found = <<>>
  /\ products = {}
  /\ inits = 0
  /\ streaming = [r \in Readers |-> FALSE]
  /\ wanted = [r \in Readers |-> [modules |-> <<>>, types |-> {}]]
  /\ last = [r \in Readers |-> [t \in Types |-> -1]]
  /\ since = [r \in Readers |-> 0]
  /\ got = [r \in Readers |-> [e \in Entries |-> {}]]

-----------------------------------------------------------------------------
(* Sockets, Hashpipe and connection handlers                               *)

(* A source has bound its socket; one that cannot never does.              *)
Listen(p) ==
  /\ p \in Products \ listening
  /\ listening' = listening \cup {p}
  /\ UNCHANGED <<conn, sent, hpio, clients>>

(* run() sets the valid event when all sources are ready.                 *)
Valid == listening = Products

(* Hashpipe connects, also while an earlier connection's handler is busy.  *)
Connect(c, p) ==
  /\ conn[c].at = "unused" /\ \A d \in 1..c - 1 : conn[d].at # "unused"
  /\ p \in listening /\ \A d \in Conns : conn[d].at = "open" => conn[d].product # p
  /\ conn' = [conn EXCEPT ![c] = Connection("open", p)]
  /\ UNCHANGED <<listening, sent, hpio, clients>>

MoreToWrite == FoldFunction(+, 0, sent) < MaxFrames

Write(c, m) ==
  /\ conn[c].at = "open" /\ Len(conn[c].wire) < WireSize /\ MoreToWrite
  /\ sent' = [sent EXCEPT ![<<c, m>>] = @ + 1]
  /\ conn' = [conn EXCEPT ![c].wire = Append(@, [module |-> m, conn |-> c, number |-> sent[<<c, m>>] + 1])]
  /\ UNCHANGED <<listening, hpio, clients>>

(* Hashpipe closes: what it has written can still be read.                 *)
Disconnect(c) ==
  /\ conn[c].at = "open"
  /\ conn' = [conn EXCEPT ![c].at = "closed"]
  /\ UNCHANGED <<listening, sent, hpio, clients>>

Room == Len(queue) < QueueSize

(* The handler puts the frame, or blocks until there is room.              *)
Put(c, frame) ==
  \/ /\ Room
     /\ queue' = Append(queue, frame)
     /\ conn' = [conn EXCEPT ![c].wire = Tail(@)]
  \/ /\ ~Room
     /\ conn' = [conn EXCEPT ![c].wire = Tail(@), ![c].pending = <<frame>>]
     /\ UNCHANGED queue

Receive(c) ==
  /\ conn[c].wire # <<>> /\ conn[c].pending = <<>>
  /\ Put(c, Head(conn[c].wire))
  /\ UNCHANGED <<listening, sent, counter, cache, found, products, inits, clients>>

Unblock(c) ==
  /\ conn[c].pending # <<>> /\ Room
  /\ queue' = queue \o conn[c].pending
  /\ conn' = [conn EXCEPT ![c].pending = <<>>]
  /\ UNCHANGED <<listening, sent, counter, cache, found, products, inits, clients>>

(* The handler is at the end of a closed connection, or has read nothing   *)
(* for read_timeout seconds.                                               *)
HandlerEnds(c) ==
  /\ conn[c].at \in {"open", "closed"} /\ conn[c].wire \o conn[c].pending = <<>>
  /\ conn' = [conn EXCEPT ![c].at = "done"]
  /\ UNCHANGED <<listening, sent, hpio, clients>>

-----------------------------------------------------------------------------
(* The processing loop                                                     *)

(* Mutation: each entry counts its own frames.                             *)
NextIdOfEntry(entry) == cache[entry].id + 1

NextId(entry) == counter + 1

EntryOf(frame) == <<frame.module, TypeOf(conn[frame.conn].product)>>

(* A module or a product is seen for the first time.                       *)
Discover(frame) ==
  products' = products \cup {<<frame.module, DpName(Props(conn[frame.conn].product))>>}

(* The newest frame of a module and type, whatever its product.            *)
CacheImage(entry, frame) ==
  /\ cache' = [cache EXCEPT ![entry] = [id |-> NextId(entry), frame |-> {frame}]]
  /\ found' = IF Contains(found, frame.module) THEN found ELSE Append(found, frame.module)

Process ==
  /\ queue # <<>>
  /\ LET frame == Head(queue) IN
     /\ Discover(frame)
     /\ counter' = NextId(EntryOf(frame))
     /\ CacheImage(EntryOf(frame), frame)
  /\ queue' = Tail(queue)
  /\ UNCHANGED <<inits, sources, clients>>

(* The sources close their connections and sockets.                        *)
CloseSources ==
  /\ listening' = {}
  /\ conn' = [c \in Conns |-> IF conn[c].at = "unused" THEN Unused ELSE Connection("done", conn[c].product)]

(* InitHpIo: a new manager begins with nothing; the states of the readers  *)
(* are those of the server and stay.                                       *)
Reconfigure ==
  /\ inits < MaxInits
  /\ inits' = inits + 1
  /\ CloseSources
  /\ queue' = <<>> /\ counter' = 0 /\ found' = <<>> /\ products' = {}
  /\ cache' = [e \in Entries |-> Nothing]
  /\ UNCHANGED <<sent, clients>>

-----------------------------------------------------------------------------
(* Readers                                                                 *)

(* A slot is taken: its state is as reset() left it.                       *)
Open(r, request) ==
  /\ ~streaming[r] /\ Valid
  /\ streaming' = [streaming EXCEPT ![r] = TRUE]
  /\ wanted' = [wanted EXCEPT ![r] = request]
  /\ since' = [since EXCEPT ![r] = inits]
  /\ UNCHANGED <<last, got, sources, hpio>>

(* The modules a poll looks at, in order: the whitelist or the cache keys. *)
Order(r) == IF wanted[r].modules = <<>> THEN found ELSE wanted[r].modules

(* The id it finds at position i.                                          *)
IdAt(r, i, t) == cache[<<Order(r)[i], t>>].id

(* Mutation: frames are sent again when there is nothing newer.            *)
SentAgain(r, t) ==
  {i \in DOMAIN Order(r) :
     /\ t \in wanted[r].types
     /\ IdAt(r, i, t) >= last[r][t] /\ IdAt(r, i, t) > 0
     /\ \A j \in 1..(i - 1) : IdAt(r, j, t) < IdAt(r, i, t)}

(* The positions whose frame is sent: last_sent_..._id is raised with each *)
(* frame, so a frame must be newer than the last one sent and than those   *)
(* of all modules before it.                                               *)
Sent(r, t) ==
  {i \in DOMAIN Order(r) :
     /\ t \in wanted[r].types
     /\ IdAt(r, i, t) > last[r][t]
     /\ \A j \in 1..(i - 1) : IdAt(r, j, t) < IdAt(r, i, t)}

(* One poll; movie and pulse-height frames have separate last ids.         *)
Poll(r) ==
  /\ streaming[r]
  /\ got' = [got EXCEPT ![r] = [e \in Entries |->
       IF \E i \in Sent(r, e[2]) : Order(r)[i] = e[1] THEN cache[e].frame ELSE got[r][e]]]
  /\ last' = [last EXCEPT ![r] = [t \in Types |->
       IF Sent(r, t) = {} THEN last[r][t]
       ELSE LET i == CHOOSE i \in Sent(r, t) : \A j \in Sent(r, t) : j <= i
            IN IdAt(r, i, t)]]
  /\ UNCHANGED <<streaming, wanted, since, sources, hpio>>

(* Mutation: reset() forgets the last ids.                                 *)
CloseWithoutReset(r) ==
  /\ streaming[r]
  /\ streaming' = [streaming EXCEPT ![r] = FALSE]
  /\ since' = [since EXCEPT ![r] = 0]
  /\ got' = [got EXCEPT ![r] = [e \in Entries |-> {}]]
  /\ UNCHANGED <<wanted, last, sources, hpio>>

(* The stream ends, in whichever way; ReaderState.reset.                   *)
Close(r) ==
  /\ streaming[r]
  /\ streaming' = [streaming EXCEPT ![r] = FALSE]
  /\ wanted' = [wanted EXCEPT ![r] = [modules |-> <<>>, types |-> {}]]
  /\ last' = [last EXCEPT ![r] = [t \in Types |-> -1]]
  /\ since' = [since EXCEPT ![r] = 0]
  /\ got' = [got EXCEPT ![r] = [e \in Entries |-> {}]]
  /\ UNCHANGED <<sources, hpio>>

Handler(c) == Receive(c) \/ Unblock(c)

StreamNext ==
  \/ \E p \in Products : Listen(p) \/ \E c \in Conns : Connect(c, p)
  \/ \E c \in Conns : Disconnect(c) \/ Handler(c) \/ HandlerEnds(c) \/ \E m \in Modules : Write(c, m)
  \/ Process \/ Reconfigure
  \/ \E r \in Readers : Poll(r) \/ Close(r) \/ \E request \in Requests : Open(r, request)

StreamSpec == StreamInit /\ [][StreamNext]_stream

(* The event loop runs the handlers, the processing loop and the readers.  *)
StreamFairSpec ==
  /\ StreamSpec
  /\ WF_stream(Process)
  /\ \A c \in Conns : WF_stream(Handler(c))
  /\ \A r \in Readers : WF_stream(Poll(r))

-----------------------------------------------------------------------------
(* Properties                                                              *)

(* The variables keep their types and the queue its bound.                 *)
StreamTypeOK ==
  /\ listening \subseteq Products
  /\ \A c \in Conns :
       /\ conn[c].at \in {"unused", "open", "closed", "done"} /\ conn[c].product \in Products
       /\ conn[c].wire \in Seq(Frames)
       /\ conn[c].pending \in Seq(Frames) /\ Len(conn[c].pending) <= 1
  /\ queue \in Seq(Frames) /\ Len(queue) <= QueueSize
  /\ counter \in Nat /\ inits \in 0..MaxInits
  /\ \A e \in Entries : cache[e].id \in Nat \cup {-1} /\ cache[e].frame \subseteq Frames
  /\ found \in Seq(Modules) /\ products \subseteq Modules \X Products
  /\ streaming \in [Readers -> BOOLEAN]
  /\ last \in [Readers -> [Types -> Nat \cup {-1}]] /\ since \in [Readers -> 0..MaxInits]

(* What the handler of a connection has not put into the queue.            *)
Held(c) == conn[c].pending \o conn[c].wire

(* The frames of connection c and module m in q: their numbers, and that   *)
(* these go up.                                                            *)
IsOf(f, c, m) == f.conn = c /\ f.module = m
FrameNumbers(q, c, m) == {f.number : f \in {g \in ToSet(q) : IsOf(g, c, m)}}
Rising(q, c, m) ==
  \A i, j \in DOMAIN q : i < j /\ IsOf(q[i], c, m) /\ IsOf(q[j], c, m) => q[i].number < q[j].number

(* Nothing is lost or overtaken between the connection and the cache: the  *)
(* frames on their way are numbered without gap up to the last one written,*)
(* a cached frame is the one before them, unless a reconfiguration dropped *)
(* it all, and its product has been discovered.  Frame ids tell cached     *)
(* frames apart: no two entries share one, and none is above the counter.  *)
PipelineInOrder ==
  /\ StreamTypeOK
  /\ \A c \in Conns, m \in Modules : \E first \in 0..sent[<<c, m>>] :
       /\ Rising(queue \o Held(c), c, m)
       /\ FrameNumbers(queue \o Held(c), c, m) = (first + 1)..sent[<<c, m>>]
       /\ \A f \in cache[<<m, TypeOf(conn[c].product)>>].frame :
            f.conn = c => f.module = m /\ f.number = first /\ <<m, conn[c].product>> \in products
  /\ \A d, e \in Entries :
       cache[d] # Nothing => /\ cache[d].id \in 1..counter
                             /\ (cache[d].id = cache[e].id => d = e)

(* A stream never sends a frame twice and, of one connection, never one    *)
(* that is older than one it has sent, and nothing it did not ask for,     *)
(* whether or not hp_io is reconfigured while it sleeps.                   *)
NeverTwice ==
  [][\A r \in Readers, e \in Entries :
       streaming[r] /\ Poll(r) /\ (\E i \in Sent(r, e[2]) : Order(r)[i] = e[1]) =>
         \A new \in got'[r][e] :
           /\ e[2] \in wanted[r].types
           /\ \A old \in got[r][e] : old # new /\ (old.conn = new.conn => old.number < new.number)]_stream

(* The frame is the newest cached one among the modules the client wants.  *)
Newest(r, e) ==
  /\ cache[e] # Nothing /\ e[2] \in wanted[r].types
  /\ Contains(Order(r), e[1])
  /\ \A i \in DOMAIN Order(r) : IdAt(r, i, e[2]) <= cache[e].id

(* A client that wants a frame the cache holds as its newest one gets it,  *)
(* or one that has replaced it, as long as it stays: whoever used its slot *)
(* before, and whichever generation numbered the frame, if its stream was  *)
(* opened in that generation.                                              *)
Behind(r) ==
  /\ streaming[r] /\ since[r] = inits
  /\ \E e \in Entries : Newest(r, e) /\ got[r][e] # cache[e].frame
NewestArrives == \A r \in Readers : Behind(r) ~> ~Behind(r)

(* _get_fresh_images_for_client "checks the cache for images newer than    *)
(* what the client last received": when the newest image the client wants  *)
(* is not the one it has, a poll finds it.                                 *)
NewerFound ==
  \A r \in Readers, e \in Entries :
    Valid /\ streaming[r] /\ Newest(r, e) /\ got[r][e] # cache[e].frame
      => \E i \in Sent(r, e[2]) : Order(r)[i] = e[1]
=============================================================================
