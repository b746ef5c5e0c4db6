-------------------------- MODULE ETCDWatchProofs --------------------------
(***************************************************************************)
(* For any number of callers, events and failures: watch ids are paired    *)
(* with the right handlers, writes do not overlap, a thread that waits to  *)
(* cancel waits for ever, and no WatchHandle is left in suspense when the  *)
(* destructor is done.                                                     *)
(*                                                                         *)
(* All four follow from who may have something out on the stream.  Each    *)
(* operation is out at most once; while the stream is being set up nothing *)
(* but that is out; once it is up a read is always out, and a write just   *)
(* when current_watch_write_ says so.  A caller holds                      *)
(* pending_watch_handler_ from before its request is written until the     *)
(* answer is read, so one create request is under way at most, and it is   *)
(* that caller's.  And when the stream has failed nothing is left.         *)
(***************************************************************************)
EXTENDS ETCDWatchCreator, SequenceTheorems, FiniteSetTheorems, TLAPS

Completions == [tag : Tags, ok : BOOLEAN]
Responses   == [kind : {"created", "canceled", "event"}, watch : Nat, match : BOOLEAN]
Requests    == ({"create"} \X Callers) \cup ({"cancel"} \X Nat)
Owners      == Callers \cup {Nil}

TypeOK ==
    /\ stream \in {"null", "init", "up"} /\ buffer \in {"null", "empty", "full"}
    /\ handlers \in [WatchIds -> Owners]
    /\ write \in Callers \cup {"none", "init", "cancel"} /\ pending \in Owners
    /\ resolver \in {"none", "polling", "cancelling", "ended"}
    /\ pc \in [Callers -> {"idle", "calling", "wait_write", "wait_future", "returned", "threw"}]
    /\ future \in [Callers -> {"pending", "ready", "error"}]
    /\ handle \in [Callers -> {"pending", "fired", "failed"}]
    /\ flight \subseteq Tags
    /\ cq \in Seq(Completions)
    /\ broken \in BOOLEAN
    /\ requests \in Seq(Requests)
    /\ inbox \in Seq(Responses)
    /\ owner \in [WatchIds -> Owners]

-----------------------------------------------------------------------------
(* The operations of the stream. *)

InQueue(tag) == \E i \in DOMAIN cq : cq[i].tag = tag

\* The operation was started and its completion has not been taken from the queue.
Out(tag) == tag \in flight \/ InQueue(tag)

Once(tag) ==
    /\ ~(tag \in flight /\ InQueue(tag))
    /\ \A i, j \in DOMAIN cq : cq[i].tag = tag /\ cq[j].tag = tag => i = j

\* Before the first caller there is nothing.
Untouched ==
    /\ stream = "null" /\ write = "none" /\ pending = Nil
    /\ flight = {} /\ cq = <<>> /\ requests = <<>> /\ inbox = <<>> /\ active = {}
    /\ \A c \in Callers : pc[c] \in {"idle", "calling"}

StreamInv ==
    /\ \A tag \in Tags : Once(tag)
    /\ stream = "init" => write = "init" /\ Out("init") /\ ~Out("write") /\ ~Out("read")
    /\ stream = "up" =>
          /\ ~Out("init")
          /\ write = "none" => ~Out("write")
          /\ resolver = "polling" => Out("read")
    /\ stream = "null" => buffer = "null"
    /\ buffer = "full" => inbox # <<>>
    /\ (\E i \in DOMAIN cq : ~cq[i].ok) => broken
    /\ stream = "null" /\ resolver # "none" => broken
    /\ resolver = "none" => Untouched

-----------------------------------------------------------------------------
(* The create request that is under way, and the watches etcd has made. *)

Asked(i) == i \in DOMAIN requests /\ requests[i][1] = "create"

Answered(i) == i \in DOMAIN inbox /\ inbox[i].kind = "created"

HasWritten == {"wait_future", "returned", "threw"}

\* It is that of the caller whose handler is pending, and there is but one.
CreateInv ==
    stream # "null" =>
        /\ \A c \in Callers : pc[c] = "wait_write" => pending = c
        /\ \A i \in DOMAIN requests : Asked(i) =>
              requests[i][2] = pending /\ pc[pending] \in HasWritten
        /\ \A i \in DOMAIN inbox : Answered(i) =>
              /\ inbox[i].watch \in WatchIds /\ pending \in Callers
              /\ owner[inbox[i].watch] = pending /\ pc[pending] \in HasWritten
        /\ \A i, j \in DOMAIN requests : Asked(i) /\ Asked(j) => i = j
        /\ \A i, j \in DOMAIN inbox : Answered(i) /\ Answered(j) => i = j
        /\ \A i \in DOMAIN requests, j \in DOMAIN inbox : ~(Asked(i) /\ Answered(j))

\* The ids are given out in order, and at most one to a caller.
OwnerInv ==
    /\ \E k \in 0 .. Cardinality(Callers) : \A w \in WatchIds : owner[w] # Nil <=> w <= k
    /\ \A v, w \in WatchIds : owner[v] = owner[w] /\ owner[v] # Nil => v = w
    /\ \A c \in Callers, w \in WatchIds :
          pc[c] \notin HasWritten => owner[w] # c
    /\ \A i \in DOMAIN requests : Asked(i) => \A w \in WatchIds : owner[w] # requests[i][2]

\* A WatchHandle that waits is registered with a stream that works.
HandleInv ==
    \A c \in Callers :
        pc[c] \in {"wait_write", "wait_future", "returned"} /\ handle[c] = "pending" =>
            stream # "null" /\ c \in Registered

ControlInv == StreamInv /\ CreateInv /\ OwnerInv /\ HandleInv

Inv ==
    /\ TypeOK /\ HandlersPaired /\ CancelWaitsForEver /\ SettledAtJoin
    /\ Sane => ControlInv

-----------------------------------------------------------------------------
(* Sequences. *)

LEMMA TailFacts ==
    ASSUME NEW S, NEW s \in Seq(S), s # <<>>
    PROVE  /\ Tail(s) \in Seq(S) /\ Head(s) = s[1] /\ s[1] \in S /\ 1 \in DOMAIN s
           /\ \A i \in DOMAIN Tail(s) : i \in Nat \ {0} /\ i + 1 \in DOMAIN s /\ Tail(s)[i] = s[i + 1]
           /\ \A i \in DOMAIN s : i # 1 => i \in Int /\ i - 1 \in DOMAIN Tail(s) /\ Tail(s)[i - 1] = s[i]
<1>1. Len(s) \in Nat /\ DOMAIN s = 1 .. Len(s) /\ Len(s) > 0
      OBVIOUS
<1>2. Tail(s) \in Seq(S) /\ Len(Tail(s)) = Len(s) - 1
      BY HeadTailProperties
<1>3. DOMAIN Tail(s) = 1 .. Len(s) - 1
      BY <1>1, <1>2
<1>4. \A i \in 1 .. Len(s) - 1 : Tail(s)[i] = s[i + 1]
      BY <1>2, HeadTailProperties
<1>5. \A i \in DOMAIN s : i # 1 => i \in Int /\ i - 1 \in DOMAIN Tail(s) /\ Tail(s)[i - 1] = s[i]
      BY <1>1, <1>3, <1>4
<1>  QED
      BY <1>1, <1>2, <1>3, <1>4, <1>5

LEMMA AppendFacts ==
    ASSUME NEW S, NEW s \in Seq(S), NEW e \in S
    PROVE  /\ Append(s, e) \in Seq(S) /\ Append(s, e) # <<>>
           /\ Len(s) + 1 \in DOMAIN Append(s, e) /\ Append(s, e)[Len(s) + 1] = e
           /\ Len(s) + 1 \notin DOMAIN s
           /\ \A i \in DOMAIN Append(s, e) : i # Len(s) + 1 => i \in DOMAIN s
           /\ \A i \in DOMAIN s : i \in DOMAIN Append(s, e) /\ Append(s, e)[i] = s[i]
BY AppendProperties

-----------------------------------------------------------------------------
(* The completion queue. *)

\* A completion that is taken was the only one of its operation, which is no longer out.
LEMMA Taken ==
    ASSUME TypeOK, StreamInv, NEW tag \in Tags, NEW ok \in BOOLEAN, Takes(tag, ok)
    PROVE  /\ cq' \in Seq(Completions)
           /\ resolver = "polling" /\ InQueue(tag) /\ tag \notin flight /\ ~InQueue(tag)'
           /\ \A u \in Tags \ {tag} : InQueue(u)' <=> InQueue(u)
           /\ \A u \in Tags : \A i, j \in DOMAIN cq' : cq'[i].tag = u /\ cq'[j].tag = u => i = j
           /\ (\E i \in DOMAIN cq' : ~cq'[i].ok) => broken
           /\ ~ok => broken
<1>  USE DEF Takes
<1>1. cq \in Seq(Completions) /\ cq # <<>> /\ cq' = Tail(cq)
      BY DEF TypeOK
<1>2. /\ cq' \in Seq(Completions) /\ cq[1] = Completion(tag, ok) /\ 1 \in DOMAIN cq
      /\ \A i \in DOMAIN cq' : i \in Nat \ {0} /\ i + 1 \in DOMAIN cq /\ cq'[i] = cq[i + 1]
      /\ \A i \in DOMAIN cq : i # 1 => i \in Int /\ i - 1 \in DOMAIN cq' /\ cq'[i - 1] = cq[i]
      BY <1>1, TailFacts
<1>3. cq[1].tag = tag /\ cq[1].ok = ok
      BY <1>2 DEF Completion
<1>4. \A u \in Tags : Once(u)
      BY DEF StreamInv
<1>5. InQueue(tag) /\ tag \notin flight
      BY <1>2, <1>3, <1>4 DEF InQueue, Once
<1>6. ~InQueue(tag)'
  <2>  SUFFICES ASSUME NEW i \in DOMAIN cq', cq'[i].tag = tag PROVE FALSE
        BY DEF InQueue
  <2>1. i + 1 \in DOMAIN cq /\ cq[i + 1].tag = tag /\ i + 1 # 1
        BY <1>2
  <2>  QED
        BY <1>2, <1>3, <1>4, <2>1 DEF Once
<1>7. ASSUME NEW u \in Tags \ {tag} PROVE InQueue(u)' <=> InQueue(u)
  <2>1. InQueue(u)' => InQueue(u)
        BY <1>2 DEF InQueue
  <2>2. ASSUME NEW i \in DOMAIN cq, cq[i].tag = u PROVE InQueue(u)'
        BY <1>2, <1>3, <2>2 DEF InQueue
  <2>  QED
        BY <2>1, <2>2 DEF InQueue
<1>8. ASSUME NEW u \in Tags, NEW i \in DOMAIN cq', NEW j \in DOMAIN cq',
             cq'[i].tag = u, cq'[j].tag = u
      PROVE  i = j
  <2>1. i + 1 \in DOMAIN cq /\ j + 1 \in DOMAIN cq /\ cq[i + 1].tag = u /\ cq[j + 1].tag = u
        BY <1>2, <1>8
  <2>2. i + 1 = j + 1
        BY <1>4, <2>1 DEF Once
  <2>  QED
        BY <1>2, <2>2
<1>9. (\E i \in DOMAIN cq' : ~cq'[i].ok) => broken
      BY <1>2 DEF StreamInv
<1>10. ~ok => broken
      BY <1>2, <1>3 DEF StreamInv
<1>  QED
      BY <1>2, <1>5, <1>6, <1>7, <1>8, <1>9, <1>10

\* A completion that is put there is still that of an operation that is out.
LEMMA Put ==
    ASSUME TypeOK, StreamInv, NEW tag \in Tags, NEW ok \in BOOLEAN, Completes(tag, ok), ~ok => broken
    PROVE  /\ cq' \in Seq(Completions)
           /\ \A u \in Tags : Once(u)' /\ (Out(u)' <=> Out(u))
           /\ (\E i \in DOMAIN cq' : ~cq'[i].ok) => broken
<1>  USE DEF Completes
<1>  DEFINE n == Len(cq) + 1
<1>0. cq \in Seq(Completions) /\ Completion(tag, ok) \in Completions /\ cq' = Append(cq, Completion(tag, ok))
      BY DEF TypeOK, Completions, Completion
<1>1. /\ cq' \in Seq(Completions) /\ n \in DOMAIN cq' /\ cq'[n] = Completion(tag, ok)
      /\ n \notin DOMAIN cq
      /\ \A i \in DOMAIN cq' : i # n => i \in DOMAIN cq
      /\ \A i \in DOMAIN cq : i \in DOMAIN cq' /\ cq'[i] = cq[i]
      BY <1>0, AppendFacts
<1>2. cq'[n].tag = tag /\ cq'[n].ok = ok
      BY <1>1 DEF Completion
<1>  HIDE DEF n
<1>3. tag \in flight /\ ~InQueue(tag)
      BY DEF StreamInv, Once
<1>4. ASSUME NEW u \in Tags PROVE Once(u)' /\ (Out(u)' <=> Out(u))
  <2>1. Once(u)
        BY DEF StreamInv
  <2>2. CASE u = tag
    <3>1. InQueue(u)' /\ u \notin flight'
          BY <1>1, <1>2, <2>2 DEF InQueue
    <3>2. \A i, j \in DOMAIN cq' : cq'[i].tag = u /\ cq'[j].tag = u => i = j
          BY <1>1, <1>3, <2>2 DEF InQueue
    <3>  QED
          BY <1>3, <2>2, <3>1, <3>2 DEF Once, Out
  <2>3. CASE u # tag
    <3>1. InQueue(u)' <=> InQueue(u)
          BY <1>1, <1>2, <2>3 DEF InQueue
    <3>2. \A i, j \in DOMAIN cq' : cq'[i].tag = u /\ cq'[j].tag = u => i = j
          BY <1>1, <1>2, <2>1, <2>3 DEF Once
    <3>  QED
          BY <2>1, <2>3, <3>1, <3>2 DEF Once, Out
  <2>  QED
        BY <2>2, <2>3
<1>5. (\E i \in DOMAIN cq' : ~cq'[i].ok) => broken
      BY <1>1, <1>2 DEF StreamInv
<1>  QED
      BY <1>1, <1>4, <1>5

\* A response is there to be read.
LEMMA ResponseRead ==
    ASSUME TypeOK, StreamInv, buffer = "full", inbox' = Tail(inbox)
    PROVE  /\ inbox' \in Seq(Responses) /\ 1 \in DOMAIN inbox
           /\ Response = inbox[1] /\ Response \in Responses
           /\ \A i \in DOMAIN inbox' : i \in Nat \ {0} /\ i + 1 \in DOMAIN inbox /\ inbox'[i] = inbox[i + 1]
           /\ stream # "null"
<1>1. inbox \in Seq(Responses) /\ inbox # <<>> /\ stream # "null"
      BY DEF TypeOK, StreamInv
<1>  QED
      BY <1>1, TailFacts DEF Response

-----------------------------------------------------------------------------
(* Types. *)

LEMMA WriteType ==
    ASSUME TypeOK, NEW req \in Requests, NEW who \in Callers \cup {"cancel"}, Write(req, who)
    PROVE  /\ write' \in Callers \cup {"none", "init", "cancel"} /\ flight' \subseteq Tags
           /\ requests' \in Seq(Requests)
BY AppendFacts DEF TypeOK, Write, Tags

LEMMA TypeCaller ==
    ASSUME TypeOK, NEW c \in Callers, Call(c) \/ CallerStep(c)
    PROVE  TypeOK'
<1>0. <<"create", c>> \in Requests
      BY DEF Requests
<1>1. CASE Call(c)
      BY <1>1 DEF Call, TypeOK, members, external
<1>2. CASE Register(c)
  <2>1. pc' \in [Callers -> {"idle", "calling", "wait_write", "wait_future", "returned", "threw"}]
        BY <1>2 DEF Register, TypeOK
  <2>2. /\ write' \in Callers \cup {"none", "init", "cancel"} /\ flight' \subseteq Tags
        /\ requests' \in Seq(Requests)
    <3>1. CASE Write(<<"create", c>>, c)
          BY <1>0, <3>1, WriteType
    <3>2. CASE UNCHANGED <<write, flight, requests>>
          BY <3>2 DEF TypeOK
    <3>3. CASE write' = "init" /\ flight' = flight \cup {"init"} /\ UNCHANGED requests
          BY <3>3 DEF TypeOK, Tags
    <3>  QED
          BY <1>2, <3>1, <3>2, <3>3 DEF Register
  <2>3. stream' \in {"null", "init", "up"} /\ resolver' \in {"none", "polling", "cancelling", "ended"}
        BY <1>2 DEF Register, TypeOK
  <2>  QED
        BY <1>2, <2>1, <2>2, <2>3 DEF Register, TypeOK, Owners
<1>3. CASE WriteCreate(c)
  <2>1. /\ write' \in Callers \cup {"none", "init", "cancel"} /\ flight' \subseteq Tags
        /\ requests' \in Seq(Requests)
        BY <1>0, <1>3, WriteType DEF WriteCreate
  <2>  QED
        BY <1>3, <2>1 DEF WriteCreate, TypeOK
<1>4. CASE FutureGet(c)
      BY <1>4 DEF FutureGet, TypeOK, members, external
<1>  QED
      BY <1>1, <1>2, <1>3, <1>4 DEF CallerStep

LEMMA TypeResolve ==
    ASSUME TypeOK, StreamInv, Resolve
    PROVE  TypeOK'
<1>0. TRUE \in BOOLEAN /\ FALSE \in BOOLEAN /\ "init" \in Tags /\ "write" \in Tags /\ "read" \in Tags
      BY DEF Tags
<1>r. ASSUME buffer = "full", inbox' = Tail(inbox) PROVE inbox' \in Seq(Responses) /\ Response \in Responses
      BY <1>r, ResponseRead
<1>1. CASE OnFailure
  <2>1. PICK tag \in Tags : Takes(tag, FALSE)
        BY <1>1 DEF OnFailure
  <2>2. cq' \in Seq(Completions)
        BY <1>0, <2>1, Taken
  <2>3. handle' \in [Callers -> {"pending", "fired", "failed"}]
        BY <1>1 DEF OnFailure, TypeOK
  <2>4. future' \in [Callers -> {"pending", "ready", "error"}]
        BY <1>1 DEF OnFailure, TypeOK
  <2>  QED
        BY <1>1, <2>2, <2>3, <2>4 DEF OnFailure, TypeOK, Owners
<1>2. CASE OnInit
  <2>1. cq' \in Seq(Completions)
        BY <1>0, <1>2, Taken DEF OnInit
  <2>  QED
        BY <1>0, <1>2, <2>1 DEF OnInit, ResolveWrite, ReadNext, TypeOK
<1>3. CASE OnWriteFinished
  <2>1. cq' \in Seq(Completions)
        BY <1>0, <1>3, Taken DEF OnWriteFinished
  <2>  QED
        BY <1>3, <2>1 DEF OnWriteFinished, ResolveWrite, TypeOK
<1>4. CASE OnLostResponse
  <2>1. cq' \in Seq(Completions)
        BY <1>0, <1>4, Taken DEF OnLostResponse
  <2>  QED
        BY <1>0, <1>4, <2>1 DEF OnLostResponse, ReadNext, TypeOK
<1>5. CASE OnCreated
  <2>1. cq' \in Seq(Completions)
        BY <1>0, <1>5, Taken DEF OnCreated
  <2>2. buffer' \in {"null", "empty", "full"} /\ flight' \subseteq Tags
        BY <1>0, <1>5 DEF OnCreated, ReadNext, TypeOK
  <2>  QED
        BY <1>5, <1>r, <2>1, <2>2 DEF OnCreated, ClearPending, TypeOK, Owners
<1>6. CASE OnNothing
  <2>1. cq' \in Seq(Completions)
        BY <1>0, <1>6, Taken DEF OnNothing
  <2>  QED
        BY <1>0, <1>6, <1>r, <2>1 DEF OnNothing, ReadNext, TypeOK
<1>7. CASE OnEvent
  <2>1. cq' \in Seq(Completions)
        BY <1>0, <1>7, Taken DEF OnEvent
  <2>2. inbox' \in Seq(Responses) /\ Response.watch \in Nat
        BY <1>7, <1>r DEF OnEvent, Responses
  <2>3. handlers' \in [WatchIds -> Owners] /\ handle' \in [Callers -> {"pending", "fired", "failed"}]
        BY <1>7 DEF OnEvent, TypeOK, Owners
  <2>4. <<"cancel", Response.watch>> \in Requests
        BY <2>2 DEF Requests
  <2>5. Cancel(Response.watch)
        BY <1>7 DEF OnEvent
  <2>6. requests' \in Seq(Requests)
    <3>1. requests \in Seq(Requests)
          BY DEF TypeOK
    <3>2. Append(requests, <<"cancel", Response.watch>>) \in Seq(Requests)
          BY <2>4, <3>1, AppendFacts
    <3>  QED
          BY <2>5, <3>1, <3>2 DEF Cancel
  <2>7. /\ write' \in Callers \cup {"none", "init", "cancel"} /\ flight' \subseteq Tags
        /\ buffer' \in {"null", "empty", "full"}
        /\ resolver' \in {"none", "polling", "cancelling", "ended"}
        BY <1>0, <2>5 DEF Cancel, ReadNext, TypeOK
  <2>  QED
        BY <1>7, <2>1, <2>2, <2>3, <2>6, <2>7 DEF OnEvent, TypeOK
<1>  QED
      BY <1>1, <1>2, <1>3, <1>4, <1>5, <1>6, <1>7 DEF Resolve

LEMMA WatchIdsNat == Cardinality(Callers) \in Nat /\ WatchIds \subseteq Nat /\ WatchIds = 1 .. Cardinality(Callers)
BY CallersAssumption, FS_CardinalityType DEF WatchIds

\* The id of the next watch.
Fresh == Cardinality({v \in WatchIds : owner[v] # Nil}) + 1

LEMMA FreshType == Fresh \in Nat
<1>1. IsFiniteSet({v \in WatchIds : owner[v] # Nil})
  <2>1. IsFiniteSet(WatchIds)
        BY WatchIdsNat, FS_Interval
  <2>  QED
        BY <2>1, FS_Subset
<1>  QED
      BY <1>1, FS_CardinalityType DEF Fresh

LEMMA TypeWorld ==
    ASSUME TypeOK, StreamInv,
           Shutdown \/ Join \/ Transport \/ Break \/ \E w \in WatchIds, m \in BOOLEAN : SendEvent(w, m)
    PROVE  TypeOK'
<1>1. CASE Shutdown
      BY <1>1 DEF Shutdown, TryCancel, TypeOK, members
<1>2. CASE Join
      BY <1>2 DEF Join, TypeOK, members, external
<1>3. ASSUME NEW tag \in Tags, Succeeds(tag) PROVE TypeOK'
  <2>1. cq' \in Seq(Completions)
        BY <1>3, Put DEF Succeeds
  <2>  QED
        BY <1>3, <2>1 DEF Succeeds, Completes, TypeOK, threads
<1>4. ASSUME NEW tag \in Tags, Fails(tag) PROVE TypeOK'
  <2>1. cq' \in Seq(Completions)
        BY <1>4, Put DEF Fails
  <2>  QED
        BY <1>4, <2>1 DEF Fails, Completes, TypeOK, threads
<1>5. CASE Break
      BY <1>5 DEF Break, TypeOK, members, threads
<1>6. CASE Serve
  <2>1. requests \in Seq(Requests) /\ inbox \in Seq(Responses) /\ requests # <<>>
        BY <1>6 DEF Serve, TypeOK
  <2>2. Tail(requests) \in Seq(Requests) /\ Head(requests) \in Requests
        BY <2>1, TailFacts
  <2>3. requests' \in Seq(Requests)
        BY <1>6, <2>2 DEF Serve
  <2>4. CASE Head(requests)[1] = "create"
    <3>1. Head(requests)[2] \in Callers
          BY <2>2, <2>4 DEF Requests
    <3>2. owner' = [owner EXCEPT ![Fresh] = Head(requests)[2]] /\ inbox' = Append(inbox, Created(Fresh))
          BY <1>6, <2>4 DEF Serve, Fresh
    <3>3. Created(Fresh) \in Responses
          BY FreshType DEF Created, Responses
    <3>  QED
          BY <1>6, <2>1, <2>3, <3>1, <3>2, <3>3, AppendFacts DEF Serve, TypeOK, Owners, members, threads
  <2>5. CASE Head(requests)[1] = "cancel"
    <3>1. Head(requests)[2] \in Nat
          BY <2>2, <2>5 DEF Requests
    <3>2. Canceled(Head(requests)[2]) \in Responses
          BY <3>1 DEF Canceled, Responses
    <3>3. inbox' \in Seq(Responses)
      <4>1. Append(inbox, Canceled(Head(requests)[2])) \in Seq(Responses)
            BY <2>1, <3>2, AppendFacts
      <4>  QED
            BY <1>6, <2>1, <2>5, <4>1 DEF Serve
    <3>4. UNCHANGED owner
          BY <1>6, <2>5 DEF Serve
    <3>  QED
          BY <1>6, <2>3, <3>3, <3>4 DEF Serve, TypeOK, members, threads
  <2>  QED
        BY <1>6, <2>4, <2>5 DEF Serve
<1>7. ASSUME NEW w \in WatchIds, NEW m \in BOOLEAN, SendEvent(w, m) PROVE TypeOK'
  <2>1. Event(w, m) \in Responses
        BY WatchIdsNat DEF Event, Responses
  <2>2. inbox' \in Seq(Responses)
        BY <1>7, <2>1, AppendFacts DEF SendEvent, TypeOK
  <2>  QED
        BY <1>7, <2>2 DEF SendEvent, TypeOK, members, threads
<1>  QED
      BY <1>1, <1>2, <1>3, <1>4, <1>5, <1>6, <1>7 DEF Transport

-----------------------------------------------------------------------------
(* The operations that are out. *)

LEMMA StreamCaller ==
    ASSUME TypeOK, StreamInv, NEW c \in Callers, Call(c) \/ CallerStep(c), crashed' = "no"
    PROVE  StreamInv'
<1>0. "init" \in Tags /\ "write" \in Tags /\ "read" \in Tags
      BY DEF Tags
<1>1. CASE Call(c)
  <2>1. UNCHANGED <<stream, write, resolver, buffer, inbox, flight, cq, broken, requests, pending, active>>
        BY <1>1 DEF Call, members, external
  <2>2. Untouched => Untouched'
        BY <1>1, <2>1 DEF Call, Untouched, TypeOK
  <2>  QED
        BY <2>1, <2>2 DEF StreamInv, Once, Out, InQueue
<1>2. ASSUME Write(<<"create", c>>, c), write = "none", stream # "null", resolver # "none",
             UNCHANGED <<stream, resolver, buffer, inbox, cq, broken>>
      PROVE  StreamInv'
  <2>1. stream = "up" /\ ~Out("write")
        BY <1>2 DEF StreamInv, TypeOK
  <2>2. write' = c /\ flight' = flight \cup {"write"} /\ c # "none"
        BY <1>2, CallersAssumption DEF Write
  <2>3. \A tag \in Tags : InQueue(tag)' <=> InQueue(tag)
        BY <1>2 DEF InQueue
  <2>4. \A tag \in Tags : Once(tag)'
        BY <1>2, <2>1, <2>2, <2>3 DEF Once, Out, StreamInv
  <2>  QED
        BY <1>0, <1>2, <2>1, <2>2, <2>3, <2>4 DEF StreamInv, Out
<1>3. CASE Register(c)
  <2>1. CASE stream # "null" /\ write = "none"
    <3>1. resolver # "none"
          BY <2>1 DEF StreamInv, Untouched
    <3>  QED
          BY <1>2, <1>3, <2>1, <3>1 DEF Register
  <2>2. CASE stream # "null" /\ write # "none"
    <3>1. resolver # "none"
          BY <2>2 DEF StreamInv, Untouched
    <3>2. UNCHANGED <<stream, write, resolver, buffer, inbox, flight, cq, broken>>
          BY <1>3, <2>2 DEF Register
    <3>  QED
          BY <2>2, <3>1, <3>2 DEF StreamInv, Once, Out, InQueue
  <2>3. CASE stream = "null"
    <3>1. resolver = "none" /\ Untouched
          BY <1>3, <2>3 DEF Register, StreamInv
    <3>2. /\ flight' = {"init"} /\ cq' = <<>> /\ stream' = "init" /\ write' = "init"
          /\ resolver' = "polling" /\ UNCHANGED <<buffer, inbox, broken>>
          BY <1>3, <2>3, <3>1 DEF Register, Untouched
    <3>3. \A tag \in Tags : ~InQueue(tag)'
          BY <3>2 DEF InQueue
    <3>4. \A tag \in Tags : Once(tag)'
          BY <3>2, <3>3 DEF Once
    <3>  QED
          BY <1>0, <3>2, <3>3, <3>4 DEF StreamInv, Out
  <2>  QED
        BY <2>1, <2>2, <2>3
<1>4. CASE WriteCreate(c)
  <2>1. stream # "null" /\ resolver # "none"
        BY <1>4 DEF WriteCreate, StreamInv, Untouched
  <2>  QED
        BY <1>2, <1>4, <2>1 DEF WriteCreate, MayWrite
<1>5. CASE FutureGet(c)
  <2>1. UNCHANGED <<stream, write, resolver, buffer, inbox, flight, cq, broken>> /\ resolver # "none"
        BY <1>5 DEF FutureGet, members, external, StreamInv, Untouched
  <2>  QED
        BY <2>1 DEF StreamInv, Once, Out, InQueue
<1>  QED
      BY <1>1, <1>3, <1>4, <1>5 DEF CallerStep

\* The next read is started when none is out.
LEMMA StreamRead ==
    ASSUME TypeOK, StreamInv, Takes("read", TRUE), ReadNext(flight), crashed' = "no",
           UNCHANGED <<stream, write, resolver, broken>>
    PROVE  StreamInv'
<1>0. "init" \in Tags /\ "write" \in Tags /\ "read" \in Tags /\ TRUE \in BOOLEAN
      BY DEF Tags
<1>1. /\ resolver = "polling" /\ InQueue("read") /\ "read" \notin flight /\ ~InQueue("read")'
      /\ \A u \in Tags \ {"read"} : InQueue(u)' <=> InQueue(u)
      /\ \A u \in Tags : \A i, j \in DOMAIN cq' : cq'[i].tag = u /\ cq'[j].tag = u => i = j
      /\ (\E i \in DOMAIN cq' : ~cq'[i].ok) => broken
      BY <1>0, Taken
<1>2. stream = "up"
      BY <1>1 DEF ReadNext, StreamInv, Out, TypeOK
<1>3. flight' = flight \cup {"read"} /\ buffer' = "empty"
      BY DEF ReadNext
<1>4. \A u \in Tags : Once(u)'
      BY <1>1, <1>3 DEF StreamInv, Once
<1>  QED
      BY <1>0, <1>1, <1>2, <1>3, <1>4 DEF StreamInv, Out

LEMMA StreamResolve ==
    ASSUME TypeOK, StreamInv, Resolve, crashed' = "no"
    PROVE  StreamInv'
<1>0. "init" \in Tags /\ "write" \in Tags /\ "read" \in Tags /\ TRUE \in BOOLEAN /\ FALSE \in BOOLEAN
      BY DEF Tags
<1>1. CASE OnFailure
  <2>1. PICK tag \in Tags : Takes(tag, FALSE)
        BY <1>1 DEF OnFailure
  <2>2. /\ resolver = "polling" /\ InQueue(tag) /\ tag \notin flight /\ ~InQueue(tag)'
        /\ \A u \in Tags \ {tag} : InQueue(u)' <=> InQueue(u)
        /\ \A u \in Tags : \A i, j \in DOMAIN cq' : cq'[i].tag = u /\ cq'[j].tag = u => i = j
        /\ broken
        BY <1>0, <2>1, Taken
  <2>3. \A u \in Tags : Once(u)'
        BY <1>1, <2>2 DEF StreamInv, Once, OnFailure
  <2>  QED
        BY <1>1, <2>2, <2>3 DEF OnFailure, StreamInv
<1>2. CASE OnInit
  <2>1. /\ resolver = "polling" /\ InQueue("init") /\ "init" \notin flight /\ ~InQueue("init")'
        /\ \A u \in Tags \ {"init"} : InQueue(u)' <=> InQueue(u)
        /\ \A u \in Tags : \A i, j \in DOMAIN cq' : cq'[i].tag = u /\ cq'[j].tag = u => i = j
        /\ (\E i \in DOMAIN cq' : ~cq'[i].ok) => broken
        BY <1>0, <1>2, Taken DEF OnInit
  <2>2. stream = "init"
        BY <1>2, <2>1 DEF OnInit, ReadNext, StreamInv, Out, TypeOK
  <2>3. /\ stream' = "up" /\ write' = "none" /\ flight' = flight \cup {"read"} /\ buffer' = "empty"
        /\ UNCHANGED <<resolver, broken>>
        BY <1>2, <2>2 DEF OnInit, ReadNext, ResolveWrite
  <2>4. ~Out("write") /\ ~Out("read")
        BY <2>2 DEF StreamInv
  <2>5. \A u \in Tags : Once(u)'
        BY <2>1, <2>3, <2>4 DEF StreamInv, Once, Out
  <2>  QED
        BY <1>0, <2>1, <2>3, <2>4, <2>5 DEF StreamInv, Out
<1>3. CASE OnWriteFinished
  <2>1. /\ resolver = "polling" /\ InQueue("write") /\ "write" \notin flight /\ ~InQueue("write")'
        /\ \A u \in Tags \ {"write"} : InQueue(u)' <=> InQueue(u)
        /\ \A u \in Tags : \A i, j \in DOMAIN cq' : cq'[i].tag = u /\ cq'[j].tag = u => i = j
        /\ (\E i \in DOMAIN cq' : ~cq'[i].ok) => broken
        BY <1>0, <1>3, Taken DEF OnWriteFinished
  <2>2. stream # "init"
        BY <2>1 DEF StreamInv, Out
  <2>3. /\ write' = "none" /\ UNCHANGED <<stream, buffer, resolver, flight, broken, inbox>>
        BY <1>3 DEF OnWriteFinished, ResolveWrite
  <2>4. \A u \in Tags : Once(u)'
        BY <2>1, <2>3 DEF StreamInv, Once
  <2>  QED
        BY <1>0, <2>1, <2>2, <2>3, <2>4 DEF StreamInv, Out
<1>4. CASE OnLostResponse
      BY <1>4, StreamRead DEF OnLostResponse
<1>5. CASE OnCreated
      BY <1>5, StreamRead DEF OnCreated
<1>6. CASE OnNothing
      BY <1>6, StreamRead DEF OnNothing
<1>7. CASE OnEvent
  <2>1. /\ resolver = "polling" /\ InQueue("read") /\ "read" \notin flight /\ ~InQueue("read")'
        /\ \A u \in Tags \ {"read"} : InQueue(u)' <=> InQueue(u)
        /\ \A u \in Tags : \A i, j \in DOMAIN cq' : cq'[i].tag = u /\ cq'[j].tag = u => i = j
        /\ (\E i \in DOMAIN cq' : ~cq'[i].ok) => broken
        BY <1>0, <1>7, Taken DEF OnEvent
  <2>2. stream = "up"
        BY <1>7, <2>1 DEF OnEvent, StreamInv, Out, TypeOK
  <2>3. UNCHANGED <<stream, broken>> /\ Cancel(Response.watch)
        BY <1>7 DEF OnEvent
  <2>4. CASE write = "none"
    <3>1. /\ write' = "cancel" /\ flight' = flight \cup {"write", "read"} /\ buffer' = "empty"
          /\ UNCHANGED resolver
          BY <2>3, <2>4 DEF Cancel, ReadNext
    <3>2. ~Out("write")
          BY <2>2, <2>4 DEF StreamInv
    <3>3. \A u \in Tags : Once(u)'
          BY <2>1, <3>1, <3>2 DEF StreamInv, Once, Out
    <3>  QED
          BY <1>0, <2>1, <2>2, <2>3, <3>1, <3>3 DEF StreamInv, Out
  <2>5. CASE write # "none"
    <3>1. resolver' = "cancelling" /\ buffer' = "null" /\ UNCHANGED <<write, flight>>
          BY <2>3, <2>5 DEF Cancel
    <3>2. \A u \in Tags : Once(u)'
          BY <2>1, <3>1 DEF StreamInv, Once
    <3>  QED
          BY <1>0, <2>1, <2>2, <2>3, <2>5, <3>1, <3>2 DEF StreamInv, Out
  <2>  QED
        BY <2>4, <2>5
<1>  QED
      BY <1>1, <1>2, <1>3, <1>4, <1>5, <1>6, <1>7 DEF Resolve

LEMMA StreamWorld ==
    ASSUME TypeOK, StreamInv, life' # "joined",
           Shutdown \/ Join \/ Transport \/ Break \/ \E w \in WatchIds, m \in BOOLEAN : SendEvent(w, m)
    PROVE  StreamInv'
<1>0. "init" \in Tags /\ "write" \in Tags /\ "read" \in Tags /\ TRUE \in BOOLEAN /\ FALSE \in BOOLEAN
      BY DEF Tags
<1>1. CASE Shutdown
  <2>1. /\ UNCHANGED <<stream, write, resolver, buffer, inbox, flight, cq, requests, pending, active, pc>>
        /\ broken => broken'
        BY <1>1 DEF Shutdown, TryCancel, members
  <2>  QED
        BY <2>1 DEF StreamInv, Once, Out, InQueue, Untouched
<1>2. CASE Join
      BY <1>2 DEF Join
<1>3. ASSUME NEW tag \in Tags, NEW ok \in BOOLEAN, Completes(tag, ok), ~ok => broken,
             buffer' = buffer \/ (buffer' = "full" /\ inbox # <<>> /\ buffer # "null")
      PROVE  StreamInv'
  <2>1. /\ \A u \in Tags : Once(u)' /\ (Out(u)' <=> Out(u))
        /\ (\E i \in DOMAIN cq' : ~cq'[i].ok) => broken
        BY <1>3, Put
  <2>2. UNCHANGED <<stream, write, resolver, broken, inbox>> /\ resolver # "none"
        BY <1>3 DEF Completes, threads, StreamInv, Untouched
  <2>3. stream = "null" => buffer' = "null"
        BY <1>3 DEF StreamInv
  <2>4. buffer' = "full" => inbox # <<>>
        BY <1>3 DEF StreamInv
  <2>  QED
        BY <1>0, <2>1, <2>2, <2>3, <2>4 DEF StreamInv
<1>4. ASSUME NEW tag \in Tags, Succeeds(tag) PROVE StreamInv'
      BY <1>0, <1>3, <1>4 DEF Succeeds
<1>5. ASSUME NEW tag \in Tags, Fails(tag) PROVE StreamInv'
      BY <1>0, <1>3, <1>5 DEF Fails
<1>6. CASE Break
  <2>1. /\ UNCHANGED <<stream, write, resolver, buffer, inbox, flight, cq, requests, pending, active, pc>>
        /\ broken' = TRUE
        BY <1>6 DEF Break, members, threads
  <2>  QED
        BY <2>1 DEF StreamInv, Once, Out, InQueue, Untouched
<1>7. CASE Serve
  <2>1. UNCHANGED <<stream, write, resolver, buffer, flight, cq, broken>> /\ resolver # "none"
        BY <1>7 DEF Serve, members, threads, StreamInv, Untouched
  <2>2. inbox # <<>> => inbox' # <<>>
    <3>1. \A e : Append(inbox, e) # <<>>
          BY DEF TypeOK
    <3>  QED
          BY <1>7, <3>1 DEF Serve
  <2>  QED
        BY <2>1, <2>2 DEF StreamInv, Once, Out, InQueue
<1>8. ASSUME NEW w \in WatchIds, NEW m \in BOOLEAN, SendEvent(w, m) PROVE StreamInv'
  <2>1. UNCHANGED <<stream, write, resolver, buffer, flight, cq, broken>> /\ resolver # "none"
        BY <1>8 DEF SendEvent, members, threads, StreamInv, Untouched
  <2>2. inbox' # <<>>
        BY <1>8 DEF SendEvent, TypeOK
  <2>  QED
        BY <2>1, <2>2 DEF StreamInv, Once, Out, InQueue
<1>  QED
      BY <1>1, <1>2, <1>4, <1>5, <1>6, <1>7, <1>8 DEF Transport

-----------------------------------------------------------------------------
(* The create request under way. *)

\* Nothing is asked or answered while no handler is pending, or its caller has not written.
LEMMA NoneUnderWay ==
    ASSUME TypeOK, CreateInv, stream # "null", pending = Nil \/ pc[pending] \notin HasWritten
    PROVE  (\A i \in DOMAIN requests : ~Asked(i)) /\ (\A i \in DOMAIN inbox : ~Answered(i))
<1>1. ASSUME NEW i \in DOMAIN requests, Asked(i) PROVE FALSE
  <2>1. requests[i][2] = pending /\ pc[pending] \in HasWritten
        BY <1>1 DEF CreateInv
  <2>2. requests[i] \in Requests
        BY DEF TypeOK
  <2>3. requests[i][2] \in Callers
        BY <1>1, <2>2 DEF Asked, Requests
  <2>  QED
        BY <2>1, <2>3, CallersAssumption
<1>2. ASSUME NEW i \in DOMAIN inbox, Answered(i) PROVE FALSE
      BY <1>2, CallersAssumption DEF CreateInv
<1>  QED
      BY <1>1, <1>2

\* The caller that holds the pending handler writes its request, if the call still works.
LEMMA CreateWritten ==
    ASSUME TypeOK, NEW c \in Callers, pending' = c, pc' = [pc EXCEPT ![c] = "wait_future"],
           requests' = requests \/ requests' = Append(requests, <<"create", c>>),
           UNCHANGED <<inbox, owner>>,
           \A d \in Callers \ {c} : pc[d] # "wait_write",
           \A i \in DOMAIN requests : ~Asked(i),
           \A i \in DOMAIN inbox : ~Answered(i)
    PROVE  CreateInv'
<1>1. pc'[c] = "wait_future" /\ pc'[c] \in HasWritten /\ \A d \in Callers : pc'[d] # "wait_write"
      BY DEF TypeOK, HasWritten
<1>2. \A i \in DOMAIN inbox' : ~Answered(i)'
      BY DEF Answered
<1>3. CASE requests' = requests
  <2>1. \A i \in DOMAIN requests' : ~Asked(i)'
        BY <1>3 DEF Asked
  <2>  QED
        BY <1>1, <1>2, <2>1 DEF CreateInv
<1>4. CASE requests' = Append(requests, <<"create", c>>)
  <2>1. <<"create", c>> \in Requests /\ requests \in Seq(Requests)
        BY DEF Requests, TypeOK
  <2>2. /\ requests'[Len(requests) + 1] = <<"create", c>>
        /\ \A i \in DOMAIN requests' : i # Len(requests) + 1 => i \in DOMAIN requests
        /\ \A i \in DOMAIN requests : requests'[i] = requests[i]
        BY <1>4, <2>1, AppendFacts
  <2>3. \A i \in DOMAIN requests' : Asked(i)' => i = Len(requests) + 1
        BY <2>2 DEF Asked
  <2>4. requests'[Len(requests) + 1][2] = c
        BY <2>2
  <2>  QED
        BY <1>1, <1>2, <2>3, <2>4 DEF CreateInv
<1>  QED
      BY <1>3, <1>4

LEMMA CreateCaller ==
    ASSUME TypeOK, StreamInv, CreateInv, NEW c \in Callers, Call(c) \/ CallerStep(c), crashed' = "no"
    PROVE  CreateInv'
<1>1. ASSUME NEW a, NEW b, pc[c] = a, pc' = [pc EXCEPT ![c] = b], b # "wait_write",
             a \in HasWritten => b \in HasWritten,
             UNCHANGED <<stream, pending, requests, inbox, owner>>
      PROVE  CreateInv'
  <2>1. \A d \in Callers : /\ pc'[d] = "wait_write" => pc[d] = "wait_write"
                           /\ pc[d] \in HasWritten => pc'[d] \in HasWritten
        BY <1>1 DEF TypeOK
  <2>2. \A i : (Asked(i)' <=> Asked(i)) /\ (Answered(i)' <=> Answered(i))
        BY <1>1 DEF Asked, Answered
  <2>3. \A i \in DOMAIN requests : Asked(i) => requests[i][2] \in Callers
    <3>1. \A i \in DOMAIN requests : requests[i] \in Requests
          BY DEF TypeOK
    <3>  QED
          BY <3>1 DEF Asked, Requests
  <2>  QED
        BY <1>1, <2>1, <2>2, <2>3 DEF CreateInv
<1>2. CASE Call(c)
  <2>1. /\ pc[c] = "idle" /\ pc' = [pc EXCEPT ![c] = "calling"] /\ "idle" \notin HasWritten
        /\ UNCHANGED <<stream, pending, requests, inbox, owner>>
        BY <1>2 DEF Call, members, external, HasWritten
  <2>  QED
        BY <1>1, <2>1
<1>3. CASE Register(c)
  <2>0. pending = Nil /\ pending' = c /\ UNCHANGED <<inbox, owner>> /\ pc[c] = "calling"
        BY <1>3 DEF Register, MayRegister
  <2>1. CASE stream # "null"
    <3>1. (\A i \in DOMAIN requests : ~Asked(i)) /\ (\A i \in DOMAIN inbox : ~Answered(i))
          BY <2>0, <2>1, NoneUnderWay
    <3>2. \A d \in Callers : pc[d] # "wait_write"
          BY <2>0, <2>1, CallersAssumption DEF CreateInv
    <3>3. CASE write = "none"
          BY <1>3, <2>0, <2>1, <3>1, <3>2, <3>3, CreateWritten DEF Register, Write
    <3>4. CASE write # "none"
      <4>1. UNCHANGED <<stream, requests, inbox, owner>> /\ pc' = [pc EXCEPT ![c] = "wait_write"]
            BY <1>3, <2>0, <2>1, <3>4 DEF Register
      <4>2. (\A i \in DOMAIN requests' : ~Asked(i)') /\ (\A i \in DOMAIN inbox' : ~Answered(i)')
            BY <3>1, <4>1 DEF Asked, Answered
      <4>3. \A d \in Callers : pc'[d] = "wait_write" => d = c
            BY <3>2, <4>1 DEF TypeOK
      <4>  QED
            BY <2>0, <4>2, <4>3 DEF CreateInv
    <3>  QED
          BY <3>3, <3>4
  <2>2. CASE stream = "null"
    <3>1. Untouched
          BY <1>3, <2>2 DEF Register, StreamInv
    <3>2. requests' = <<>> /\ inbox' = <<>> /\ pc' = [pc EXCEPT ![c] = "wait_write"]
          BY <1>3, <2>0, <2>2, <3>1 DEF Register, Untouched
    <3>3. \A d \in Callers : pc'[d] = "wait_write" => d = c
          BY <3>1, <3>2 DEF TypeOK, Untouched
    <3>  QED
          BY <2>0, <3>2, <3>3 DEF CreateInv
  <2>  QED
        BY <2>1, <2>2
<1>4. CASE WriteCreate(c)
  <2>1. stream # "null" /\ pc[c] = "wait_write"
        BY <1>4 DEF WriteCreate
  <2>2. pending = c /\ \A d \in Callers \ {c} : pc[d] # "wait_write"
        BY <2>1 DEF CreateInv
  <2>3. (\A i \in DOMAIN requests : ~Asked(i)) /\ (\A i \in DOMAIN inbox : ~Answered(i))
        BY <2>1, <2>2, NoneUnderWay DEF HasWritten
  <2>  QED
        BY <1>4, <2>2, <2>3, CreateWritten DEF WriteCreate, Write
<1>5. CASE FutureGet(c)
      BY <1>1, <1>5 DEF FutureGet, members, external, HasWritten
<1>  QED
      BY <1>2, <1>3, <1>4, <1>5 DEF CallerStep

\* A response other than "created" leaves, and no create request comes.
LEMMA CreateFrame ==
    ASSUME TypeOK, CreateInv, stream' # "null" => stream # "null",
           UNCHANGED <<pc, pending, owner>>,
           \A i \in DOMAIN requests' : Asked(i)' => Asked(i) /\ requests'[i] = requests[i],
           \/ UNCHANGED inbox
           \/ \A i \in DOMAIN inbox' : i \in Nat /\ i + 1 \in DOMAIN inbox /\ inbox'[i] = inbox[i + 1]
           \/ \A i \in DOMAIN inbox' : Answered(i)' => i \in DOMAIN inbox /\ inbox'[i] = inbox[i]
    PROVE  CreateInv'
<1>  SUFFICES ASSUME stream' # "null", stream # "null" PROVE CreateInv'
      BY DEF CreateInv
<1>1. \A i \in DOMAIN requests' : Asked(i)' => i \in DOMAIN requests
      BY DEF Asked
<1>2. CASE \/ UNCHANGED inbox
           \/ \A i \in DOMAIN inbox' : Answered(i)' => i \in DOMAIN inbox /\ inbox'[i] = inbox[i]
  <2>1. \A i \in DOMAIN inbox' : Answered(i)' => i \in DOMAIN inbox /\ Answered(i) /\ inbox'[i] = inbox[i]
        BY <1>2 DEF Answered
  <2>  QED
        BY <1>1, <2>1 DEF CreateInv
<1>3. CASE \A i \in DOMAIN inbox' : i \in Nat /\ i + 1 \in DOMAIN inbox /\ inbox'[i] = inbox[i + 1]
  <2>1. \A i \in DOMAIN inbox' : Answered(i)' => i + 1 \in DOMAIN inbox /\ Answered(i + 1) /\ inbox'[i] = inbox[i + 1]
        BY <1>3 DEF Answered
  <2>2. \A i, j \in DOMAIN inbox' : Answered(i)' /\ Answered(j)' => i = j
    <3>  SUFFICES ASSUME NEW i \in DOMAIN inbox', NEW j \in DOMAIN inbox', Answered(i)', Answered(j)'
                  PROVE  i = j
          OBVIOUS
    <3>1. i + 1 = j + 1
          BY <2>1 DEF CreateInv
    <3>  QED
          BY <1>3, <3>1
  <2>3. \A i \in DOMAIN inbox' : Answered(i)' =>
            /\ inbox'[i].watch \in WatchIds /\ pending \in Callers
            /\ owner[inbox'[i].watch] = pending /\ pc[pending] \in HasWritten
        BY <2>1 DEF CreateInv
  <2>4. \A i \in DOMAIN requests', j \in DOMAIN inbox' : ~(Asked(i)' /\ Answered(j)')
        BY <1>1, <2>1 DEF CreateInv
  <2>5. \A i \in DOMAIN requests' : Asked(i)' => requests'[i][2] = pending /\ pc[pending] \in HasWritten
        BY <1>1 DEF CreateInv
  <2>6. \A i, j \in DOMAIN requests' : Asked(i)' /\ Asked(j)' => i = j
        BY <1>1 DEF CreateInv
  <2>7. \A c \in Callers : pc[c] = "wait_write" => pending = c
        BY DEF CreateInv
  <2>  QED
        BY <2>2, <2>3, <2>4, <2>5, <2>6, <2>7 DEF CreateInv
<1>  QED
      BY <1>2, <1>3

LEMMA CreateResolve ==
    ASSUME TypeOK, StreamInv, CreateInv, Resolve, crashed' = "no"
    PROVE  CreateInv'
<1>0. requests' = requests => \A i \in DOMAIN requests' : Asked(i)' => Asked(i) /\ requests'[i] = requests[i]
      BY DEF Asked
<1>1. CASE OnFailure
      BY <1>1 DEF OnFailure, CreateInv
<1>2. CASE OnInit
  <2>1. stream' # "null" => stream # "null"
        BY <1>2 DEF OnInit
  <2>  QED
        BY <1>0, <1>2, <2>1, CreateFrame DEF OnInit
<1>3. CASE OnWriteFinished \/ OnLostResponse
      BY <1>0, <1>3, CreateFrame DEF OnWriteFinished, OnLostResponse
<1>4. CASE OnCreated
  <2>1. /\ 1 \in DOMAIN inbox /\ Response = inbox[1] /\ stream # "null"
        /\ \A i \in DOMAIN inbox' : i \in Nat \ {0} /\ i + 1 \in DOMAIN inbox /\ inbox'[i] = inbox[i + 1]
        BY <1>4, ResponseRead DEF OnCreated
  <2>2. Answered(1) /\ pending' = Nil /\ UNCHANGED <<stream, pc, requests, owner>>
        BY <1>4, <2>1 DEF OnCreated, Answered, ClearPending
  <2>3. \A i \in DOMAIN requests : ~Asked(i)
        BY <2>1, <2>2 DEF CreateInv
  <2>4. \A i \in DOMAIN requests' : ~Asked(i)'
        BY <2>2, <2>3 DEF Asked
  <2>5. ASSUME NEW i \in DOMAIN inbox', Answered(i)' PROVE FALSE
    <3>1. i + 1 \in DOMAIN inbox /\ Answered(i + 1) /\ i + 1 # 1
          BY <2>1, <2>5 DEF Answered
    <3>  QED
          BY <2>1, <2>2, <3>1 DEF CreateInv
  <2>6. \A d \in Callers : pc'[d] # "wait_write"
        BY <2>1, <2>2 DEF CreateInv, HasWritten
  <2>  QED
        BY <2>4, <2>5, <2>6 DEF CreateInv
<1>5. CASE OnNothing
  <2>1. \A i \in DOMAIN inbox' : i \in Nat /\ i + 1 \in DOMAIN inbox /\ inbox'[i] = inbox[i + 1]
        BY <1>5, ResponseRead DEF OnNothing
  <2>  QED
        BY <1>0, <1>5, <2>1, CreateFrame DEF OnNothing
<1>6. CASE OnEvent
  <2>1. /\ \A i \in DOMAIN inbox' : i \in Nat /\ i + 1 \in DOMAIN inbox /\ inbox'[i] = inbox[i + 1]
        /\ Response.watch \in Nat
        BY <1>6, ResponseRead DEF OnEvent, Responses
  <2>2. \A i \in DOMAIN requests' : Asked(i)' => Asked(i) /\ requests'[i] = requests[i]
    <3>  DEFINE e == <<"cancel", Response.watch>>
    <3>1. requests' = requests \/ requests' = Append(requests, e)
          BY <1>6 DEF OnEvent, Cancel
    <3>2. CASE requests' = Append(requests, e)
      <4>1. e \in Requests /\ requests \in Seq(Requests)
            BY <2>1 DEF Requests, TypeOK
      <4>2. /\ requests'[Len(requests) + 1] = e
            /\ \A i \in DOMAIN requests' : i # Len(requests) + 1 => i \in DOMAIN requests
            /\ \A i \in DOMAIN requests : requests'[i] = requests[i]
            BY <3>2, <4>1, AppendFacts
      <4>  QED
            BY <4>2 DEF Asked
    <3>  QED
          BY <1>0, <3>1, <3>2
  <2>  QED
        BY <1>6, <2>1, <2>2, CreateFrame DEF OnEvent
<1>  QED
      BY <1>1, <1>2, <1>3, <1>4, <1>5, <1>6 DEF Resolve

-----------------------------------------------------------------------------
(* The watches etcd has made. *)

\* There is an id for a caller that has none yet: the others have one each at most.
LEMMA FreshId ==
    ASSUME TypeOK, OwnerInv, NEW c \in Callers, \A w \in WatchIds : owner[w] # c
    PROVE  Fresh \in WatchIds /\ \A w \in WatchIds : owner[w] # Nil <=> w < Fresh
<1>  DEFINE S == {v \in WatchIds : owner[v] # Nil}
            N == Cardinality(Callers)
            f == [v \in S |-> owner[v]]
<1>1. PICK k \in 0 .. N : \A w \in WatchIds : owner[w] # Nil <=> w <= k
      BY DEF OwnerInv
<1>2. N \in Nat /\ k \in Nat /\ k <= N /\ WatchIds = 1 .. N
      BY <1>1, WatchIdsNat
<1>3. S = 1 .. k
      BY <1>1, <1>2
<1>4. Cardinality(S) = k
  <2>1. Cardinality(1 .. k) = IF 1 > k THEN 0 ELSE k - 1 + 1
        BY <1>2, FS_Interval
  <2>  HIDE DEF S
  <2>  QED
        BY <1>2, <1>3, <2>1
<1>5. f \in Injection(S, Callers \ {c})
  <2>1. \A v \in S : owner[v] \in Callers \ {c}
        BY DEF TypeOK, Owners
  <2>2. \A v, w \in S : owner[v] = owner[w] => v = w
        BY DEF OwnerInv
  <2>  QED
        BY <2>1, <2>2 DEF Injection, IsInjective
<1>6. IsFiniteSet(Callers \ {c}) /\ Cardinality(Callers \ {c}) = N - 1
      BY CallersAssumption, FS_RemoveElement
<1>7. Cardinality(S) <= N - 1
  <2>  HIDE DEF f, S
  <2>  QED
        BY <1>5, <1>6, FS_Injection
<1>8. Fresh = k + 1
      BY <1>4 DEF Fresh
<1>  QED
      BY <1>1, <1>2, <1>4, <1>7, <1>8

\* Where neither ids nor requests to create change, only pc matters.
LEMMA OwnerFrame ==
    ASSUME OwnerInv, UNCHANGED owner,
           \A c \in Callers : pc'[c] \notin HasWritten => pc[c] \notin HasWritten,
           \A i \in DOMAIN requests' : Asked(i)' =>
               \/ \E j \in DOMAIN requests : Asked(j) /\ requests'[i][2] = requests[j][2]
               \/ \A w \in WatchIds : owner[w] # requests'[i][2]
    PROVE  OwnerInv'
<1>1. \E k \in 0 .. Cardinality(Callers) : \A w \in WatchIds : owner[w] # Nil <=> w <= k
      BY DEF OwnerInv
<1>2. \A c \in Callers, w \in WatchIds : pc'[c] \notin HasWritten => owner[w] # c
      BY DEF OwnerInv
<1>3. \A i \in DOMAIN requests' : Asked(i)' => \A w \in WatchIds : owner[w] # requests'[i][2]
      BY DEF OwnerInv
<1>  QED
      BY <1>1, <1>2, <1>3 DEF OwnerInv

\* A caller asks once, and then owns nothing.
LEMMA OwnerWritten ==
    ASSUME TypeOK, OwnerInv, NEW c \in Callers, pc[c] \notin HasWritten, UNCHANGED owner,
           NEW b, pc' = [pc EXCEPT ![c] = b],
           requests' = requests \/ requests' = Append(requests, <<"create", c>>)
    PROVE  OwnerInv'
<1>1. \A d \in Callers : pc'[d] \notin HasWritten => pc[d] \notin HasWritten
      BY DEF TypeOK
<1>2. \A w \in WatchIds : owner[w] # c
      BY DEF OwnerInv
<1>3. CASE requests' = requests
      BY <1>1, <1>3, OwnerFrame DEF Asked
<1>4. CASE requests' = Append(requests, <<"create", c>>)
  <2>1. <<"create", c>> \in Requests /\ requests \in Seq(Requests)
        BY DEF Requests, TypeOK
  <2>2. /\ requests'[Len(requests) + 1] = <<"create", c>>
        /\ \A i \in DOMAIN requests' : i # Len(requests) + 1 => i \in DOMAIN requests
        /\ \A i \in DOMAIN requests : requests'[i] = requests[i]
        BY <1>4, <2>1, AppendFacts
  <2>3. ASSUME NEW i \in DOMAIN requests', Asked(i)'
        PROVE  \/ \E j \in DOMAIN requests : Asked(j) /\ requests'[i][2] = requests[j][2]
               \/ \A w \in WatchIds : owner[w] # requests'[i][2]
    <3>1. CASE i = Len(requests) + 1
          BY <1>2, <2>2, <3>1
    <3>2. CASE i # Len(requests) + 1
          BY <2>2, <2>3, <3>2 DEF Asked
    <3>  QED
          BY <3>1, <3>2
  <2>  QED
        BY <1>1, <2>3, OwnerFrame
<1>  QED
      BY <1>3, <1>4

LEMMA OwnerCaller ==
    ASSUME TypeOK, OwnerInv, NEW c \in Callers, Call(c) \/ CallerStep(c)
    PROVE  OwnerInv'
<1>1. CASE Call(c)
      BY <1>1, OwnerWritten DEF Call, members, external, HasWritten
<1>2. CASE Register(c)
  <2>1. pc[c] \notin HasWritten /\ UNCHANGED owner
        BY <1>2 DEF Register, HasWritten
  <2>2. pc' = [pc EXCEPT ![c] = "wait_write"] \/ pc' = [pc EXCEPT ![c] = "wait_future"]
        BY <1>2 DEF Register
  <2>3. requests' = requests \/ requests' = Append(requests, <<"create", c>>)
        BY <1>2 DEF Register, Write
  <2>  QED
        BY <2>1, <2>2, <2>3, OwnerWritten
<1>3. CASE WriteCreate(c)
      BY <1>3, OwnerWritten DEF WriteCreate, Write, HasWritten
<1>4. CASE FutureGet(c)
  <2>1. UNCHANGED <<owner, requests>>
        BY <1>4 DEF FutureGet, external
  <2>2. \A d \in Callers : pc'[d] \notin HasWritten => pc[d] \notin HasWritten
        BY <1>4 DEF FutureGet, HasWritten, TypeOK
  <2>  QED
        BY <2>1, <2>2, OwnerFrame DEF Asked
<1>  QED
      BY <1>1, <1>2, <1>3, <1>4 DEF CallerStep

LEMMA OwnerResolve ==
    ASSUME TypeOK, StreamInv, OwnerInv, Resolve
    PROVE  OwnerInv'
<1>1. CASE OnEvent
  <2>1. Response.watch \in Nat /\ UNCHANGED <<owner, pc>>
        BY <1>1, ResponseRead DEF OnEvent, Responses
  <2>2. \A i \in DOMAIN requests' : Asked(i)' => Asked(i) /\ i \in DOMAIN requests /\ requests'[i] = requests[i]
    <3>  DEFINE e == <<"cancel", Response.watch>>
    <3>1. requests' = requests \/ requests' = Append(requests, e)
          BY <1>1 DEF OnEvent, Cancel
    <3>2. CASE requests' = Append(requests, e)
      <4>1. e \in Requests /\ requests \in Seq(Requests)
            BY <2>1 DEF Requests, TypeOK
      <4>2. /\ requests'[Len(requests) + 1] = e
            /\ \A i \in DOMAIN requests' : i # Len(requests) + 1 => i \in DOMAIN requests
            /\ \A i \in DOMAIN requests : requests'[i] = requests[i]
            BY <3>2, <4>1, AppendFacts
      <4>  QED
            BY <4>2 DEF Asked
    <3>3. CASE requests' = requests
          BY <3>3 DEF Asked
    <3>  QED
          BY <3>1, <3>2, <3>3
  <2>  QED
        BY <2>1, <2>2, OwnerFrame
<1>2. CASE OnFailure \/ OnInit \/ OnWriteFinished \/ OnLostResponse \/ OnCreated \/ OnNothing
  <2>1. UNCHANGED <<owner, requests, pc>>
        BY <1>2 DEF OnFailure, OnInit, OnWriteFinished, OnLostResponse, OnCreated, OnNothing
  <2>  QED
        BY <2>1, OwnerFrame DEF Asked
<1>  QED
      BY <1>1, <1>2 DEF Resolve

\* What etcd does with the request at the head.
LEMMA Served ==
    ASSUME TypeOK, StreamInv, Serve
    PROVE  /\ requests \in Seq(Requests) /\ 1 \in DOMAIN requests /\ Head(requests) = requests[1]
           /\ requests[1] \in Requests /\ stream # "null"
           /\ \A i \in DOMAIN requests' :
                 i \in Nat \ {0} /\ i + 1 \in DOMAIN requests /\ requests'[i] = requests[i + 1]
<1>1. requests \in Seq(Requests) /\ requests # <<>> /\ requests' = Tail(requests)
      BY DEF Serve, TypeOK
<1>2. stream # "null"
      BY <1>1 DEF Serve, StreamInv, Untouched
<1>  QED
      BY <1>1, <1>2, TailFacts

\* The owner of a new watch has written its request, and had no watch.
LEMMA OwnerServe ==
    ASSUME TypeOK, StreamInv, CreateInv, OwnerInv, Serve
    PROVE  OwnerInv'
<1>1. /\ 1 \in DOMAIN requests /\ Head(requests) = requests[1] /\ requests[1] \in Requests
      /\ stream # "null" /\ UNCHANGED pc
      /\ \A i \in DOMAIN requests' :
            i \in Nat \ {0} /\ i + 1 \in DOMAIN requests /\ requests'[i] = requests[i + 1]
      BY Served DEF Serve, threads
<1>2. CASE requests[1][1] = "create"
  <2>  DEFINE c == requests[1][2]
              w == Fresh
  <2>1. Asked(1) /\ c \in Callers
        BY <1>1, <1>2 DEF Asked, Requests
  <2>2. owner' = [owner EXCEPT ![w] = c]
        BY <1>1, <1>2 DEF Serve, Fresh
  <2>3. \A v \in WatchIds : owner[v] # c
        BY <1>1, <2>1 DEF OwnerInv
  <2>4. w \in WatchIds /\ \A v \in WatchIds : owner[v] # Nil <=> v < w
        BY <2>1, <2>3, FreshId
  <2>5. pc[c] \in HasWritten
        BY <1>1, <2>1 DEF CreateInv
  <2>  HIDE DEF c, w
  <2>6. \A v \in WatchIds : owner'[v] = IF v = w THEN c ELSE owner[v]
        BY <2>2, <2>4 DEF TypeOK
  <2>7. \E k \in 0 .. Cardinality(Callers) : \A v \in WatchIds : owner'[v] # Nil <=> v <= k
    <3>1. w \in 0 .. Cardinality(Callers)
          BY <2>4, WatchIdsNat
    <3>2. \A v \in WatchIds : owner'[v] # Nil <=> v <= w
          BY <2>1, <2>4, <2>6, WatchIdsNat, CallersAssumption
    <3>  QED
          BY <3>1, <3>2
  <2>8. \A u, v \in WatchIds : owner'[u] = owner'[v] /\ owner'[u] # Nil => u = v
        BY <2>3, <2>6 DEF OwnerInv
  <2>9. \A d \in Callers, v \in WatchIds : pc[d] \notin HasWritten => owner'[v] # d
        BY <2>5, <2>6 DEF OwnerInv
  <2>10. ASSUME NEW i \in DOMAIN requests', Asked(i)' PROVE FALSE
    <3>1. Asked(i + 1) /\ i + 1 # 1 /\ i + 1 \in DOMAIN requests
          BY <1>1, <2>10 DEF Asked
    <3>  QED
          BY <1>1, <2>1, <3>1 DEF CreateInv
  <2>  QED
        BY <1>1, <2>7, <2>8, <2>9, <2>10 DEF OwnerInv
<1>3. CASE requests[1][1] = "cancel"
  <2>1. UNCHANGED owner
        BY <1>1, <1>3 DEF Serve
  <2>2. \A i \in DOMAIN requests' : Asked(i)' => Asked(i + 1)
        BY <1>1 DEF Asked
  <2>  QED
        BY <1>1, <2>1, <2>2, OwnerFrame
<1>  QED
      BY <1>1, <1>2, <1>3 DEF Serve

LEMMA OwnerWorld ==
    ASSUME TypeOK, StreamInv, CreateInv, OwnerInv,
           Shutdown \/ Join \/ Transport \/ Break \/ \E w \in WatchIds, m \in BOOLEAN : SendEvent(w, m)
    PROVE  OwnerInv'
<1>1. CASE Serve
      BY <1>1, OwnerServe
<1>2. ASSUME NEW tag \in Tags, Succeeds(tag) \/ Fails(tag) PROVE UNCHANGED <<owner, requests, pc>>
      BY <1>2 DEF Succeeds, Fails, Completes, threads
<1>3. ASSUME Shutdown \/ Join \/ Break \/ \E w \in WatchIds, m \in BOOLEAN : SendEvent(w, m)
      PROVE  UNCHANGED <<owner, requests, pc>>
      BY <1>3 DEF Shutdown, Join, Break, SendEvent, threads, external
<1>4. UNCHANGED <<owner, requests, pc>> => OwnerInv'
      BY OwnerFrame DEF Asked
<1>  QED
      BY <1>1, <1>2, <1>3, <1>4 DEF Transport

\* The answer to the one request under way is the one answer under way.
LEMMA CreateServe ==
    ASSUME TypeOK, StreamInv, CreateInv, OwnerInv, Serve
    PROVE  CreateInv'
<1>1. /\ 1 \in DOMAIN requests /\ Head(requests) = requests[1] /\ requests[1] \in Requests
      /\ stream # "null" /\ UNCHANGED <<pc, pending, stream>>
      /\ \A i \in DOMAIN requests' :
            i \in Nat \ {0} /\ i + 1 \in DOMAIN requests /\ requests'[i] = requests[i + 1]
      BY Served DEF Serve, threads, members
<1>2. \A i \in DOMAIN requests' : Asked(i)' => Asked(i + 1) /\ i + 1 # 1
      BY <1>1 DEF Asked
<1>3. CASE requests[1][1] = "create"
  <2>  DEFINE c == requests[1][2]
              n == Len(inbox) + 1
  <2>1. Asked(1) /\ c \in Callers
        BY <1>1, <1>3 DEF Asked, Requests
  <2>2. c = pending /\ pc[pending] \in HasWritten /\ \A i \in DOMAIN inbox : ~Answered(i)
        BY <1>1, <2>1 DEF CreateInv
  <2>3. owner' = [owner EXCEPT ![Fresh] = c] /\ inbox' = Append(inbox, Created(Fresh))
        BY <1>1, <1>3 DEF Serve, Fresh
  <2>4. Fresh \in WatchIds
    <3>1. \A v \in WatchIds : owner[v] # c
          BY <1>1, <2>1 DEF OwnerInv
    <3>  QED
          BY <2>1, <3>1, FreshId
  <2>5. owner'[Fresh] = c
        BY <2>3, <2>4 DEF TypeOK
  <2>6. Created(Fresh) \in Responses /\ inbox \in Seq(Responses)
        BY FreshType DEF Created, Responses, TypeOK
  <2>7. /\ inbox'[n] = Created(Fresh)
        /\ \A i \in DOMAIN inbox' : i # n => i \in DOMAIN inbox
        /\ \A i \in DOMAIN inbox : inbox'[i] = inbox[i]
        BY <2>3, <2>6, AppendFacts
  <2>8. inbox'[n].watch = Fresh
        BY <2>7 DEF Created
  <2>  HIDE DEF c, n
  <2>9. \A i \in DOMAIN inbox' : Answered(i)' => i = n
        BY <2>2, <2>7 DEF Answered
  <2>10. \A i \in DOMAIN requests' : ~Asked(i)'
        BY <1>1, <1>2, <2>1 DEF CreateInv
  <2>  QED
        BY <1>1, <2>1, <2>2, <2>4, <2>5, <2>8, <2>9, <2>10 DEF CreateInv
<1>4. CASE requests[1][1] = "cancel"
  <2>  DEFINE w == requests[1][2]
  <2>1. UNCHANGED owner /\ (inbox' = inbox \/ inbox' = Append(inbox, Canceled(w)))
        BY <1>1, <1>4 DEF Serve
  <2>2. w \in Nat
        BY <1>1, <1>4 DEF Requests
  <2>3. \A i \in DOMAIN inbox' : Answered(i)' => i \in DOMAIN inbox /\ Answered(i) /\ inbox'[i] = inbox[i]
    <3>1. CASE inbox' = inbox
          BY <3>1 DEF Answered
    <3>2. CASE inbox' = Append(inbox, Canceled(w))
      <4>1. Canceled(w) \in Responses /\ inbox \in Seq(Responses)
            BY <2>2 DEF Canceled, Responses, TypeOK
      <4>2. /\ inbox'[Len(inbox) + 1] = Canceled(w)
            /\ \A i \in DOMAIN inbox' : i # Len(inbox) + 1 => i \in DOMAIN inbox
            /\ \A i \in DOMAIN inbox : inbox'[i] = inbox[i]
            BY <3>2, <4>1, AppendFacts
      <4>  QED
            BY <4>2 DEF Answered, Canceled
    <3>  QED
          BY <2>1, <3>1, <3>2
  <2>4. \A i, j \in DOMAIN requests' : Asked(i)' /\ Asked(j)' => i = j
    <3>  SUFFICES ASSUME NEW i \in DOMAIN requests', NEW j \in DOMAIN requests', Asked(i)', Asked(j)'
                  PROVE  i = j
          OBVIOUS
    <3>1. i + 1 = j + 1
          BY <1>1, <1>2 DEF CreateInv
    <3>  QED
          BY <1>1, <3>1
  <2>5. \A i \in DOMAIN requests' : Asked(i)' => requests'[i][2] = pending /\ pc[pending] \in HasWritten
        BY <1>1, <1>2 DEF CreateInv
  <2>6. \A i \in DOMAIN requests', j \in DOMAIN inbox' : ~(Asked(i)' /\ Answered(j)')
        BY <1>1, <1>2, <2>3 DEF CreateInv
  <2>7. \A i \in DOMAIN inbox' : Answered(i)' =>
            /\ inbox'[i].watch \in WatchIds /\ pending \in Callers
            /\ owner[inbox'[i].watch] = pending /\ pc[pending] \in HasWritten
        BY <1>1, <2>3 DEF CreateInv
  <2>8. \A i, j \in DOMAIN inbox' : Answered(i)' /\ Answered(j)' => i = j
        BY <1>1, <2>3 DEF CreateInv
  <2>9. \A d \in Callers : pc[d] = "wait_write" => pending = d
        BY <1>1 DEF CreateInv
  <2>  QED
        BY <1>1, <2>1, <2>4, <2>5, <2>6, <2>7, <2>8, <2>9 DEF CreateInv
<1>  QED
      BY <1>1, <1>3, <1>4 DEF Serve

LEMMA CreateWorld ==
    ASSUME TypeOK, StreamInv, CreateInv, OwnerInv,
           Shutdown \/ Join \/ Transport \/ Break \/ \E w \in WatchIds, m \in BOOLEAN : SendEvent(w, m)
    PROVE  CreateInv'
<1>1. CASE Serve
      BY <1>1, CreateServe
<1>2. ASSUME UNCHANGED <<stream, pc, pending, owner, requests>>,
             \A i \in DOMAIN inbox' : Answered(i)' => i \in DOMAIN inbox /\ inbox'[i] = inbox[i]
      PROVE  CreateInv'
      BY <1>2, CreateFrame DEF Asked
<1>3. ASSUME NEW tag \in Tags, Succeeds(tag) \/ Fails(tag)
      PROVE  UNCHANGED <<stream, pc, pending, owner, requests, inbox>>
      BY <1>3 DEF Succeeds, Fails, Completes, threads
<1>4. ASSUME Shutdown \/ Join \/ Break PROVE UNCHANGED <<stream, pc, pending, owner, requests, inbox>>
      BY <1>4 DEF Shutdown, Join, Break, threads, members, external
<1>5. UNCHANGED <<stream, pc, pending, owner, requests, inbox>> => CreateInv'
      BY <1>2 DEF Answered
<1>6. ASSUME NEW w \in WatchIds, NEW m \in BOOLEAN, SendEvent(w, m) PROVE CreateInv'
  <2>1. Event(w, m) \in Responses /\ inbox \in Seq(Responses)
        BY WatchIdsNat DEF Event, Responses, TypeOK
  <2>2. inbox' = Append(inbox, Event(w, m)) /\ UNCHANGED <<stream, pc, pending, owner, requests>>
        BY <1>6 DEF SendEvent, members, threads
  <2>3. /\ inbox'[Len(inbox) + 1] = Event(w, m)
        /\ \A i \in DOMAIN inbox' : i # Len(inbox) + 1 => i \in DOMAIN inbox
        /\ \A i \in DOMAIN inbox : inbox'[i] = inbox[i]
        BY <2>1, <2>2, AppendFacts
  <2>4. \A i \in DOMAIN inbox' : Answered(i)' => i \in DOMAIN inbox /\ inbox'[i] = inbox[i]
        BY <2>3 DEF Answered, Event
  <2>  QED
        BY <1>2, <2>2, <2>4
<1>  QED
      BY <1>1, <1>3, <1>4, <1>5, <1>6 DEF Transport

-----------------------------------------------------------------------------
(* Handlers and handles. *)

\* A handler goes into the slot of the watch its caller owns, and an id is given out once.
LEMMA PairedNext ==
    ASSUME TypeOK, HandlersPaired, StreamInv, CreateInv, OwnerInv, Next
    PROVE  HandlersPaired'
<1>1. UNCHANGED <<handlers, owner>> => HandlersPaired'
      BY DEF HandlersPaired
<1>2. ASSUME NEW c \in Callers, Call(c) \/ CallerStep(c) PROVE UNCHANGED <<handlers, owner>>
      BY <1>2 DEF Call, CallerStep, Register, WriteCreate, FutureGet, members, external
<1>3. CASE OnFailure
      BY <1>3 DEF OnFailure, HandlersPaired
<1>4. CASE OnInit \/ OnWriteFinished \/ OnLostResponse \/ OnNothing
      BY <1>1, <1>4 DEF OnInit, OnWriteFinished, OnLostResponse, OnNothing
<1>5. CASE OnCreated
  <2>1. 1 \in DOMAIN inbox /\ Response = inbox[1] /\ stream # "null"
        BY <1>5, ResponseRead DEF OnCreated
  <2>2. Answered(1)
        BY <1>5, <2>1 DEF OnCreated, Answered
  <2>3. Response.watch \in WatchIds /\ owner[Response.watch] = pending
        BY <2>1, <2>2 DEF CreateInv
  <2>4. handlers' = [handlers EXCEPT ![Response.watch] = pending] /\ UNCHANGED owner
        BY <1>5 DEF OnCreated
  <2>  QED
        BY <2>3, <2>4 DEF HandlersPaired, TypeOK
<1>6. CASE OnEvent
  <2>1. handlers' = [handlers EXCEPT ![Response.watch] = Nil] /\ UNCHANGED owner
        BY <1>6 DEF OnEvent
  <2>  QED
        BY <2>1 DEF HandlersPaired, TypeOK
<1>7. CASE Shutdown \/ Join \/ Break \/ \E w \in WatchIds, m \in BOOLEAN : SendEvent(w, m)
      BY <1>1, <1>7 DEF Shutdown, Join, Break, SendEvent, members, external
<1>8. ASSUME NEW tag \in Tags, Succeeds(tag) \/ Fails(tag) PROVE UNCHANGED <<handlers, owner>>
      BY <1>8 DEF Succeeds, Fails, Completes
<1>9. CASE Serve
  <2>1. /\ 1 \in DOMAIN requests /\ Head(requests) = requests[1] /\ requests[1] \in Requests
        /\ UNCHANGED handlers
        BY <1>9, Served DEF Serve, members
  <2>2. CASE requests[1][1] = "create"
    <3>1. Asked(1) /\ requests[1][2] \in Callers
          BY <2>1, <2>2 DEF Asked, Requests
    <3>2. \A v \in WatchIds : owner[v] # requests[1][2]
          BY <2>1, <3>1 DEF OwnerInv
    <3>3. Fresh \in Nat /\ \A w \in WatchIds : owner[w] # Nil <=> w < Fresh
          BY <3>1, <3>2, FreshId, FreshType
    <3>4. owner' = [owner EXCEPT ![Fresh] = requests[1][2]]
          BY <1>9, <2>1, <2>2 DEF Serve, Fresh
    <3>5. \A w \in WatchIds : owner[w] # Nil => owner'[w] = owner[w]
          BY <3>3, <3>4 DEF TypeOK
    <3>  QED
          BY <2>1, <3>5 DEF HandlersPaired
  <2>3. CASE requests[1][1] = "cancel"
        BY <1>1, <1>9, <2>1, <2>3 DEF Serve
  <2>  QED
        BY <1>9, <2>1, <2>2, <2>3 DEF Serve
<1>  QED
      BY <1>1, <1>2, <1>3, <1>4, <1>5, <1>6, <1>7, <1>8, <1>9 DEF Next, Resolve, Transport

\* A caller that waits, or will.
Waiting(c) == pc[c] \in {"wait_write", "wait_future", "returned"} /\ handle[c] = "pending"

LEMMA HandleFrame ==
    ASSUME HandleInv, UNCHANGED <<handlers, pending>>,
           \A c \in Callers : Waiting(c)' => Waiting(c),
           stream # "null" => stream' # "null"
    PROVE  HandleInv'
BY DEF HandleInv, Waiting, Registered

LEMMA HandleCaller ==
    ASSUME TypeOK, StreamInv, HandleInv, NEW c \in Callers, Call(c) \/ CallerStep(c), crashed' = "no"
    PROVE  HandleInv'
<1>1. CASE Call(c)
  <2>1. UNCHANGED <<handlers, pending, stream>>
        BY <1>1 DEF Call, members
  <2>2. \A d \in Callers : Waiting(d)' => Waiting(d)
        BY <1>1 DEF Call, Waiting, TypeOK
  <2>  QED
        BY <2>1, <2>2, HandleFrame
<1>2. CASE Register(c)
  <2>1. pending = Nil /\ pending' = c /\ UNCHANGED <<handlers, handle>>
        BY <1>2 DEF Register, MayRegister
  <2>2. \A d \in Callers \ {c} : pc'[d] = pc[d]
        BY <1>2 DEF Register, TypeOK
  <2>3. stream' # "null"
        BY <1>2 DEF Register
  <2>4. c \in Registered'
        BY <2>1 DEF Registered
  <2>5. ASSUME NEW d \in Callers \ {c}, Waiting(d)' PROVE d \in Registered'
    <3>1. d \in Registered
          BY <2>1, <2>2, <2>5 DEF Waiting, HandleInv
    <3>  QED
          BY <2>1, <3>1, CallersAssumption DEF Registered
  <2>  QED
        BY <2>3, <2>4, <2>5 DEF HandleInv, Waiting
<1>3. CASE WriteCreate(c)
  <2>1. UNCHANGED <<handlers, pending, stream, handle>>
        BY <1>3 DEF WriteCreate
  <2>2. \A d \in Callers : Waiting(d)' => Waiting(d)
        BY <1>3 DEF WriteCreate, Waiting, TypeOK
  <2>  QED
        BY <2>1, <2>2, HandleFrame
<1>4. CASE FutureGet(c)
  <2>1. UNCHANGED <<handlers, pending, stream>>
        BY <1>4 DEF FutureGet, members
  <2>2. \A d \in Callers : Waiting(d)' => Waiting(d)
        BY <1>4 DEF FutureGet, Waiting, TypeOK
  <2>  QED
        BY <2>1, <2>2, HandleFrame
<1>  QED
      BY <1>1, <1>2, <1>3, <1>4 DEF CallerStep

LEMMA HandleResolve ==
    ASSUME TypeOK, HandlersPaired, StreamInv, CreateInv, HandleInv, Resolve, crashed' = "no"
    PROVE  HandleInv'
<1>1. CASE OnFailure
  <2>1. ASSUME NEW c \in Callers PROVE ~Waiting(c)'
    <3>1. handle'[c] = IF c \in Failing THEN "failed" ELSE handle[c]
          BY <1>1 DEF OnFailure
    <3>2. UNCHANGED pc
          BY <1>1 DEF OnFailure
    <3>  QED
          BY <3>1, <3>2 DEF Waiting, Failing, HandleInv
  <2>  QED
        BY <2>1 DEF HandleInv, Waiting
<1>2. CASE OnInit \/ OnWriteFinished \/ OnLostResponse \/ OnNothing
  <2>1. UNCHANGED <<handlers, pending, handle, pc>>
        BY <1>2 DEF OnInit, OnWriteFinished, OnLostResponse, OnNothing
  <2>2. stream # "null" => stream' # "null"
        BY <1>2 DEF OnInit, OnWriteFinished, OnLostResponse, OnNothing
  <2>  QED
        BY <2>1, <2>2, HandleFrame DEF Waiting
<1>3. CASE OnCreated
  <2>1. 1 \in DOMAIN inbox /\ Response = inbox[1] /\ stream # "null"
        BY <1>3, ResponseRead DEF OnCreated
  <2>2. Answered(1)
        BY <1>3, <2>1 DEF OnCreated, Answered
  <2>3. Response.watch \in WatchIds /\ owner[Response.watch] = pending
        BY <2>1, <2>2 DEF CreateInv
  <2>4. /\ handlers' = [handlers EXCEPT ![Response.watch] = pending]
        /\ UNCHANGED <<owner, pc, handle, stream>>
        BY <1>3 DEF OnCreated
  <2>5. handlers'[Response.watch] = pending
        BY <2>3, <2>4 DEF TypeOK
  <2>6. \A w \in WatchIds : handlers[w] # Nil => handlers'[w] = handlers[w]
        BY <2>3, <2>4 DEF TypeOK, HandlersPaired
  <2>7. \A c \in Callers : c \in Registered => c \in Registered'
        BY <2>3, <2>5, <2>6, CallersAssumption DEF Registered
  <2>  QED
        BY <2>1, <2>4, <2>7 DEF HandleInv
<1>4. CASE OnEvent
  <2>  DEFINE w == Response.watch
  <2>1. /\ handlers' = [handlers EXCEPT ![w] = Nil]
        /\ handle' = [d \in Callers |-> IF d = handlers[w] THEN "fired" ELSE handle[d]]
        /\ UNCHANGED <<stream, pc, pending>>
        BY <1>4 DEF OnEvent
  <2>  HIDE DEF w
  <2>2. ASSUME NEW c \in Callers, Waiting(c)' PROVE stream # "null" /\ c \in Registered'
    <3>1. c # handlers[w] /\ Waiting(c)
          BY <2>1, <2>2 DEF Waiting
    <3>2. stream # "null" /\ c \in Registered
          BY <3>1 DEF HandleInv, Waiting
    <3>3. \A v \in WatchIds : handlers[v] = c => handlers'[v] = c
          BY <2>1, <3>1 DEF TypeOK
    <3>  QED
          BY <2>1, <3>2, <3>3 DEF Registered
  <2>  QED
        BY <2>1, <2>2 DEF HandleInv, Waiting
<1>  QED
      BY <1>1, <1>2, <1>3, <1>4 DEF Resolve

LEMMA HandleWorld ==
    ASSUME HandleInv,
           Shutdown \/ Join \/ Transport \/ Break \/ \E w \in WatchIds, m \in BOOLEAN : SendEvent(w, m)
    PROVE  HandleInv'
<1>1. CASE Shutdown \/ Join \/ Break \/ \E w \in WatchIds, m \in BOOLEAN : SendEvent(w, m)
  <2>1. UNCHANGED <<handlers, pending, stream, pc, handle>>
        BY <1>1 DEF Shutdown, Join, Break, SendEvent, members, threads
  <2>  QED
        BY <2>1, HandleFrame DEF Waiting
<1>2. ASSUME NEW tag \in Tags, Succeeds(tag) \/ Fails(tag)
      PROVE  UNCHANGED <<handlers, pending, stream, pc, handle>>
      BY <1>2 DEF Succeeds, Fails, Completes, threads
<1>3. Serve => UNCHANGED <<handlers, pending, stream, pc, handle>>
      BY DEF Serve, members, threads
<1>4. UNCHANGED <<handlers, pending, stream, pc, handle>> => HandleInv'
      BY HandleFrame DEF Waiting
<1>  QED
      BY <1>1, <1>2, <1>3, <1>4 DEF Transport

-----------------------------------------------------------------------------
(* The wait of the resolution thread, and the end. *)

\* Only the resolution thread makes an end of a write.
LEMMA CancelNext ==
    ASSUME TypeOK, CancelWaitsForEver, Next
    PROVE  CancelWaitsForEver'
<1>  USE DEF CancelWaitsForEver
<1>1. ASSUME NEW c \in Callers, Call(c) \/ CallerStep(c) PROVE CancelWaitsForEver'
  <2>1. CASE Call(c) \/ FutureGet(c)
        BY <2>1 DEF Call, FutureGet, members
  <2>2. CASE Register(c)
        BY <2>2, CallersAssumption DEF Register, Write
  <2>3. CASE WriteCreate(c)
        BY <2>3, CallersAssumption DEF WriteCreate, Write
  <2>  QED
        BY <1>1, <2>1, <2>2, <2>3 DEF CallerStep
<1>2. CASE OnFailure \/ OnInit \/ OnWriteFinished \/ OnLostResponse \/ OnCreated \/ OnNothing
      BY <1>2 DEF OnFailure, OnInit, OnWriteFinished, OnLostResponse, OnCreated, OnNothing, Takes
<1>3. CASE OnEvent
  <2>1. resolver = "polling" /\ Cancel(Response.watch)
        BY <1>3 DEF OnEvent, Takes
  <2>  QED
        BY <2>1 DEF Cancel
<1>4. CASE Shutdown \/ Join \/ Break \/ Serve \/ \E w \in WatchIds, m \in BOOLEAN : SendEvent(w, m)
      BY <1>4 DEF Shutdown, Join, Break, Serve, SendEvent, members, threads
<1>5. ASSUME NEW tag \in Tags, Succeeds(tag) \/ Fails(tag) PROVE UNCHANGED <<write, resolver>>
      BY <1>5 DEF Succeeds, Fails, Completes, threads
<1>  QED
      BY <1>1, <1>2, <1>3, <1>4, <1>5 DEF Next, Resolve, Transport

\* The thread ends when nothing is out, so the stream is not there any more.
LEMMA SettledNext ==
    ASSUME TypeOK, Sane, StreamInv, HandleInv, Next
    PROVE  SettledAtJoin'
<1>0. life # "joined"
      BY DEF Sane
<1>1. CASE Shutdown
  <2>1. CASE resolver = "none"
        BY <1>1, <2>1 DEF Shutdown, SettledAtJoin, StreamInv, Untouched
  <2>2. CASE resolver # "none"
        BY <1>1, <2>2 DEF Shutdown, SettledAtJoin
  <2>  QED
        BY <2>1, <2>2
<1>2. CASE Join
  <2>1. cq = <<>> /\ flight = {} /\ resolver = "polling" /\ UNCHANGED <<pc, handle>>
        BY <1>2 DEF Join
  <2>2. \A tag \in Tags : ~Out(tag)
        BY <2>1 DEF Out, InQueue
  <2>3. stream = "null"
        BY <2>1, <2>2 DEF StreamInv, TypeOK, Tags
  <2>  QED
        BY <2>1, <2>3 DEF SettledAtJoin, HandleInv
<1>3. ASSUME UNCHANGED life PROVE SettledAtJoin'
      BY <1>0, <1>3 DEF SettledAtJoin
<1>4. ASSUME NEW c \in Callers, Call(c) \/ CallerStep(c) PROVE UNCHANGED life
      BY <1>4 DEF Call, CallerStep, Register, WriteCreate, FutureGet
<1>5. Resolve => UNCHANGED life
      BY DEF Resolve, OnFailure, OnInit, OnWriteFinished, OnLostResponse, OnCreated, OnNothing, OnEvent
<1>6. ASSUME NEW tag \in Tags, Succeeds(tag) \/ Fails(tag) PROVE UNCHANGED life
      BY <1>6 DEF Succeeds, Fails, Completes, threads
<1>7. Break \/ Serve \/ (\E w \in WatchIds, m \in BOOLEAN : SendEvent(w, m)) => UNCHANGED life
      BY DEF Break, Serve, SendEvent, threads
<1>  QED
      BY <1>1, <1>2, <1>3, <1>4, <1>5, <1>6, <1>7 DEF Next, Transport

-----------------------------------------------------------------------------
LEMMA InitInv == Init => Inv
<1>  SUFFICES ASSUME Init PROVE Inv
      OBVIOUS
<1>  USE DEF Init
<1>1. TypeOK
  <2>1. cq \in Seq(Completions) /\ requests \in Seq(Requests) /\ inbox \in Seq(Responses)
        OBVIOUS
  <2>2. handlers \in [WatchIds -> Owners] /\ owner \in [WatchIds -> Owners]
        BY DEF Owners
  <2>3. /\ pc \in [Callers -> {"idle", "calling", "wait_write", "wait_future", "returned", "threw"}]
        /\ future \in [Callers -> {"pending", "ready", "error"}]
        /\ handle \in [Callers -> {"pending", "fired", "failed"}]
        OBVIOUS
  <2>  QED
        BY <2>1, <2>2, <2>3 DEF TypeOK, Owners
<1>2. HandlersPaired /\ CancelWaitsForEver /\ SettledAtJoin
      BY DEF HandlersPaired, CancelWaitsForEver, SettledAtJoin
<1>3. StreamInv
      BY DEF StreamInv, Once, InQueue, Untouched
<1>4. CreateInv
      BY DEF CreateInv
<1>5. OwnerInv
  <2>1. 0 \in 0 .. Cardinality(Callers) /\ \A w \in WatchIds : ~(w <= 0)
        BY WatchIdsNat
  <2>2. \E k \in 0 .. Cardinality(Callers) : \A w \in WatchIds : owner[w] # Nil <=> w <= k
        BY <2>1
  <2>  QED
        BY <2>2, CallersAssumption DEF OwnerInv, Asked
<1>6. HandleInv
      BY DEF HandleInv
<1>  QED
      BY <1>1, <1>2, <1>3, <1>4, <1>5, <1>6 DEF Inv, ControlInv

\* Every step is taken by a client that is still sane.
LEMMA NextSane == Next => Sane
<1>1. \A c \in Callers : Call(c) \/ CallerStep(c) => Sane
      BY DEF Call, CallerStep, Register, WriteCreate, FutureGet
<1>2. Resolve => Sane
      BY DEF Resolve, OnFailure, OnInit, OnWriteFinished, OnLostResponse, OnCreated, OnNothing, OnEvent, Takes
<1>3. \A tag \in Tags : Succeeds(tag) \/ Fails(tag) => Sane
      BY DEF Succeeds, Fails, Completes
<1>4. Shutdown \/ Join \/ Break \/ Serve \/ (\E w \in WatchIds, m \in BOOLEAN : SendEvent(w, m)) => Sane
      BY DEF Shutdown, Join, Break, Serve, SendEvent
<1>  QED
      BY <1>1, <1>2, <1>3, <1>4 DEF Next, Transport

LEMMA NextInv == Inv /\ [Next]_vars => Inv'
<1>1. ASSUME Inv, UNCHANGED vars PROVE Inv'
  <2>  USE <1>1 DEF vars, members, threads, external
  <2>1. TypeOK' /\ HandlersPaired' /\ CancelWaitsForEver' /\ SettledAtJoin'
        BY DEF Inv, TypeOK, HandlersPaired, CancelWaitsForEver, SettledAtJoin
  <2>2. StreamInv => StreamInv'
        BY DEF StreamInv, Once, Out, InQueue, Untouched
  <2>3. CreateInv => CreateInv'
        BY DEF CreateInv, Asked, Answered
  <2>4. OwnerInv => OwnerInv'
        BY DEF OwnerInv, Asked
  <2>5. HandleInv => HandleInv'
        BY DEF HandleInv, Registered
  <2>6. Sane' => Sane
        BY DEF Sane
  <2>  QED
        BY <2>1, <2>2, <2>3, <2>4, <2>5, <2>6 DEF Inv, ControlInv
<1>2. ASSUME Inv, Next PROVE Inv'
  <2>0. Sane /\ TypeOK /\ HandlersPaired /\ CancelWaitsForEver /\ StreamInv /\ CreateInv /\ OwnerInv /\ HandleInv
        BY <1>2, NextSane DEF Inv, ControlInv
  <2>1. TypeOK'
        BY <1>2, <2>0, TypeCaller, TypeResolve, TypeWorld DEF Next
  <2>2. HandlersPaired' /\ CancelWaitsForEver' /\ SettledAtJoin'
        BY <1>2, <2>0, PairedNext, CancelNext, SettledNext
  <2>3. ASSUME Sane' PROVE ControlInv'
    <3>0. crashed' = "no" /\ life' # "joined"
          BY <2>3 DEF Sane
    <3>1. StreamInv'
          BY <1>2, <2>0, <3>0, StreamCaller, StreamResolve, StreamWorld DEF Next
    <3>2. CreateInv'
          BY <1>2, <2>0, <3>0, CreateCaller, CreateResolve, CreateWorld DEF Next
    <3>3. OwnerInv'
          BY <1>2, <2>0, OwnerCaller, OwnerResolve, OwnerWorld DEF Next
    <3>4. HandleInv'
          BY <1>2, <2>0, <3>0, HandleCaller, HandleResolve, HandleWorld DEF Next
    <3>  QED
          BY <3>1, <3>2, <3>3, <3>4 DEF ControlInv
  <2>  QED
        BY <2>1, <2>2, <2>3 DEF Inv
<1>  QED
      BY <1>1, <1>2

\* What is out on the stream, and whose it is, in every state.
THEOREM WatchInvariance == Spec => []Inv
BY InitInv, NextInv, PTL DEF Spec

\* The handler that process_watch_response_m stores under a watch id is that of the caller whose
\* request etcd answered with that id, however callers, failures and events interleave.
THEOREM IdsGoToTheirCallers == Spec => []HandlersPaired
<1>1. Inv => HandlersPaired
      BY DEF Inv
<1>  QED
      BY <1>1, WatchInvariance, PTL

\* cancel_watch_m, called by the resolution thread while a write is out, never returns.
THEOREM CancelNeverReturns == Spec => []CancelWaitsForEver
<1>1. Inv => CancelWaitsForEver
      BY DEF Inv
<1>  QED
      BY <1>1, WatchInvariance, PTL

\* After ~ETCDWatchCreator no WatchHandle that was handed out is left waiting.
THEOREM NoHandleLeftWaiting == Spec => []SettledAtJoin
<1>1. Inv => SettledAtJoin
      BY DEF Inv
<1>  QED
      BY <1>1, WatchInvariance, PTL

\* A request is written to a stream that is set up and has no other write out.
LEMMA WriteInTurn ==
    ASSUME Inv, Next, NewRequest, stream # "null"
    PROVE  stream = "up" /\ "write" \notin flight /\ \A i \in DOMAIN cq' : cq'[i].tag # "write"
<1>0. TypeOK /\ StreamInv
      BY NextSane DEF Inv, ControlInv
<1>1. write = "none" => stream = "up" /\ ~Out("write")
      BY <1>0 DEF StreamInv, TypeOK
<1>2. write' \in Callers \cup {"cancel"} /\ write' # write /\ write' # "none" /\ write' # "init"
      BY CallersAssumption DEF NewRequest
<1>3. ASSUME NEW c \in Callers, Call(c) \/ CallerStep(c) PROVE write = "none" /\ UNCHANGED cq
  <2>1. ~Call(c) /\ ~FutureGet(c)
        BY <1>2 DEF Call, FutureGet, members
  <2>2. Register(c) => write = "none" /\ UNCHANGED cq
        BY <1>2 DEF Register
  <2>3. WriteCreate(c) => write = "none" /\ UNCHANGED cq
        BY DEF WriteCreate, MayWrite
  <2>  QED
        BY <1>3, <2>1, <2>2, <2>3 DEF CallerStep
<1>4. ASSUME Resolve PROVE write = "none" /\ Takes("read", TRUE)
  <2>1. ~OnFailure /\ ~OnInit /\ ~OnWriteFinished /\ ~OnLostResponse /\ ~OnCreated /\ ~OnNothing
        BY <1>2 DEF OnFailure, OnInit, OnWriteFinished, OnLostResponse, OnCreated, OnNothing, ResolveWrite
  <2>2. OnEvent
        BY <1>4, <2>1 DEF Resolve
  <2>  QED
        BY <1>2, <2>2 DEF OnEvent, Cancel
<1>5. ASSUME NEW tag \in Tags, Succeeds(tag) \/ Fails(tag) PROVE FALSE
      BY <1>2, <1>5 DEF Succeeds, Fails, Completes
<1>6. ~(Shutdown \/ Join \/ Break \/ Serve \/ \E w \in WatchIds, m \in BOOLEAN : SendEvent(w, m))
      BY <1>2 DEF Shutdown, Join, Break, Serve, SendEvent, members
<1>7. CASE write = "none" /\ UNCHANGED cq
      BY <1>1, <1>7 DEF Out, InQueue
<1>8. CASE write = "none" /\ Takes("read", TRUE)
  <2>1. "read" \in Tags /\ "write" \in Tags \ {"read"} /\ TRUE \in BOOLEAN
        BY DEF Tags
  <2>2. InQueue("write")' <=> InQueue("write")
        BY <1>0, <1>8, <2>1, Taken
  <2>  QED
        BY <1>1, <1>8, <2>2 DEF Out, InQueue
<1>  QED
      BY <1>3, <1>4, <1>5, <1>6, <1>7, <1>8 DEF Next, Transport

\* Whoever calls write_to_watch_stream_m while there is a stream, a caller or the resolution
\* thread, does so after tag_init_stream and when no Write is out, as gRPC demands.
THEOREM OneWriteAtATime == Spec => WritesInTurn
<1>1. Inv /\ [Next]_vars =>
        [NewRequest /\ stream # "null" =>
           /\ stream = "up"
           /\ "write" \notin flight
           /\ \A i \in DOMAIN cq' : cq'[i].tag # "write"]_vars
      BY WriteInTurn
<1>  QED
      BY <1>1, WatchInvariance, PTL DEF Spec, WritesInTurn

=============================================================================
