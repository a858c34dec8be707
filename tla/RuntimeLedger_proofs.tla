------------------------ MODULE RuntimeLedger_proofs ------------------------
(***************************************************************************)
(* What the runtime ledger keeps through every crash, failed sync and      *)
(* power loss, for any number of clients, requests and faults: HEAD never  *)
(* names a record that is gone, no request is in the chain twice, and what *)
(* a client was told of stays.                                             *)
(*                                                                         *)
(* The argument does not look into the records: what is asked for, what    *)
(* the callbacks let through and what the world does meanwhile is left     *)
(* open.  It rests on the lock, which keeps HEAD still from the look for   *)
(* the request to the rename, and on the order of writes and syncs.        *)
(***************************************************************************)
EXTENDS RuntimeLedger, TLAPS

IsChain(h) == \E S : h \in Seq(S)

\* No request is in the chain twice.
Once(h) ==
  \A i, j \in 1 .. Len(h) : RequestId(h[i].request) = RequestId(h[j].request) => i = j

\* The chain continues what some client was told of.
Keeps(h) == Len(told) <= Len(h) /\ \A i \in 1 .. Len(told) : h[i] = told[i]

\* What HEAD may name after a power loss has no request twice, and all that any
\* client was told of.
OnceAndKept == \A h \in heads : Once(h) /\ Keeps(h)

\* A client has its fields, whatever is in them.
Shaped(c) ==
  c = [pc |-> c.pc, request |-> c.request, expected |-> c.expected, scratch |-> c.scratch]

\* What a client inside the lock knows of the chain it is about to extend.
Writing(p) ==
  LET c == client[p]
  IN  /\ c.pc \in Inside <=> lock = p
      /\ c.pc \in {"authorize", "publish", "replace"} => Known(head, c.request) = {}
      /\ c.pc \in {"publish", "replace"} => c.scratch.record.request = c.request
      /\ c.pc = "replace" => NextChain(p) \in durable

Clients ==
  /\ client = [p \in Process |-> client[p]]
  /\ \A p \in Process : Shaped(client[p]) /\ Writing(p)

Chains ==
  /\ head \in heads
  /\ \A h \in heads : IsChain(h)
  /\ IsChain(told)
  /\ durable \subseteq records

IInv == Clients /\ Chains /\ NothingDangles /\ OnceAndKept

-----------------------------------------------------------------------------

\* A chain with one more record.
LEMMA Extended ==
  ASSUME NEW h, IsChain(h), NEW r
  PROVE  LET k == Append(h, r)
         IN  /\ IsChain(k) /\ Len(h) \in Nat /\ Len(k) = Len(h) + 1
             /\ \A n \in 1 .. Len(h) : k[n] = h[n] /\ Prefix(k, n) = Prefix(h, n)
             /\ k[Len(k)] = r /\ Prefix(k, Len(k)) = k
<1> DEFINE k == Append(h, r)
<1>1. PICK S : h \in Seq(S)
  BY DEF IsChain
<1>2. k \in Seq(S \cup {r}) /\ Len(h) \in Nat /\ Len(k) = Len(h) + 1
  BY <1>1
<1>3. \A n \in 1 .. Len(h) : k[n] = h[n]
  BY <1>1
<1>4. k[Len(k)] = r
  BY <1>1
<1>5. \A n \in 1 .. Len(h) : Prefix(k, n) = Prefix(h, n)
  <2>1. SUFFICES ASSUME NEW n \in 1 .. Len(h)
                 PROVE  SubSeq(k, 1, n) = SubSeq(h, 1, n)
    BY DEF Prefix
  <2>2. SubSeq(k, 1, n) = [i \in 1 .. n |-> k[i]] /\ SubSeq(h, 1, n) = [i \in 1 .. n |-> h[i]]
    BY <1>1, <1>2
  <2> QED
    BY <1>2, <1>3, <2>2
<1>6. Prefix(k, Len(k)) = k
  <2>1. SubSeq(k, 1, Len(k)) = [i \in 1 .. Len(k) |-> k[i]]
    BY <1>2
  <2> QED
    BY <1>2, <2>1 DEF Prefix
<1> QED
  BY <1>2, <1>3, <1>4, <1>5, <1>6 DEF IsChain

\* A callback that is not refused goes on to ask for the review, or to publish
\* a record of the request.
Goes(p, c) ==
  /\ Shaped(c) /\ c.request = client[p].request
  /\ \/ c.pc = "authorize"
     \/ c.pc = "publish" /\ c.scratch.record.request = c.request

\* A client that moved on within the lock, or left it.
Moved(o, pc, s) == [o EXCEPT !.pc = pc, !.scratch = s]

\* Such a client has its fields, and its request is what it was.
LEMMA Reshaped ==
  ASSUME NEW o, Shaped(o), NEW pc, NEW s, NEW c, c = Moved(o, pc, s)
  PROVE  Shaped(c) /\ c.pc = pc /\ c.scratch = s /\ c.request = o.request
<1>1. o = [pc |-> o.pc, request |-> o.request, expected |-> o.expected, scratch |-> o.scratch]
  BY DEF Shaped
<1>2. c = [pc |-> pc, request |-> o.request, expected |-> o.expected, scratch |-> s]
  BY <1>1 DEF Moved
<1> QED
  BY <1>2 DEF Shaped

\* Every outcome of a callback is a client with its fields and its request: one
\* that goes on, or one that makes durable what is committed already.
LEMMA Outcomes ==
  ASSUME NEW p \in Process, Shaped(client[p])
  PROVE  /\ \A e : \A c \in Publish(p, e) : Goes(p, c)
         /\ \A s : \A c \in Outcome(p, "authorize", s) : Goes(p, c)
         /\ \A s : \A c \in Outcome(p, "resync", s) :
              Shaped(c) /\ c.request = client[p].request /\ c.pc = "resync"
<1>1. ASSUME NEW pc, NEW s, NEW c \in Outcome(p, pc, s)
      PROVE  Shaped(c) /\ c.pc = pc /\ c.scratch = s /\ c.request = client[p].request
  <2>1. c = Moved(client[p], pc, s)
    BY <1>1 DEF Outcome, Moved
  <2> QED
    BY <2>1, Reshaped
<1>2. ASSUME NEW e, NEW c \in Publish(p, e)
      PROVE  Goes(p, c)
  <2> DEFINE record == [request |-> client[p].request, event |-> e]
             scratch == [NoScratch EXCEPT !.record = record]
  <2>1. scratch.record = record /\ record.request = client[p].request
    BY DEF NoScratch
  <2>2. c \in Outcome(p, "publish", scratch)
    BY <1>2 DEF Publish
  <2> HIDE DEF scratch
  <2> QED
    BY <1>1, <2>1, <2>2 DEF Goes
<1> QED
  BY <1>1, <1>2 DEF Goes

\* What the callback of any of the four operations lets through goes on (Built).
LEMMA BuiltGoes ==
  ASSUME NEW p \in Process, Shaped(client[p]), NEW c \in Built(p)
  PROVE  Goes(p, c)
<1> DEFINE r == client[p].request
<1>1. \A s : c \in BuildFinish(p, s, r) => Goes(p, c)
  BY Outcomes DEF BuildFinish
<1>2. \A s : c \in BuildBind(p, s, r) => Goes(p, c)
  BY Outcomes DEF BuildBind
<1>3. \A e : c \in Publish(p, e) => Goes(p, c)
  BY Outcomes
<1>4. CASE r.op = "begin" /\ CanBegin(Status, r.scope)
  BY <1>3, <1>4 DEF Built
<1>5. CASE r.op = "reset" /\ CanReset(Status)
  BY <1>3, <1>5 DEF Built
<1>6. CASE r.op = "finish" /\ CanFinish(Status, r)
  BY <1>1, <1>6 DEF Built
<1>7. CASE r.op = "bind"
  BY <1>2, <1>7 DEF Built
<1> QED
  BY <1>4, <1>5, <1>6, <1>7 DEF Built

\* After the review and the legacy binding were read, the client goes on, or finds
\* the binding there already and makes it durable.
LEMMA AuthorizedGoes ==
  ASSUME NEW p \in Process, Shaped(client[p]), NEW c \in Authorized(p)
  PROVE  \/ Goes(p, c)
         \/ Shaped(c) /\ c.request = client[p].request /\ c.pc = "resync"
  BY Outcomes DEF Authorized, AuthorizeFinish, AuthorizeBind

\* A step that leaves the ledger alone.
LEMMA LedgerSame ==
  ASSUME Chains, NothingDangles, OnceAndKept, UNCHANGED <<ledger, told>>
  PROVE  Chains' /\ NothingDangles' /\ OnceAndKept'
  BY DEF Chains, NothingDangles, OnceAndKept, Once, Keeps, IsChain, Prefix, RequestId, ledger

\* The step of one client that has the lock, takes it or gives it back.
LEMMA OneClient ==
  ASSUME Clients, NEW p \in Process, NEW c, Shaped(c), client' = [client EXCEPT ![p] = c],
         lock \in {None, p}, lock' = IF c.pc \in Inside THEN p ELSE None,
         c.pc \in {"authorize", "publish", "replace"} => Known(head', c.request) = {},
         c.pc \in {"publish", "replace"} => c.scratch.record.request = c.request,
         c.pc = "replace" => Append(head', c.scratch.record) \in durable'
  PROVE  Clients'
<1>1. client' = [q \in Process |-> client'[q]]
      /\ \A q \in Process : client'[q] = IF q = p THEN c ELSE client[q]
  BY DEF Clients
<1>2. ASSUME NEW q \in Process, q # p
      PROVE  Writing(q)'
  <2>1. client[q].pc \notin Inside /\ lock' # q
    BY <1>2, NoneAssumption DEF Clients, Writing
  <2> QED
    BY <1>1, <1>2, <2>1 DEF Writing, Inside
<1>3. Writing(p)'
  BY <1>1, NoneAssumption DEF Writing, NextChain, Known, RequestId, Inside
<1> QED
  BY <1>1, <1>2, <1>3 DEF Clients, Shaped

\* The step of a client that changes nothing but itself and the lock.
LEMMA QuietStep ==
  ASSUME IInv, NEW p \in Process, NEW c, Shaped(c), client' = [client EXCEPT ![p] = c],
         UNCHANGED <<ledger, told>>,
         lock \in {None, p}, lock' = IF c.pc \in Inside THEN p ELSE None,
         c.pc \in {"authorize", "publish", "replace"} => Known(head, c.request) = {},
         c.pc \in {"publish", "replace"} => c.scratch.record.request = c.request,
         c.pc # "replace"
  PROVE  IInv'
<1>1. Known(head, c.request) = {} => Known(head', c.request) = {}
  BY DEF ledger, Known, RequestId
<1> QED
  BY <1>1, OneClient, LedgerSame DEF IInv

\* Issuing, retrying: the client is outside the lock before and after.
LEMMA OutsideStep ==
  ASSUME IInv, NEW p \in Process, NEW c, Shaped(c), client' = [client EXCEPT ![p] = c],
         UNCHANGED <<ledger, told, lock>>, client[p].pc \notin Inside, c.pc \notin Inside
  PROVE  IInv'
<1>1. client' = [q \in Process |-> client'[q]]
      /\ \A q \in Process : client'[q] = IF q = p THEN c ELSE client[q]
  BY DEF IInv, Clients
<1>2. \A q \in Process : Writing(q)'
  <2>1. SUFFICES ASSUME NEW q \in Process
                 PROVE  Writing(q)'
    OBVIOUS
  <2>2. Writing(q)
    BY DEF IInv, Clients
  <2>3. CASE q = p
    BY <1>1, <2>2, <2>3 DEF Writing, Inside
  <2>4. CASE q # p
    <3>1. client'[q] = client[q] /\ UNCHANGED <<head, durable, lock>>
      BY <1>1, <2>4 DEF ledger
    <3> QED
      BY <2>2, <3>1 DEF Writing, NextChain, Known, RequestId
  <2> QED
    BY <2>3, <2>4
<1> QED
  BY <1>1, <1>2, LedgerSame DEF IInv, Clients, Shaped

\* Answering a client, or leaving it without an answer, gives the lock back and
\* touches no other client.
LEMMA AnswerStep ==
  ASSUME IInv, NEW p \in Process, lock \in {None, p}, Answer(p) \/ LeaveUnknown(p)
  PROVE  /\ Clients'
         /\ UNCHANGED <<ledger, told>> => IInv'
<1>1. CASE Answer(p)
  <2>1. Shaped(NoClient) /\ NoClient.pc \notin Inside
        /\ NoClient.pc \notin {"authorize", "publish", "replace"}
    BY DEF NoClient, Shaped, Inside
  <2> QED
    BY <1>1, <2>1, OneClient, LedgerSame DEF Answer, IInv
<1>2. CASE LeaveUnknown(p)
  <2>1. PICK c : c = Moved(client[p], "unknown", NoScratch)
    OBVIOUS
  <2>2. client' = [client EXCEPT ![p] = c] /\ lock' = None
    BY <1>2, <2>1 DEF LeaveUnknown, Moved
  <2>3. Shaped(client[p])
    BY DEF IInv, Clients
  <2>4. Shaped(c) /\ c.pc = "unknown"
    BY <2>1, <2>3, Reshaped
  <2> QED
    BY <2>2, <2>4, OneClient, LedgerSame DEF IInv, Inside
<1> QED
  BY <1>1, <1>2

\* A step that leads to one of several outcomes, or to a refusal, keeps the
\* invariant if each outcome goes on with an unknown request, or resyncs.
LEMMA TakeStep ==
  ASSUME IInv, NEW p \in Process, lock \in {None, p}, NEW outcomes, Take(p, outcomes),
         UNCHANGED <<ledger, told>>,
         \A c \in outcomes :
           \/ Goes(p, c) /\ Known(head, client[p].request) = {}
           \/ Shaped(c) /\ c.pc = "resync"
  PROVE  IInv'
<1>1. CASE outcomes = {} /\ Answer(p)
  BY <1>1, AnswerStep
<1>2. ASSUME NEW c \in outcomes, client' = [client EXCEPT ![p] = c], lock' = p
      PROVE  IInv'
  BY <1>2, QuietStep DEF Goes, Inside
<1> QED
  BY <1>1, <1>2 DEF Take

\* Every step of one client keeps the invariant, a failing write or sync and a
\* crash included.
LEMMA ClientStep ==
  ASSUME IInv, NEW p \in Process, Issue(p) \/ Proceed(p) \/ Fault(p)
  PROVE  IInv'
<1> USE DEF Inside
<1>0. /\ Shaped(client[p]) /\ Writing(p) /\ Clients
      /\ client[p].pc \in Inside => lock = p
  BY DEF IInv, Clients, Writing
<1>1. CASE Issue(p)
  <2>1. PICK r, c : /\ client' = [client EXCEPT ![p] = c]
                    /\ c = [NoClient EXCEPT !.pc = "ready", !.request = r, !.expected = head]
    BY <1>1 DEF Issue
  <2>2. c = [pc |-> "ready", request |-> r, expected |-> head, scratch |-> NoScratch]
    BY <2>1 DEF NoClient
  <2>3. Shaped(c) /\ c.pc = "ready"
    BY <2>2 DEF Shaped
  <2> QED
    BY <1>1, <2>1, <2>3, OutsideStep DEF Issue
<1>2. CASE Retry(p)
  <2> DEFINE c == [client[p] EXCEPT !.pc = "ready"]
  <2>1. Shaped(c) /\ c.pc = "ready"
    BY <1>0 DEF Shaped
  <2>2. client' = [client EXCEPT ![p] = c] /\ client[p].pc = "unknown"
    BY <1>2 DEF Retry, Go
  <2> HIDE DEF c
  <2> QED
    BY <1>2, <2>1, <2>2, OutsideStep DEF Retry
<1>3. CASE Enter(p)
  <2> DEFINE r == client[p].request
             known == Known(head, r)
  <2>1. PICK outcomes :
          /\ Take(p, outcomes)
          /\ outcomes = IF ~Status.valid THEN {}
                        ELSE IF known # {}
                        THEN IF \A n \in known : SameRequest(p, n)
                             THEN Outcome(p, "resync", NoScratch) ELSE {}
                        ELSE IF r.op # "bind" /\ client[p].expected # head THEN {}
                        ELSE Built(p)
    BY <1>3 DEF Enter
  <2>2. \A c \in outcomes :
          (Goes(p, c) /\ known = {}) \/ (Shaped(c) /\ c.pc = "resync")
    BY <1>0, <2>1, Outcomes, BuiltGoes
  <2>3. UNCHANGED <<ledger, told>> /\ lock = None
    BY <1>3 DEF Enter
  <2> QED
    BY <2>1, <2>2, <2>3, TakeStep
<1>4. CASE Authorize(p)
  <2>1. /\ Take(p, Authorized(p)) /\ UNCHANGED <<ledger, told>> /\ lock = p
        /\ Known(head, client[p].request) = {}
    BY <1>0, <1>4 DEF Authorize, Writing
  <2>2. \A c \in Authorized(p) : Goes(p, c) \/ (Shaped(c) /\ c.pc = "resync")
    BY <1>0, AuthorizedGoes
  <2> QED
    BY <2>1, <2>2, TakeStep
<1>5. CASE PublishRecord(p)
  <2> DEFINE c == [client[p] EXCEPT !.pc = "replace"]
  <2>1. /\ Shaped(c) /\ c.pc = "replace" /\ c.request = client[p].request
        /\ c.scratch = client[p].scratch
    BY <1>0 DEF Shaped
  <2>2. /\ client' = [client EXCEPT ![p] = c] /\ lock = p /\ lock' = p
        /\ records' = records \cup {NextChain(p)} /\ durable' = records'
        /\ UNCHANGED <<head, heads, told>>
        /\ Known(head, c.request) = {} /\ c.scratch.record.request = c.request
    BY <1>0, <1>5, <2>1 DEF PublishRecord, Go, Writing
  <2>3. Known(head', c.request) = {} /\ Append(head', c.scratch.record) \in durable'
    BY <2>1, <2>2 DEF Known, RequestId, NextChain
  <2> HIDE DEF c
  <2>4. Clients'
    BY <1>0, <2>1, <2>2, <2>3, OneClient
  <2> QED
    BY <2>2, <2>4 DEF IInv, Chains, NothingDangles, OnceAndKept, Once, Keeps, IsChain,
                      Prefix, RequestId
<1>6. CASE ReplaceHead(p)
  <2> DEFINE c == [client[p] EXCEPT !.pc = "sync"]
             record == client[p].scratch.record
             k == NextChain(p)
  <2>1. Shaped(c) /\ c.pc = "sync"
    BY <1>0 DEF Shaped
  <2>2. /\ client' = [client EXCEPT ![p] = c] /\ lock = p /\ lock' = p
        /\ head' = k /\ heads' = heads \cup {k} /\ UNCHANGED <<records, durable, told>>
        /\ k \in durable /\ Known(head, record.request) = {}
    BY <1>0, <1>6 DEF ReplaceHead, Go, Writing
  <2>3. Clients'
    BY <1>0, <2>1, <2>2, OneClient
  <2>4. /\ IsChain(k) /\ Len(head) \in Nat /\ Len(k) = Len(head) + 1
        /\ \A n \in 1 .. Len(head) : k[n] = head[n] /\ Prefix(k, n) = Prefix(head, n)
        /\ k[Len(k)] = record /\ Prefix(k, Len(k)) = k
    BY Extended DEF IInv, Chains, NextChain
  <2>5. \A n \in 1 .. Len(k) : Prefix(k, n) \in durable
    BY <2>2, <2>4 DEF IInv, Chains, NothingDangles
  <2>6. Once(k)
    <3>1. Once(head)
      BY DEF IInv, Chains, OnceAndKept
    <3>2. \A i \in 1 .. Len(head) : RequestId(k[i].request) # RequestId(record.request)
      BY <2>2, <2>4 DEF Known
    <3> QED
      BY <2>4, <3>1, <3>2 DEF Once
  <2>7. Keeps(k)
    <3>1. Keeps(head) /\ Len(told) \in Nat
      BY DEF IInv, Chains, OnceAndKept, IsChain
    <3> QED
      BY <2>4, <3>1 DEF Keeps
  <2> QED
    BY <2>2, <2>3, <2>4, <2>5, <2>6, <2>7
    DEF IInv, Chains, NothingDangles, OnceAndKept, Once, Keeps, IsChain, Prefix, RequestId
<1>7. CASE SyncHead(p)
  <2>1. lock = p /\ Answer(p) /\ told' = head /\ heads' = {head}
        /\ UNCHANGED <<head, records, durable>>
    BY <1>0, <1>7 DEF SyncHead
  <2>2. Clients'
    BY <2>1, AnswerStep
  <2>3. Chains' /\ NothingDangles'
    BY <2>1 DEF IInv, Chains, NothingDangles, IsChain, Prefix
  <2>4. OnceAndKept'
    BY <2>1 DEF IInv, Chains, OnceAndKept, Once, Keeps, IsChain, RequestId
  <2> QED
    BY <2>2, <2>3, <2>4 DEF IInv
<1>8. CASE Resync(p)
  <2>1. lock = p /\ Answer(p) /\ told' = head /\ heads' = {head}
        /\ UNCHANGED <<head, records>> /\ durable' = records
    BY <1>0, <1>8 DEF Resync
  <2>2. Clients'
    BY <2>1, AnswerStep
  <2>3. Chains' /\ NothingDangles'
    BY <2>1 DEF IInv, Chains, NothingDangles, IsChain, Prefix
  <2>4. OnceAndKept'
    BY <2>1 DEF IInv, Chains, OnceAndKept, Once, Keeps, IsChain, RequestId
  <2> QED
    BY <2>2, <2>3, <2>4 DEF IInv
<1>9. CASE PublishFails(p)
  <2>1. lock = p /\ LeaveUnknown(p) /\ UNCHANGED <<head, heads, durable, told>>
        /\ records \subseteq records'
    BY <1>0, <1>9 DEF PublishFails
  <2>2. Clients'
    BY <2>1, AnswerStep
  <2>3. Chains' /\ NothingDangles' /\ OnceAndKept'
    BY <2>1 DEF IInv, Chains, NothingDangles, OnceAndKept, Once, Keeps, IsChain, Prefix,
                RequestId
  <2> QED
    BY <2>2, <2>3 DEF IInv
<1>10. CASE SyncFails(p) \/ Kill(p)
  BY <1>0, <1>10, AnswerStep DEF SyncFails, Kill
<1> QED
  BY <1>1, <1>2, <1>3, <1>4, <1>5, <1>6, <1>7, <1>8, <1>9, <1>10 DEF Proceed, Fault

\* After a power loss HEAD is one of those it may be, and what is not durable is
\* gone: nothing HEAD names is, and no client is inside the lock.
LEMMA PowerLossStep ==
  ASSUME IInv, PowerLoss
  PROVE  IInv'
<1>1. /\ head' \in heads /\ heads' = {head'} /\ durable' = records' /\ told' = told
      /\ durable \subseteq durable' /\ lock' = None
  BY DEF PowerLoss, IInv, Chains
<1>2. ASSUME NEW p \in Process
      PROVE  Shaped(client'[p]) /\ client'[p].pc \notin Inside
  <2>1. Shaped(client[p])
    BY DEF IInv, Clients
  <2>2. CASE client[p].pc \in Inside
    <3>1. client'[p] = Moved(client[p], "unknown", NoScratch)
      BY <2>2 DEF PowerLoss, Moved
    <3> QED
      BY <2>1, <3>1, Reshaped DEF Inside
  <2>3. CASE client[p].pc \notin Inside
    <3>1. client'[p] = client[p]
      BY <2>3 DEF PowerLoss
    <3> QED
      BY <2>1, <2>3, <3>1
  <2> QED
    BY <2>2, <2>3
<1>3. client' = [p \in Process |-> client'[p]]
  BY DEF PowerLoss
<1>4. Clients'
  BY <1>1, <1>2, <1>3, NoneAssumption DEF Clients, Writing, Inside, Shaped
<1>5. Chains' /\ NothingDangles' /\ OnceAndKept'
  BY <1>1 DEF IInv, Chains, NothingDangles, OnceAndKept, Once, Keeps, IsChain, Prefix, RequestId
<1> QED
  BY <1>4, <1>5 DEF IInv

\* The invariant is inductive.
LEMMA StepKeeps ==
  ASSUME IInv, [Next]_vars
  PROVE  IInv'
<1>1. ASSUME UNCHANGED <<ledger, lock, client, told>>
      PROVE  IInv'
  <2>1. Clients'
    BY <1>1 DEF IInv, Clients, Shaped, Writing, NextChain, Known, RequestId, ledger
  <2> QED
    BY <1>1, <2>1, LedgerSame DEF IInv
<1>2. ASSUME NEW l \in Lineage, World(l)
      PROVE  IInv'
  BY <1>1, <1>2 DEF World, RecoverReview, ApproveReview, WithdrawReview, BindLegacy, Reviewed
<1>3. CASE Edit
  BY <1>1, <1>3 DEF Edit
<1>4. CASE UNCHANGED vars
  BY <1>1, <1>4 DEF vars
<1> QED
  BY <1>2, <1>3, <1>4, ClientStep, PowerLossStep DEF Next

\* The empty ledger has it.
LEMMA InvInit ==
  ASSUME Init
  PROVE  IInv
<1>1. <<>> \in Seq({}) /\ Len(<<>>) = 0
  OBVIOUS
<1>2. Clients
  BY NoneAssumption DEF Init, NoClient, Clients, Shaped, Writing, Inside
<1> QED
  BY <1>1, <1>2 DEF Init, IInv, Chains, IsChain, NothingDangles, OnceAndKept, Once, Keeps

\* What HEAD names is there, whatever HEAD a power loss leaves.
THEOREM HeadIsThere == Spec => []NothingDangles
<1>1. IInv => NothingDangles
  BY DEF IInv
<1> QED
  BY <1>1, InvInit, StepKeeps, PTL DEF Spec

\* No request is in the chain twice, and what a client was told of stays.
THEOREM RequestsOnceAndKept == Spec => []OnceAndKept
<1>1. IInv => OnceAndKept
  BY DEF IInv
<1> QED
  BY <1>1, InvInit, StepKeeps, PTL DEF Spec

=============================================================================
