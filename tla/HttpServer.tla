------------------------------ MODULE HttpServer ------------------------------
(***************************************************************************)
(* The server with a data directory (main.rs: run_v2, handle_v2): one      *)
(* loop accepts connections and fills a bounded queue, workers take        *)
(* requests from it, read their bodies and call the registry.  The chain   *)
(* of the default project can also be pushed to the old way, which looks   *)
(* up the head first.                                                      *)
(*                                                                         *)
(* What a registry call does to files is ProjectStore's subject; here      *)
(* storage works.  A block is its author and the request that brought it.  *)
(***************************************************************************)
EXTENDS RateLimiter, SequencesExt

CONSTANTS
  Worker,
  Project,
  Default,      \* the project behind /api/blocks
  Writers,      \* the keys each project admits
  Batches,      \* the authors of the blocks a push carries
  QueueSize,    \* requests that wait for a worker
  MaxRequests,  \* bound: requests in all
  MaxClock      \* bound: ticks

ASSUME HttpAssumption ==
  /\ Default \in Project /\ Writers \in [Project -> SUBSET Key]
  /\ Batches \subseteq Seq(Key)
  /\ QueueSize \in Nat \ {0} /\ MaxRequests \in Nat /\ MaxClock \in Nat

VARIABLES
  chains,    \* the registry's chains
  limiter,
  clock,
  requests,  \* those that were sent, by number
  backlog,   \* connections the accept loop has not seen
  queue,
  workers,   \* where each worker is
  job,       \* the request it handles, 0 if none
  declared,  \* the base its push declares
  unpaid,    \* the keys it has yet to ask the limiter for
  answered,  \* the requests a worker is through with
  allowed    \* history: the times the limiter let each key write

registryVars == <<chains, limiter, clock, requests, backlog, queue, workers, job, declared,
                  unpaid, answered, allowed>>

Request(id) == requests[id]
Sent == DOMAIN requests

Authors(r) == ToSet(r.batch)
Blocks(id) == [i \in DOMAIN Request(id).batch |-> [author |-> Request(id).batch[i], by |-> id]]

(* The project's mutex is held from the check of the base to the answer. *)
ProjectFree(p) ==
  \A w \in Worker : workers[w] = "limiting" => Request(job[w]).project # p

-----------------------------------------------------------------------------

RegistryInit ==
  /\ chains = [p \in Project |-> << >>]
  /\ clock = 0 /\ limiter = New(0)
  /\ requests = << >> /\ backlog = << >> /\ queue = << >>
  /\ workers = [w \in Worker |-> "idle"] /\ job = [w \in Worker |-> 0]
  /\ declared = [w \in Worker |-> << >>] /\ unpaid = [w \in Worker |-> {}]
  /\ answered = {}
  /\ allowed = [k \in Key |-> << >>]

Tick ==
  /\ clock < MaxClock /\ clock' = clock + 1
  /\ UNCHANGED <<chains, limiter, requests, backlog, queue, workers, job, declared, unpaid,
                 answered, allowed>>

(* A client sends a request: a page is read, or blocks made on a version of the
   chain it has seen are pushed.  Signatures may be wrong. *)
Send(kind, p, n, batch, genuine) ==
  /\ Len(requests) < MaxRequests
  /\ kind = "raw" => p = Default
  /\ n <= Len(chains[p])
  /\ requests' = Append(requests, [kind |-> kind, project |-> p, base |-> SubSeq(chains[p], 1, n),
                                   batch |-> batch, genuine |-> genuine])
  /\ backlog' = Append(backlog, Len(requests'))
  /\ UNCHANGED <<chains, limiter, clock, queue, workers, job, declared, unpaid, answered, allowed>>

(* incoming_requests, and a send that waits while the queue is full. *)
Accept ==
  /\ backlog # << >> /\ Len(queue) < QueueSize
  /\ queue' = Append(queue, Head(backlog)) /\ backlog' = Tail(backlog)
  /\ UNCHANGED <<chains, limiter, clock, requests, workers, job, declared, unpaid,
                 answered, allowed>>

(* recv, under the mutex of the receiver. *)
Take(w) ==
  /\ workers[w] = "idle" /\ queue # << >>
  /\ job' = [job EXCEPT ![w] = Head(queue)] /\ queue' = Tail(queue)
  /\ workers' = [workers EXCEPT ![w] =
                   IF Request(Head(queue)).kind = "read" THEN "calling" ELSE "reading"]
  /\ UNCHANGED <<chains, limiter, clock, requests, backlog, declared, unpaid,
                 answered, allowed>>

(* respond; a client that is gone is only logged. *)
Respond(w) ==
  /\ answered' = answered \cup {job[w]}
  /\ workers' = [workers EXCEPT ![w] = "idle"] /\ job' = [job EXCEPT ![w] = 0]
  /\ declared' = [declared EXCEPT ![w] = << >>]
  /\ unpaid' = [unpaid EXCEPT ![w] = {}]

(* Mutant: a worker ends when the client is no longer there. *)
BrokenOffEnds(w) ==
  /\ workers' = [workers EXCEPT ![w] = "ended"]
  /\ UNCHANGED <<job, declared, unpaid, answered>>

(* The connection breaks while the body is read: 400, to nobody. *)
BrokenOff(w) == Respond(w)

(* read_json_body waits for the whole body. *)
ReadBody(w) ==
  LET r == Request(job[w])
  IN /\ workers[w] = "reading"
     /\ \/ /\ workers' = [workers EXCEPT ![w] = IF r.kind = "raw" THEN "looking" ELSE "calling"]
           /\ declared' = [declared EXCEPT ![w] = r.base]
           /\ UNCHANGED <<job, unpaid, answered>>
        \/ BrokenOff(w)
     /\ UNCHANGED <<chains, limiter, clock, requests, backlog, queue, allowed>>

(* POST /api/blocks: info gives the base that the push will declare. *)
LookUp(w) ==
  /\ workers[w] = "looking" /\ ProjectFree(Default)
  /\ declared' = [declared EXCEPT ![w] = chains[Default]]
  /\ workers' = [workers EXCEPT ![w] = "calling"]
  /\ UNCHANGED <<chains, limiter, clock, requests, backlog, queue, job, unpaid,
                 answered, allowed>>

(* Mutant: what the blocks are linked to is not looked at. *)
AdmitsUnlinked(w) ==
  LET r == Request(job[w])
  IN /\ declared[w] = chains[r.project]
     /\ Authors(r) \subseteq Writers[r.project]
     /\ r.genuine

(* push, up to the limiter: the declared base is the head, the first block
   comes right after it, the authors are members, and every block is signed
   and linked. *)
Admits(w) ==
  LET r == Request(job[w])
  IN /\ declared[w] = chains[r.project]
     /\ Len(r.base) = Len(declared[w])
     /\ Authors(r) \subseteq Writers[r.project]
     /\ r.genuine /\ r.base = chains[r.project]

(* The keys to ask the limiter for: none for a request it will not see. *)
Call(w) ==
  LET r == Request(job[w])
  IN /\ workers[w] = "calling" /\ ProjectFree(r.project)
     /\ IF r.kind # "read" /\ Admits(w)
          THEN /\ workers' = [workers EXCEPT ![w] = "limiting"]
               /\ unpaid' = [unpaid EXCEPT ![w] = Authors(r)]
               /\ UNCHANGED <<job, declared, answered>>
          ELSE Respond(w)
     /\ UNCHANGED <<chains, limiter, clock, requests, backlog, queue, allowed>>

(* limit, for one key after another. *)
Limit(w) ==
  /\ workers[w] = "limiting"
  /\ \E k \in unpaid[w] :
       /\ \A j \in unpaid[w] : k <= j
       /\ limiter' = AfterAllow(limiter, k, clock)
       /\ IF Allows(limiter, k, clock)
            THEN /\ unpaid' = [unpaid EXCEPT ![w] = @ \ {k}]
                 /\ allowed' = [allowed EXCEPT ![k] = Append(@, clock)]
                 /\ UNCHANGED <<workers, job, declared, answered>>
            ELSE Respond(w) /\ UNCHANGED allowed
  /\ UNCHANGED <<chains, clock, requests, backlog, queue>>

(* try_extend_trusted and the commit. *)
Extend(w) ==
  LET r == Request(job[w])
  IN /\ workers[w] = "limiting" /\ unpaid[w] = {}
     /\ chains' = [chains EXCEPT ![r.project] = @ \o Blocks(job[w])]
     /\ Respond(w)
     /\ UNCHANGED <<limiter, clock, requests, backlog, queue, allowed>>

Handle(w) == ReadBody(w) \/ LookUp(w) \/ Call(w) \/ Limit(w) \/ Extend(w)

ClientSteps ==
  \E p \in Project :
    \/ Send("read", p, 0, << >>, TRUE)
    \/ \E kind \in {"push", "raw"}, n \in 0..Len(chains[p]), batch \in Batches, genuine \in BOOLEAN :
         Send(kind, p, n, batch, genuine)

RegistryNext ==
  \/ Tick \/ ClientSteps \/ Accept
  \/ \E w \in Worker : Take(w) \/ Handle(w)

(* Threads run, and the edge in front of the server ends a connection that
   stays silent. *)
Fairness ==
  /\ WF_registryVars(Accept)
  /\ \A w \in Worker : WF_registryVars(Take(w) \/ Handle(w))

-----------------------------------------------------------------------------

(* Every request is answered: a full queue, slow clients that leave and
   workers that wait for one project's mutex do not stop the others for good. *)
EveryRequestAnswered ==
  \A id \in 1..MaxRequests : id \in Sent ~> id \in answered

(* Blocks only come right after the block they were made on, also when they
   were pushed without a base and another push came in between. *)
BlocksFollowTheirBase ==
  [][\A p \in Project, w \in Worker :
       chains'[p] # chains[p] /\ job[w] # 0 /\ job[w] \in answered' =>
         chains[p] = Request(job[w]).base]_registryVars

(* The writes at times from the i-th to the j-th are within a burst and what
   flowed in between. *)
WithinShare(times, i, j) ==
  (j - i + 1) * Token <= Units(KeyBurst) + KeyRate * (times[j] - times[i])

(* In no span of time does the limiter let a key write more than its burst and
   what flowed in meanwhile, whatever was refused or forgotten. *)
WithinBudget ==
  \A k \in Key : \A i, j \in DOMAIN allowed[k] : i <= j => WithinShare(allowed[k], i, j)

=============================================================================
