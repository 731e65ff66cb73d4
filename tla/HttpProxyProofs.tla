---------------------------- MODULE HttpProxyProofs ----------------------------
(***************************************************************************)
(* Proofs about module HttpProxy, for any number of requests, nodes and    *)
(* faults, any zone file, command line and network.                        *)
(*                                                                         *)
(* All three invariants follow from one account kept per request: how many *)
(* requests to the web server have happened or can still happen without a  *)
(* further break.  The account depends on where the thread is, since an    *)
(* answer ends the relay_sync and a break entitles it to one more attempt. *)
(***************************************************************************)
EXTENDS HttpProxy, TLAPS

\* A thread may be sent to any identifier at all, so that `to' has no type.
Fields == {"leg", "to", "tried", "call", "answer", "result"}
IsThread(t) ==
    /\ DOMAIN t = Fields
    /\ t.leg \in {"new", "dns", "proxy", "done"}
    /\ t.call \in {"none", "sent", "handling", "answered"}

\* The shape of the state that belongs to the requests.
TypeOK ==
    /\ zones \in load_zones
    /\ thread = [r \in Requests |-> thread[r]]
    /\ \A r \in Requests : IsThread(thread[r])
    /\ orphans \in [Requests -> Nat]
    /\ upstream \in [Requests -> [reached : Nat, pages : Nat]]
    /\ faults \in [Requests -> Nat]

\* A call is under way only in one of the two relay_syncs, the web server is asked
\* only in the second, and only the end has a result.
CallsBelong(r) ==
    /\ thread[r].call # "none" => thread[r].leg \in {"dns", "proxy"}
    /\ thread[r].call = "handling" => thread[r].leg = "proxy"
    /\ thread[r].answer # "none" => thread[r].call = "answered"
    /\ thread[r].result # "none" <=> thread[r].leg = "done"

\* Nothing of r is on its way before the proxy is known.
FreshUntilProxy(r) ==
    thread[r].leg \in {"new", "dns"} => orphans[r] = 0 /\ upstream[r] = Nothing

\* The account: what r made web servers do and the copies that may still do so are
\* paid for by breaks; one more is due to the attempt that was answered.
Account(r) ==
    /\ upstream[r].reached + orphans[r] <= 1 + faults[r]
    /\ thread[r].leg # "done" /\ thread[r].call # "answered" =>
          upstream[r].reached + orphans[r] <= faults[r]
    /\ faults[r] = 0 => orphans[r] = 0

\* A page of the web server is in the answer that the thread holds, or in the
\* result, unless something broke.
PageKept(r) ==
    /\ thread[r].answer = "page" \/ thread[r].result = "page" => upstream[r].pages > 0
    /\ faults[r] = 0 /\ upstream[r].pages > 0 =>
          thread[r].answer = "page" \/ thread[r].result = "page"
    /\ thread[r].answer = "page" => thread[r].leg = "proxy"

Right(r) == IF args.proxy # NoNode THEN {args.proxy} ELSE ZoneProxies(Host[r])

\* The copies that nobody waits for are on their way to the right proxy too.
Addressed(r) ==
    thread[r].leg = "proxy" \/ orphans[r] > 0 \/ upstream[r].reached > 0 =>
        thread[r].to \in Right(r)

Sound(r) ==
    /\ CallsBelong(r)
    /\ FreshUntilProxy(r)
    /\ Account(r)
    /\ PageKept(r)
    /\ Addressed(r)

HInv == TypeOK /\ \A r \in Requests : Sound(r)
-----------------------------------------------------------------------------
(* The look-up *)

\* What lookup answers for a host, when it answers with identifiers, begins with the
\* first well formed one of a zone entry of that host.
LEMMA LookupIsOfZone ==
    ASSUME zones \in load_zones, NEW h, lookup(h) # << >>
    PROVE  Head(lookup(h)) \in ZoneProxies(h)
<1> DEFINE d == normalize_domain(h)
<1>1. d \in DOMAIN zones /\ lookup(h) = zones[d]
  BY DEF lookup
<1>2. PICK z \in ZoneFile : normalize_domain(z.domain) = d /\ zones[d] = Valid(z.ids)
  BY <1>1 DEF load_zones
<1>3. Lower[z.domain] = Lower[h] /\ Valid(z.ids) # << >>
  BY <1>1, <1>2 DEF normalize_domain
<1>4. Head(Valid(z.ids)) \in ZoneProxies(h)
  BY <1>2, <1>3 DEF ZoneProxies
<1> QED
  BY <1>1, <1>2, <1>4

-----------------------------------------------------------------------------
(* The invariant *)

\* Before the first step nothing has been asked of anybody.
LEMMA InitSound == Init => HInv
<1> SUFFICES ASSUME Init PROVE HInv
  OBVIOUS
<1>1. TypeOK
  BY DEF Init, TypeOK, IsThread, Fields, NewThread, Nothing
<1>2. ASSUME NEW r \in Requests PROVE Sound(r)
  <2>1. thread[r] = NewThread /\ orphans[r] = 0 /\ upstream[r] = Nothing /\ faults[r] = 0
    BY DEF Init
  <2> QED
    BY <2>1 DEF Sound, CallsBelong, FreshUntilProxy, Account, PageKept, Addressed,
                NewThread, Nothing
<1> QED
  BY <1>1, <1>2 DEF HInv

\* A step that touches the thread of no request, nor what is counted for it, keeps
\* the invariant.
LEMMA QuietSteps ==
    HInv /\ UNCHANGED <<args, zones, thread, orphans, upstream, faults>> => HInv'
<1> SUFFICES ASSUME HInv, UNCHANGED <<args, zones, thread, orphans, upstream, faults>>
             PROVE  HInv'
  OBVIOUS
<1>1. TypeOK'
  BY DEF HInv, TypeOK, load_zones
<1>2. ASSUME NEW r \in Requests PROVE Sound(r)'
  BY DEF HInv, Sound, CallsBelong, FreshUntilProxy, Account, PageKept, Addressed, Right
<1> QED
  BY <1>1, <1>2 DEF HInv

\* A step of one request keeps the invariant if it keeps the account of that request.
LEMMA OneRequest ==
    ASSUME HInv, NEW r \in Requests, UNCHANGED <<args, zones>>,
           NEW t, thread' = [thread EXCEPT ![r] = t], IsThread(t),
           NEW o \in Nat, orphans' = [orphans EXCEPT ![r] = o],
           NEW u \in [reached : Nat, pages : Nat], upstream' = [upstream EXCEPT ![r] = u],
           NEW f \in Nat, faults' = [faults EXCEPT ![r] = f],
           Sound(r)'
    PROVE  HInv'
<1>1. TypeOK'
  BY DEF HInv, TypeOK
<1>2. ASSUME NEW q \in Requests, q # r PROVE Sound(q)'
  <2>1. /\ thread'[q] = thread[q] /\ orphans'[q] = orphans[q]
        /\ upstream'[q] = upstream[q] /\ faults'[q] = faults[q]
    BY <1>2 DEF HInv, TypeOK
  <2> QED
    BY <2>1 DEF HInv, Sound, CallsBelong, FreshUntilProxy, Account, PageKept, Addressed, Right
<1> QED
  BY <1>1, <1>2 DEF HInv

\* The same for a step that only moves the thread.
LEMMA ThreadOnly ==
    ASSUME HInv, NEW r \in Requests, UNCHANGED <<args, zones, orphans, upstream, faults>>,
           NEW t, Set(r, t), IsThread(t), Sound(r)'
    PROVE  HInv'
<1>1. /\ orphans[r] \in Nat /\ orphans' = [orphans EXCEPT ![r] = orphans[r]]
      /\ upstream[r] \in [reached : Nat, pages : Nat]
      /\ upstream' = [upstream EXCEPT ![r] = upstream[r]]
      /\ faults[r] \in Nat /\ faults' = [faults EXCEPT ![r] = faults[r]]
  BY DEF HInv, TypeOK
<1>2. thread' = [thread EXCEPT ![r] = t]
  BY DEF Set
<1> QED
  BY <1>1, <1>2, OneRequest

\* With a proxy that is the right one, or none, the thread goes on to it or fails.
LEMMA FetchSound ==
    ASSUME HInv, NEW r \in Requests, UNCHANGED <<args, zones, orphans, upstream, faults>>,
           thread[r].leg \in {"new", "dns"},
           NEW proxy, proxy # NoNode => proxy \in Right(r),
           Set(r, Fetch(r, thread[r], proxy))
    PROVE  HInv'
<1> DEFINE t == Fetch(r, thread[r], proxy)
<1>1. t = Failed(thread[r]) \/ (t = Towards("proxy", proxy) /\ proxy \in Right(r))
  BY DEF Fetch
<1>2. IsThread(t)
  BY <1>1 DEF IsThread, Fields, Failed, Done, Towards, NewThread
<1>3. thread'[r] = t
  BY DEF Set, HInv, TypeOK
<1>4. /\ orphans[r] = 0 /\ upstream[r].reached = 0 /\ upstream[r].pages = 0
      /\ faults[r] \in Nat
      /\ orphans'[r] = orphans[r] /\ upstream'[r] = upstream[r] /\ faults'[r] = faults[r]
  BY DEF HInv, TypeOK, Sound, FreshUntilProxy, Nothing
<1>5. /\ t.call = "none" /\ t.answer = "none"
      /\ \/ t.leg = "done" /\ t.result = "failed"
         \/ t.leg = "proxy" /\ t.result = "none" /\ t.to \in Right(r)
  BY <1>1 DEF Failed, Done, Towards, NewThread
<1>6. Right(r)' = Right(r)
  BY DEF Right
<1> HIDE DEF t
<1>7. Sound(r)'
  BY <1>3, <1>4, <1>5, <1>6
     DEF Sound, CallsBelong, FreshUntilProxy, Account, PageKept, Addressed
<1> QED
  BY <1>2, <1>7, ThreadOnly DEF t

\* handler: the thread starts.
LEMMA HandlerSound == ASSUME HInv, NEW r \in Requests, handler(r) PROVE HInv'
<1>1. CASE args.dns # NoNode
  <2> DEFINE t == Towards("dns", args.dns)
  <2>1. Set(r, t) /\ UNCHANGED <<args, zones, orphans, upstream, faults>>
    BY <1>1 DEF handler, fixed
  <2>2. /\ IsThread(t) /\ t.leg = "dns" /\ t.call = "none" /\ t.answer = "none"
        /\ t.result = "none"
    BY DEF Towards, NewThread, IsThread, Fields
  <2>3. /\ thread'[r] = t /\ orphans'[r] = orphans[r] /\ upstream'[r] = upstream[r]
        /\ faults'[r] = faults[r] /\ faults[r] \in Nat
    BY <2>1 DEF HInv, TypeOK, Set
  <2>4. orphans[r] = 0 /\ upstream[r] = Nothing
    BY DEF handler, HInv, Sound, FreshUntilProxy
  <2> HIDE DEF t
  <2>5. Sound(r)'
    BY <2>2, <2>3, <2>4
       DEF Sound, CallsBelong, FreshUntilProxy, Account, PageKept, Addressed, Nothing
  <2> QED
    BY <2>1, <2>2, <2>5, ThreadOnly
<1>2. CASE args.dns = NoNode
  <2>1. /\ Set(r, Fetch(r, thread[r], args.proxy)) /\ thread[r].leg = "new"
        /\ UNCHANGED <<args, zones, orphans, upstream, faults>>
    BY <1>2 DEF handler, fixed
  <2>2. args.proxy # NoNode => args.proxy \in Right(r)
    BY DEF Right
  <2> QED
    BY <2>1, <2>2, FetchSound
<1> QED
  BY <1>1, <1>2

\* relay_sync: the next peer, or the end.
LEMMA RelaySyncSound == ASSUME HInv, NEW r \in Requests, relay_sync(r) PROVE HInv'
<1> DEFINE t == thread'[r]
<1>1. /\ UNCHANGED <<args, zones, orphans, upstream, faults>>
      /\ thread[r].leg \in {"dns", "proxy"} /\ thread[r].call = "none"
  BY DEF relay_sync, fixed, Calling
<1>2. /\ DOMAIN thread[r] = Fields /\ faults[r] \in Nat /\ orphans[r] \in Nat
      /\ upstream[r].reached \in Nat /\ upstream[r].pages \in Nat
      /\ orphans'[r] = orphans[r] /\ upstream'[r] = upstream[r] /\ faults'[r] = faults[r]
  BY <1>1 DEF HInv, TypeOK, IsThread
<1>3. Sound(r)
  BY DEF HInv
<1>4. \/ t = Failed(thread[r])
      \/ \E c \in {"sent", "none"} :
            t = [thread[r] EXCEPT !.tried = @ + 1, !.call = c]
  BY DEF relay_sync, Set, HInv, TypeOK
<1>5. Right(r)' = Right(r)
  BY <1>1 DEF Right
<1>6. CASE t = Failed(thread[r])
  <2>1. /\ IsThread(t) /\ t.leg = "done" /\ t.call = "none" /\ t.answer = "none"
        /\ t.result = "failed" /\ t.to = thread[r].to
    BY <1>6 DEF Failed, Done, NewThread, IsThread, Fields
  <2>2. Sound(r)'
    BY <1>1, <1>2, <1>3, <1>5, <2>1
       DEF Sound, CallsBelong, FreshUntilProxy, Account, PageKept, Addressed, Nothing
  <2>3. Set(r, t)
    BY DEF relay_sync, Set, HInv, TypeOK
  <2> QED
    BY <1>1, <2>1, <2>2, <2>3, ThreadOnly
<1>7. CASE \E c \in {"sent", "none"} : t = [thread[r] EXCEPT !.tried = @ + 1, !.call = c]
  <2>1. /\ IsThread(t) /\ t.leg = thread[r].leg /\ t.call \in {"sent", "none"}
        /\ t.answer = thread[r].answer /\ t.result = thread[r].result /\ t.to = thread[r].to
    BY <1>7, <1>1, <1>2 DEF IsThread, Fields
  <2>2. Sound(r)'
    BY <1>1, <1>2, <1>3, <1>5, <2>1
       DEF Sound, CallsBelong, FreshUntilProxy, Account, PageKept, Addressed, Nothing
  <2>3. Set(r, t)
    BY DEF relay_sync, Set, HInv, TypeOK
  <2> QED
    BY <1>1, <2>1, <2>2, <2>3, ThreadOnly
<1> QED
  BY <1>4, <1>6, <1>7

\* An answer that is no page ends the relay_sync and costs nothing.
LEMMA AnswerSound ==
    ASSUME HInv, NEW r \in Requests, UNCHANGED <<args, zones, orphans, upstream, faults>>,
           thread[r].call \in {"sent", "handling"},
           NEW a \in {"nodes", "text", "nothing", "undelivered", "error"},
           Set(r, Answer(thread[r], a))
    PROVE  HInv'
<1> DEFINE t == Answer(thread[r], a)
<1>1. /\ DOMAIN thread[r] = Fields /\ faults[r] \in Nat /\ orphans[r] \in Nat
      /\ upstream[r].reached \in Nat /\ upstream[r].pages \in Nat /\ thread'[r] = t
      /\ orphans'[r] = orphans[r] /\ upstream'[r] = upstream[r] /\ faults'[r] = faults[r]
  BY DEF HInv, TypeOK, IsThread, Set
<1>2. Sound(r) /\ IsThread(thread[r])
  BY DEF HInv, TypeOK
<1>3. /\ IsThread(t) /\ t.leg = thread[r].leg /\ t.to = thread[r].to
      /\ t.call = "answered" /\ t.answer = a /\ t.result = thread[r].result
  BY <1>1, <1>2 DEF Answer, IsThread, Fields
<1>4. Right(r)' = Right(r)
  BY DEF Right
<1> HIDE DEF t
<1>5. CallsBelong(r)' /\ FreshUntilProxy(r)'
  BY <1>1, <1>2, <1>3 DEF Sound, CallsBelong, FreshUntilProxy
<1>6. Account(r)' /\ Addressed(r)'
  BY <1>1, <1>2, <1>3, <1>4 DEF Sound, CallsBelong, Account, Addressed
<1>7. PageKept(r)'
  BY <1>1, <1>2, <1>3 DEF Sound, CallsBelong, PageKept
<1> QED
  BY <1>3, <1>5, <1>6, <1>7, ThreadOnly DEF t, Sound

\* deliver: the message arrives; only a proxy-server begins to handle it.
LEMMA DeliverSound == ASSUME HInv, NEW r \in Requests, deliver(r) PROVE HInv'
<1>1. thread[r].call = "sent" /\ UNCHANGED <<args, zones, orphans, upstream, faults>>
  BY DEF deliver, fixed
<1>2. \/ \E a \in {"nodes", "text", "nothing", "undelivered", "error"} :
            Set(r, Answer(thread[r], a))
      \/ thread[r].leg = "proxy" /\ Set(r, [thread[r] EXCEPT !.call = "handling"])
  BY DEF deliver
<1>3. CASE \E a \in {"nodes", "text", "nothing", "undelivered", "error"} :
              Set(r, Answer(thread[r], a))
  BY <1>1, <1>3, AnswerSound
<1>4. CASE thread[r].leg = "proxy" /\ Set(r, [thread[r] EXCEPT !.call = "handling"])
  <2> DEFINE t == [thread[r] EXCEPT !.call = "handling"]
  <2>1. /\ DOMAIN thread[r] = Fields /\ faults[r] \in Nat /\ orphans[r] \in Nat
        /\ upstream[r].reached \in Nat /\ upstream[r].pages \in Nat /\ thread'[r] = t
        /\ orphans'[r] = orphans[r] /\ upstream'[r] = upstream[r] /\ faults'[r] = faults[r]
    BY <1>1, <1>4 DEF HInv, TypeOK, IsThread, Set
  <2>2. Sound(r) /\ IsThread(thread[r])
    BY DEF HInv, TypeOK
  <2>3. /\ IsThread(t) /\ t.leg = "proxy" /\ t.to = thread[r].to
        /\ t.call = "handling" /\ t.answer = thread[r].answer /\ t.result = thread[r].result
    BY <1>4, <2>1, <2>2 DEF IsThread, Fields
  <2>4. Right(r)' = Right(r)
    BY <1>1 DEF Right
  <2> HIDE DEF t
  <2>5. CallsBelong(r)' /\ FreshUntilProxy(r)'
    BY <1>1, <1>4, <2>1, <2>2, <2>3 DEF Sound, CallsBelong, FreshUntilProxy
  <2>6. Account(r)' /\ Addressed(r)'
    BY <1>1, <1>4, <2>1, <2>2, <2>3, <2>4 DEF Sound, Account, Addressed
  <2>7. PageKept(r)'
    BY <1>1, <1>4, <2>1, <2>2, <2>3 DEF Sound, PageKept
  <2> QED
    BY <1>1, <1>4, <2>3, <2>5, <2>6, <2>7, ThreadOnly DEF t, Sound
<1> QED
  BY <1>2, <1>3, <1>4

\* What an outcome adds to the history.
LEMMA CountAdds ==
    ASSUME TypeOK, NEW r \in Requests, NEW o \in Outcomes, Count(r, o)
    PROVE  \E u \in [reached : Nat, pages : Nat] :
              /\ upstream' = [upstream EXCEPT ![r] = u] /\ upstream'[r] = u
              /\ u.reached = upstream[r].reached + o.reached
              /\ u.pages = upstream[r].pages + o.pages
              /\ o.reached \in {0, 1} /\ o.pages \in {0, 1} /\ o.pages <= o.reached
<1> DEFINE u == [f \in DOMAIN o |-> upstream[r][f] + o[f]]
<1>1. /\ DOMAIN o = {"reached", "pages"}
      /\ o.reached \in {0, 1} /\ o.pages \in {0, 1} /\ o.pages <= o.reached
  BY DEF Outcomes, Nothing
<1>2. upstream[r].reached \in Nat /\ upstream[r].pages \in Nat
  BY DEF TypeOK
<1>3. /\ u.reached = upstream[r].reached + o.reached
      /\ u.pages = upstream[r].pages + o.pages
  BY <1>1
<1>4. u \in [reached : Nat, pages : Nat]
  BY <1>1, <1>2, <1>3
<1>5. upstream' = [upstream EXCEPT ![r] = u] /\ upstream'[r] = u
  BY DEF Count, TypeOK
<1> HIDE DEF u
<1> QED
  BY <1>1, <1>3, <1>4, <1>5

\* do_upstream_request: what the web server did is in the answer.
LEMMA UpstreamSound == ASSUME HInv, NEW r \in Requests, do_upstream_request(r) PROVE HInv'
<1>1. PICK o \in Outcomes :
          Count(r, o) /\ Set(r, Answer(thread[r], IF o.pages = 1 THEN "page" ELSE "error"))
  BY DEF do_upstream_request
<1>2. PICK u \in [reached : Nat, pages : Nat] :
          /\ upstream' = [upstream EXCEPT ![r] = u] /\ upstream'[r] = u
          /\ u.reached = upstream[r].reached + o.reached
          /\ u.pages = upstream[r].pages + o.pages
          /\ o.reached \in {0, 1} /\ o.pages \in {0, 1} /\ o.pages <= o.reached
  BY <1>1, CountAdds DEF HInv
<1>3. thread[r].call = "handling" /\ UNCHANGED <<args, zones, orphans, faults>>
  BY DEF do_upstream_request, fixed
<1> DEFINE t == Answer(thread[r], IF o.pages = 1 THEN "page" ELSE "error")
<1>4. /\ DOMAIN thread[r] = Fields /\ faults[r] \in Nat /\ orphans[r] \in Nat
      /\ upstream[r].reached \in Nat /\ upstream[r].pages \in Nat
      /\ thread'[r] = t /\ thread' = [thread EXCEPT ![r] = t]
      /\ orphans'[r] = orphans[r] /\ faults'[r] = faults[r]
      /\ orphans' = [orphans EXCEPT ![r] = orphans[r]]
      /\ faults' = [faults EXCEPT ![r] = faults[r]]
  BY <1>1, <1>3 DEF HInv, TypeOK, IsThread, Set
<1>5. Sound(r) /\ IsThread(thread[r])
  BY DEF HInv, TypeOK
<1>6. /\ IsThread(t) /\ t.leg = thread[r].leg /\ t.to = thread[r].to
      /\ t.call = "answered" /\ t.answer = (IF o.pages = 1 THEN "page" ELSE "error")
      /\ t.result = thread[r].result
  BY <1>4, <1>5 DEF Answer, IsThread, Fields
<1>7. Right(r)' = Right(r)
  BY <1>3 DEF Right
<1> HIDE DEF t
<1>8. thread[r].leg = "proxy" /\ thread[r].answer = "none" /\ thread[r].result = "none"
  BY <1>3, <1>5 DEF Sound, CallsBelong
<1>9. CallsBelong(r)' /\ FreshUntilProxy(r)'
  BY <1>4, <1>5, <1>6, <1>8 DEF Sound, CallsBelong, FreshUntilProxy
<1>10. Account(r)'
  BY <1>2, <1>3, <1>4, <1>5, <1>6, <1>8 DEF Sound, Account
<1>11. Addressed(r)'
  BY <1>4, <1>5, <1>6, <1>7, <1>8 DEF Sound, Addressed
<1>12. PageKept(r)'
  BY <1>2, <1>3, <1>4, <1>5, <1>6, <1>8 DEF Sound, PageKept
<1>13. Sound(r)'
  BY <1>9, <1>10, <1>11, <1>12 DEF Sound
<1> QED
  BY <1>2, <1>3, <1>4, <1>6, <1>13, OneRequest

\* return: on to the proxy with what the look-up gave, or to the end.
LEMMA ReturnSound == ASSUME HInv, NEW r \in Requests, return(r) PROVE HInv'
<1>1. thread[r].call = "answered" /\ UNCHANGED <<args, zones, orphans, upstream, faults>>
  BY DEF return, fixed
<1>2. CASE thread[r].leg = "dns" /\ thread[r].answer = "nodes"
  <2>1. Set(r, Fetch(r, thread[r], Chosen(r)))
    BY <1>2 DEF return
  <2>2. Chosen(r) # NoNode => Chosen(r) \in Right(r)
    BY LookupIsOfZone DEF Chosen, Right, HInv, TypeOK
  <2> QED
    BY <1>1, <1>2, <2>1, <2>2, FetchSound
<1>3. CASE ~(thread[r].leg = "dns" /\ thread[r].answer = "nodes")
  <2>1. PICK result \in {"page", "failed"} :
            /\ Set(r, Done(thread[r], result))
            /\ result = "page" <=> thread[r].leg = "proxy" /\ thread[r].answer = "page"
    BY <1>3 DEF return, Failed
  <2> DEFINE t == Done(thread[r], result)
  <2>2. /\ faults[r] \in Nat /\ orphans[r] \in Nat
        /\ upstream[r].reached \in Nat /\ upstream[r].pages \in Nat /\ thread'[r] = t
        /\ orphans'[r] = orphans[r] /\ upstream'[r] = upstream[r] /\ faults'[r] = faults[r]
    BY <1>1, <2>1 DEF HInv, TypeOK, Set
  <2>3. Sound(r)
    BY DEF HInv
  <2>4. /\ IsThread(t) /\ t.leg = "done" /\ t.to = thread[r].to
        /\ t.call = "none" /\ t.answer = "none" /\ t.result = result
    BY DEF Done, NewThread, IsThread, Fields
  <2>5. Right(r)' = Right(r)
    BY <1>1 DEF Right
  <2> HIDE DEF t
  <2>6. thread[r].result = "none"
    BY <1>1, <2>3 DEF Sound, CallsBelong
  <2>7. CallsBelong(r)' /\ FreshUntilProxy(r)' /\ Account(r)' /\ Addressed(r)'
    BY <2>2, <2>3, <2>4, <2>5
       DEF Sound, CallsBelong, FreshUntilProxy, Account, Addressed
  <2>8. PageKept(r)'
    BY <2>1, <2>2, <2>3, <2>4, <2>6 DEF Sound, PageKept
  <2> QED
    BY <1>1, <2>1, <2>4, <2>7, <2>8, ThreadOnly DEF t, Sound
<1> QED
  BY <1>2, <1>3

\* A break: the copy on its way, if there is one, is written down as an orphan and
\* paid for by the fault; the thread tries again or takes it for an answer.
LEMMA BreakSound ==
    ASSUME HInv, NEW r \in Requests, UNCHANGED <<args, zones, upstream>>,
           Calling(r), thread[r].call # "none", Orphaned(r),
           NEW t, Set(r, t), IsThread(t), t.leg = thread[r].leg, t.to = thread[r].to,
           t.result = thread[r].result,
           \/ t.call \in {"none", "sent"} /\ t.answer = "none"
           \/ /\ thread[r].call \in {"sent", "handling"}
              /\ t.call = "answered" /\ t.answer = "undelivered"
    PROVE  HInv'
<1> DEFINE flying == IF thread[r].leg = "proxy" /\ thread[r].call \in {"sent", "handling"}
                       THEN 1 ELSE 0
<1>1. /\ faults[r] \in Nat /\ orphans[r] \in Nat /\ upstream[r].reached \in Nat
      /\ upstream[r].pages \in Nat /\ upstream[r] \in [reached : Nat, pages : Nat]
      /\ thread'[r] = t /\ thread' = [thread EXCEPT ![r] = t]
      /\ upstream'[r] = upstream[r] /\ upstream' = [upstream EXCEPT ![r] = upstream[r]]
  BY DEF HInv, TypeOK, Set
<1>2. /\ orphans'[r] = orphans[r] + flying
      /\ orphans' = [orphans EXCEPT ![r] = orphans[r] + flying]
      /\ faults'[r] = faults[r] + 1 /\ faults' = [faults EXCEPT ![r] = faults[r] + 1]
  BY DEF Orphaned, HInv, TypeOK
<1>3. /\ flying \in {0, 1} /\ orphans[r] + flying \in Nat /\ faults[r] + 1 \in Nat
      /\ flying = 1 => thread[r].leg = "proxy" /\ thread[r].call # "answered"
      /\ thread[r].leg # "proxy" => flying = 0
  BY <1>1
<1> HIDE DEF flying
<1>4. Sound(r) /\ thread[r].leg \in {"dns", "proxy"} /\ thread[r].result = "none"
  BY DEF HInv, Calling, Sound, CallsBelong
<1>5. Right(r)' = Right(r)
  BY DEF Right
<1>6. CallsBelong(r)'
  BY <1>1, <1>4 DEF CallsBelong
<1>7. FreshUntilProxy(r)'
  BY <1>1, <1>2, <1>3, <1>4 DEF Sound, FreshUntilProxy
<1>8. Account(r)'
  BY <1>1, <1>2, <1>3, <1>4 DEF Sound, Account
<1>9. Addressed(r)'
  BY <1>1, <1>2, <1>3, <1>4, <1>5 DEF Sound, Addressed
<1>10. PageKept(r)'
  BY <1>1, <1>2, <1>4 DEF Sound, PageKept
<1>11. Sound(r)'
  BY <1>6, <1>7, <1>8, <1>9, <1>10 DEF Sound
<1> QED
  BY <1>1, <1>2, <1>3, <1>11, OneRequest

\* client_gives_up and hop_breaks are such breaks.
LEMMA FaultsSound ==
    ASSUME HInv, NEW r \in Requests, client_gives_up(r) \/ hop_breaks(r) PROVE HInv'
<1>1. IsThread(thread[r]) /\ Sound(r)
  BY DEF HInv, TypeOK
<1>2. CASE client_gives_up(r)
  <2> DEFINE t == [thread[r] EXCEPT !.call = "none", !.answer = "none"]
  <2>1. /\ IsThread(t) /\ t.leg = thread[r].leg /\ t.to = thread[r].to
        /\ t.result = thread[r].result /\ t.call = "none" /\ t.answer = "none"
    BY <1>1 DEF IsThread, Fields
  <2>2. /\ Calling(r) /\ thread[r].call # "none" /\ Orphaned(r) /\ Set(r, t)
        /\ UNCHANGED <<args, zones, upstream>>
    BY <1>2 DEF client_gives_up, fixed
  <2> HIDE DEF t
  <2> QED
    BY <2>1, <2>2, BreakSound
<1>3. CASE hop_breaks(r)
  <2>1. /\ thread[r].call \in {"sent", "handling"} /\ Orphaned(r)
        /\ UNCHANGED <<args, zones, upstream>>
    BY <1>3 DEF hop_breaks, fixed
  <2>2. Calling(r) /\ thread[r].call # "none" /\ thread[r].answer = "none"
    BY <1>1, <2>1 DEF Calling, Sound, CallsBelong
  <2>3. PICK t \in {Answer(thread[r], "undelivered"), [thread[r] EXCEPT !.call = "sent"]} :
            Set(r, t)
    BY <1>3 DEF hop_breaks
  <2>4. /\ IsThread(t) /\ t.leg = thread[r].leg /\ t.to = thread[r].to
        /\ t.result = thread[r].result
        /\ \/ t.call = "sent" /\ t.answer = "none"
           \/ t.call = "answered" /\ t.answer = "undelivered"
    BY <1>1, <2>2 DEF IsThread, Fields, Answer
  <2> QED
    BY <2>1, <2>2, <2>3, <2>4, BreakSound
<1> QED
  BY <1>2, <1>3

\* orphan_ends: what an orphan does was counted when it became one.
LEMMA OrphanSound == ASSUME HInv, NEW r \in Requests, orphan_ends(r) PROVE HInv'
<1>1. /\ faults[r] \in Nat /\ orphans[r] \in Nat /\ upstream[r].reached \in Nat
      /\ upstream[r].pages \in Nat /\ upstream[r] \in [reached : Nat, pages : Nat]
      /\ IsThread(thread[r]) /\ orphans[r] > 0
      /\ UNCHANGED <<args, zones, thread, faults>>
      /\ thread' = [thread EXCEPT ![r] = thread[r]]
      /\ faults' = [faults EXCEPT ![r] = faults[r]]
      /\ orphans'[r] = orphans[r] - 1 /\ orphans' = [orphans EXCEPT ![r] = orphans[r] - 1]
  BY DEF HInv, TypeOK, orphan_ends, fixed
<1>2. PICK u \in [reached : Nat, pages : Nat] :
          /\ upstream' = [upstream EXCEPT ![r] = u] /\ upstream'[r] = u
          /\ u.reached \in {upstream[r].reached, upstream[r].reached + 1}
          /\ u.pages \in {upstream[r].pages, upstream[r].pages + 1}
  <2>1. CASE UNCHANGED upstream
    BY <1>1, <2>1 DEF HInv, TypeOK
  <2>2. CASE \E o \in Outcomes : Count(r, o)
    <3>1. PICK o \in Outcomes : Count(r, o)
      BY <2>2
    <3>2. PICK u \in [reached : Nat, pages : Nat] :
              /\ upstream' = [upstream EXCEPT ![r] = u] /\ upstream'[r] = u
              /\ u.reached = upstream[r].reached + o.reached
              /\ u.pages = upstream[r].pages + o.pages
              /\ o.reached \in {0, 1} /\ o.pages \in {0, 1} /\ o.pages <= o.reached
      BY <3>1, CountAdds DEF HInv
    <3>3. /\ u.reached \in {upstream[r].reached, upstream[r].reached + 1}
          /\ u.pages \in {upstream[r].pages, upstream[r].pages + 1}
      BY <1>1, <3>2
    <3> QED
      BY <3>2, <3>3
  <2> QED
    BY <2>1, <2>2 DEF orphan_ends
<1>3. Sound(r) /\ faults[r] # 0
  BY <1>1 DEF HInv, Sound, Account
<1>4. Right(r)' = Right(r)
  BY <1>1 DEF Right
<1>5. CallsBelong(r)' /\ FreshUntilProxy(r)'
  BY <1>1, <1>3 DEF Sound, CallsBelong, FreshUntilProxy
<1>6. Account(r)'
  BY <1>1, <1>2, <1>3 DEF Sound, Account
<1>7. Addressed(r)'
  BY <1>1, <1>2, <1>3, <1>4 DEF Sound, Addressed
<1>8. PageKept(r)'
  BY <1>1, <1>2, <1>3 DEF Sound, PageKept
<1>9. Sound(r)' /\ orphans[r] - 1 \in Nat
  BY <1>1, <1>5, <1>6, <1>7, <1>8 DEF Sound
<1> QED
  BY <1>1, <1>2, <1>9, OneRequest

\* Every step keeps the account of every request.
LEMMA NextSound == HInv /\ [Next]_vars => HInv'
<1> SUFFICES ASSUME HInv, [Next]_vars PROVE HInv'
  OBVIOUS
<1>1. CASE UNCHANGED vars
  BY <1>1, QuietSteps DEF vars
<1>2. CASE run_serve \/ bootstrap_peers
  BY <1>2, QuietSteps DEF run_serve, bootstrap_peers, fixed
<1>3. CASE \E n \in Nodes : stops(n)
  BY <1>3, QuietSteps DEF stops, fixed
<1>4. ASSUME NEW r \in Requests, handler(r) \/ Step(r) \/ orphan_ends(r) PROVE HInv'
  <2>1. CASE not_delivered(r)
    <3>1. /\ thread[r].call = "sent" /\ Set(r, Answer(thread[r], "undelivered"))
          /\ UNCHANGED <<args, zones, orphans, upstream, faults>>
      BY <2>1 DEF not_delivered, fixed
    <3> QED
      BY <3>1, AnswerSound
  <2> QED
    BY <1>4, <2>1, HandlerSound, RelaySyncSound, DeliverSound, UpstreamSound, ReturnSound,
       FaultsSound, OrphanSound DEF Step
<1> QED
  BY <1>1, <1>2, <1>3, <1>4 DEF Next

\* The account holds in every reachable state.
THEOREM AccountsHold == Spec => []HInv
  BY InitSound, NextSound, PTL DEF Spec

-----------------------------------------------------------------------------
(* The properties *)

\* However relay_sync goes from peer to peer and however late the copies that it
\* gave up on arrive, a web server gets a request at most once more than something
\* broke.
THEOREM AskedOncePerBreak == Spec => []OncePerBreak
<1>1. HInv => OncePerBreak
  <2> SUFFICES ASSUME HInv, NEW r \in Requests PROVE upstream[r].reached <= 1 + faults[r]
    BY DEF OncePerBreak
  <2>1. upstream[r].reached \in Nat /\ orphans[r] \in Nat /\ faults[r] \in Nat
    BY DEF HInv, TypeOK
  <2> QED
    BY <2>1 DEF HInv, Sound, Account
<1> QED
  BY <1>1, AccountsHold, PTL

\* A page is shown only if a web server sent one, and none that it sent is withheld
\* unless something broke.
THEOREM PagesReported == Spec => []PagesAreReported
<1>1. HInv => PagesAreReported
  <2> SUFFICES ASSUME HInv, NEW r \in Requests
               PROVE  /\ thread[r].result = "page" => upstream[r].pages > 0
                      /\ thread[r].result = "failed" /\ faults[r] = 0 => upstream[r].pages = 0
    BY DEF PagesAreReported
  <2>1. upstream[r].pages \in Nat
    BY DEF HInv, TypeOK
  <2>2. thread[r].result = "failed" => thread[r].answer # "page"
    BY DEF HInv, Sound, CallsBelong
  <2> QED
    BY <2>1, <2>2 DEF HInv, Sound, PageKept
<1> QED
  BY <1>1, AccountsHold, PTL

\* A request, and every copy of it that outlives its caller, goes to the proxy of the
\* command line or to the first well formed identifier of a zone of its host.
THEOREM ProxyIsRight == Spec => []RightProxy
<1>1. HInv => RightProxy
  <2> SUFFICES ASSUME HInv, NEW r \in Requests,
                      thread[r].leg = "proxy" \/ upstream[r].reached > 0
               PROVE  thread[r].to \in Right(r)
    BY DEF RightProxy, Right
  <2> QED
    BY DEF HInv, Sound, Addressed
<1> QED
  BY <1>1, AccountsHold, PTL
================================================================================
