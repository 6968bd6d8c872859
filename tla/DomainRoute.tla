---------------------------- MODULE DomainRoute ----------------------------
(***************************************************************************)
(* The token of one route between two domains: the DomainRoute in the      *)
(* namespace of its source and the one in the namespace of its             *)
(* destination, the controller that rolls their tokens                     *)
(* (pkg/controllers/domainroute) and the gateways of the two domains, which *)
(* negotiate a token with a handshake, put it into their proxies and probe *)
(* the other end (pkg/gateway/controller).                                 *)
(*                                                                         *)
(* A source sends its newest token; a destination accepts the tokens its   *)
(* proxies were given.  The controllers write with the version they read,  *)
(* so a sync that read an old version changes nothing and is left out; the *)
(* listers of the destination's gateways are kept, because they also fill  *)
(* proxies and answer calls from them.                                     *)
(*                                                                         *)
(* Time counts rolling periods: what happened in an earlier period is      *)
(* older than RollingUpdatePeriod, what happened two periods ago has       *)
(* expired.  Lost and late calls, crashes, two minutes without an answer   *)
(* and decisions on an outdated lister are faults, MaxFaults in all.       *)
(***************************************************************************)
EXTENDS Integers, Sequences, FiniteSets

CONSTANTS SrcGateways, DstGateways,  \* gateway instances of the two domains
          MaxNow,                    \* bound on time
          MaxFaults                  \* bound on faults

ASSUME GatewaysAssumption ==
  SrcGateways \cap DstGateways = {} /\ "none" \notin SrcGateways \cup DstGateways
ASSUME BoundsAssumption == MaxNow \in Nat /\ MaxFaults \in Nat

VARIABLES srcDr,   \* status of the DomainRoute of the source
          dstDr,   \* status of the DomainRoute of the destination
          view,    \* what a destination gateway's lister shows it of dstDr
          fresh,   \* that copy is the latest version
          use,     \* the token a source gateway's proxy sends, 0: none
          accepts, \* the tokens a destination gateway's proxy lets in
          gateway, \* what became of each gateway
          call,    \* the handshake a source gateway is waiting for
          late,    \* requests on the way whose senders have given up
          made,    \* tokens generated so far
          now, faults

vars == <<srcDr, dstDr, view, fresh, use, accepts, gateway, call, late, made,
          now, faults>>
dstVars == <<dstDr, view, fresh, accepts>>
proxies == <<use, accepts>>

Gateways == SrcGateways \cup DstGateways
NoGateway == "none"
Zero == -1  \* the zero time
Up == {g \in Gateways : gateway[g] = "up"}
\* The heartbeat of a gateway that is down is recent for three minutes.
Live == {g \in Gateways : gateway[g] # "dead"}

NoToken == [rev |-> 0, tok |-> 0, ready |-> FALSE, at |-> Zero, exp |-> Zero]
EmptyTokenStatus == [initializer |-> NoGateway, rt |-> NoToken, toks |-> <<>>]
Idle == [st |-> "idle", to |-> NoGateway, rt |-> NoToken]

Newest(toks) == toks[Len(toks)]
Expired(t) == now > t.exp
\* postRolling: the newest two stay.
Rolled(toks, t) ==
  Append(IF Len(toks) > 1 THEN SubSeq(toks, Len(toks), Len(toks)) ELSE toks, t)
NeedsRolled(toks, rt) == toks # <<>> => Newest(toks).rev # rt.rev

Fault == faults < MaxFaults /\ faults' = faults + 1
Charge(c) == IF c THEN Fault ELSE UNCHANGED faults

WantsHandshake(dr, g) == dr.initializer = g /\ dr.rt.tok = 0

WriteSrc(dr) == srcDr' = dr /\ UNCHANGED <<dstVars, use, gateway, late, made, now>>

WriteDst(dr) == dstDr' = dr /\ fresh' = [d \in DstGateways |-> FALSE]

\* What a gateway acts on in a copy of dstDr that may be outdated.
Seen(dr) == [rev |-> dr.rt.rev, ready |-> dr.rt.ready,
             toks |-> [i \in DOMAIN dr.toks |-> [rev |-> dr.toks[i].rev, tok |-> dr.toks[i].tok,
                                                ready |-> dr.toks[i].ready]]]

Init ==
  /\ srcDr = EmptyTokenStatus
  /\ dstDr = [rt |-> NoToken, toks |-> <<>>]
  /\ view = [d \in DstGateways |-> Seen(dstDr)]
  /\ fresh = [d \in DstGateways |-> TRUE]
  /\ use = [g \in SrcGateways |-> 0]
  /\ accepts = [d \in DstGateways |-> {}]
  /\ gateway = [g \in Gateways |-> "up"]
  /\ call = [g \in SrcGateways |-> Idle]
  /\ late = 0 /\ made = 0 /\ now = 0 /\ faults = 0

(***************************************************************************)
(* The controller, in the namespace of the source.                         *)
(***************************************************************************)
selectInitializer ==
  IF srcDr.initializer \in Live THEN {srcDr.initializer} ELSE Live \cap SrcGateways

\* needRollingToNext; slow: not ready for longer than domainRouteSyncPeriod.
needRollingToNext(slow) ==
  IF srcDr.rt.ready
  THEN (now > srcDr.rt.at \/ Expired(srcDr.rt)) /\ ~slow
  ELSE (srcDr.rt.at = Zero) # slow

preRollingSourceDomainRoute ==
  \E slow \in BOOLEAN, i \in selectInitializer :
    /\ needRollingToNext(slow) /\ Charge(slow)
    /\ WriteSrc([srcDr EXCEPT !.initializer = i,
                              !.rt = [NoToken EXCEPT !.rev = srcDr.rt.rev, !.at = now]])
    /\ UNCHANGED call

ensureInitializer ==
  /\ ~needRollingToNext(FALSE)
  /\ srcDr.initializer \notin Live
  /\ \E i \in selectInitializer : WriteSrc([srcDr EXCEPT !.initializer = i])
  /\ UNCHANGED <<call, faults>>

postRollingSourceDomainRoute ==
  /\ ~needRollingToNext(FALSE)
  /\ srcDr.initializer \in Live
  /\ srcDr.rt.ready /\ NeedsRolled(srcDr.toks, srcDr.rt)
  /\ WriteSrc([srcDr EXCEPT !.toks = Rolled(@, srcDr.rt)])
  /\ UNCHANGED <<call, faults>>

(***************************************************************************)
(* The controller, in the namespace of the destination.                    *)
(***************************************************************************)
\* Tokens[0] has expired; domainRouteSyncPeriod later a sync removes it.
dropExpiredToken ==
  /\ dstDr.toks # <<>> /\ Expired(dstDr.toks[1])
  /\ WriteDst([dstDr EXCEPT !.toks = Tail(@)])
  /\ UNCHANGED <<srcDr, view, proxies, gateway, call, late, made, now, faults>>

NeedsAppend == ~Expired(dstDr.rt) /\ dstDr.rt.tok # 0 /\ NeedsRolled(dstDr.toks, dstDr.rt)

\* Mutant: the gateways are not asked.
checkEffectiveInstances_unchecked == dstDr.toks # <<>>

\* The live gateways of the destination all have the newest token.
checkEffectiveInstances ==
  dstDr.toks # <<>> /\ Live \cap DstGateways \subseteq Newest(dstDr.toks).eff

postRollingDestinationDomainRoute ==
  /\ \/ /\ NeedsAppend
        /\ WriteDst([dstDr EXCEPT !.toks = Rolled(@, [rev |-> dstDr.rt.rev, tok |-> dstDr.rt.tok,
                       ready |-> dstDr.rt.ready, exp |-> dstDr.rt.exp, eff |-> {}])])
     \/ /\ ~NeedsAppend /\ ~dstDr.rt.ready /\ checkEffectiveInstances
        /\ WriteDst([dstDr EXCEPT !.rt.ready = TRUE, !.toks[Len(dstDr.toks)].ready = TRUE])
  /\ UNCHANGED <<srcDr, view, proxies, gateway, call, late, made, now, faults>>

(***************************************************************************)
(* The gateways of the source.                                             *)
(***************************************************************************)
\* syncHandler of the initializer while there is no token; to act on an outdated
\* lister is a fault.
sourceInitiateHandShake(g) ==
  /\ g \in Up /\ call[g].st = "idle"
  /\ Charge(~WantsHandshake(srcDr, g))
  /\ \E d \in Up \cap DstGateways :
       call' = [call EXCEPT ![g] = [Idle EXCEPT !.st = "sent", !.to = d]]
  /\ UNCHANGED <<srcDr, dstVars, use, gateway, late, made, now>>

\* updateDomainRoute: without a token the rule stays as it is.
updateSourceRule(g) ==
  /\ g \in Up /\ ~WantsHandshake(srcDr, g)
  /\ srcDr.toks # <<>> /\ use[g] # Newest(srcDr.toks).tok
  /\ use' = [use EXCEPT ![g] = Newest(srcDr.toks).tok]
  /\ UNCHANGED <<srcDr, dstVars, gateway, call, late, made, now, faults>>

\* UpdateDomainRouteRevisionToken: it writes the latest version.
UpdateDomainRouteRevisionToken(t) ==
  srcDr' = [srcDr EXCEPT !.rt = [t EXCEPT !.ready = TRUE, !.at = now]]

(***************************************************************************)
(* The gateways of the destination.                                        *)
(***************************************************************************)
WatchDestination(d) ==
  /\ d \in Up /\ ~fresh[d]
  /\ view' = [view EXCEPT ![d] = Seen(dstDr)]
  /\ fresh' = [fresh EXCEPT ![d] = TRUE]
  /\ UNCHANGED <<srcDr, dstDr, proxies, gateway, call, late, made, now, faults>>

TokensOf(toks) == {toks[i].tok : i \in DOMAIN toks}

\* updateDomainRoute: the proxy gets the tokens of the lister's copy; then
\* checkAndUpdateTokenInstances reports it, unless that copy is outdated.
updateDestinationRule(d) ==
  LET toks == view[d].toks
      report == fresh[d] /\ \E i \in DOMAIN toks : d \notin dstDr.toks[i].eff
  IN  /\ d \in Up /\ toks # <<>>
      /\ report \/ accepts[d] # TokensOf(toks)
      /\ accepts' = [accepts EXCEPT ![d] = TokensOf(toks)]
      /\ IF report
         THEN WriteDst([dstDr EXCEPT !.toks = [i \in DOMAIN toks |->
                          [dstDr.toks[i] EXCEPT !.eff = @ \cup {d}]]])
         ELSE UNCHANGED <<dstDr, fresh>>
      /\ UNCHANGED <<srcDr, view, use, gateway, call, late, made, now, faults>>

\* The token DestReplyHandshake generates and writes.
NewToken(d) == [rev |-> view[d].rev + 1, tok |-> made + 1, ready |-> FALSE,
                at |-> now, exp |-> now + 1]

\* Mutant: the write does not carry the version that was read.
DestReplyHandshake_unversioned(g) ==
  LET d == call[g].to
  IN  /\ call[g].st = "sent" /\ d \in Up
      /\ WriteDst([dstDr EXCEPT !.rt = NewToken(d)])
      /\ call' = [call EXCEPT ![g] = [@ EXCEPT !.st = "wait", !.rt = NewToken(d)]]
      /\ made' = made + 1
      /\ UNCHANGED <<srcDr, view, proxies, gateway, late, now, faults>>

\* DestReplyHandshake up to the write of the new token; the write is refused if
\* the lister is behind, and the caller is told so.
DestReplyHandshake(g) ==
  LET d == call[g].to
  IN  /\ call[g].st = "sent" /\ d \in Up
      /\ IF fresh[d]
         THEN /\ WriteDst([dstDr EXCEPT !.rt = NewToken(d)])
              /\ call' = [call EXCEPT ![g] = [@ EXCEPT !.st = "wait", !.rt = NewToken(d)]]
              /\ made' = made + 1
         ELSE call' = [call EXCEPT ![g] = Idle] /\ UNCHANGED <<dstDr, fresh, made>>
      /\ UNCHANGED <<srcDr, view, proxies, gateway, late, now, faults>>

\* The same for a request whose sender has given up.
DestReplyLate ==
  /\ late > 0 /\ late' = late - 1
  /\ \E d \in Up \cap DstGateways :
       IF fresh[d]
       THEN WriteDst([dstDr EXCEPT !.rt = NewToken(d)]) /\ made' = made + 1
       ELSE UNCHANGED <<dstDr, fresh, made>>
  /\ UNCHANGED <<srcDr, view, proxies, gateway, call, now, faults>>

\* waitTokenReady looks at whatever token the lister shows; then the answer
\* reaches the source.
waitTokenReady(g) ==
  LET seen == view[call[g].to]
  IN  /\ call[g].st = "wait" /\ call[g].to \in Up
      /\ Charge(seen.rev < call[g].rt.rev)
      /\ \/ seen.ready /\ UpdateDomainRouteRevisionToken(call[g].rt)
         \/ seen.rev = 0 /\ UNCHANGED srcDr  \* the token seems deleted
      /\ call' = [call EXCEPT ![g] = Idle]
      /\ UNCHANGED <<dstVars, use, gateway, late, made, now>>

\* The gateway that was asked is down.
CallFails(g) ==
  /\ call[g].st # "idle" /\ call[g].to \notin Up
  /\ call' = [call EXCEPT ![g] = Idle]
  /\ UNCHANGED <<srcDr, dstVars, use, gateway, late, made, now, faults>>

\* waitTokenReady has waited for longer than its thirty seconds.
GivesUp(g) ==
  /\ call[g].st = "wait" /\ call[g].rt.at < now
  /\ call' = [call EXCEPT ![g] = Idle]
  /\ UNCHANGED <<srcDr, dstVars, use, gateway, late, made, now, faults>>

\* DoHTTP gives up after ten seconds; the request or the answer is lost, or the
\* request still arrives.
CallTimesOut(g) ==
  /\ call[g].st # "idle" /\ Fault
  /\ call' = [call EXCEPT ![g] = Idle]
  /\ late' \in {late} \cup (IF call[g].st = "sent" THEN {late + 1} ELSE {})
  /\ UNCHANGED <<srcDr, dstVars, use, gateway, made, now>>

(***************************************************************************)
(* checkConnectionHealthy: the initializer asks the destination about the  *)
(* revision it holds, which any of its gateways answers from its lister.   *)
(***************************************************************************)
\* Mutant: no revision is ever missed.
Holds_always(toks, rev) == rev > 0

\* checkTokenRevision does not answer TokenNotFound.
Holds(toks, rev) == \E i \in DOMAIN toks : toks[i].rev = rev

checkConnectionStatus(g) ==
  /\ g \in Up /\ srcDr.initializer = g /\ srcDr.rt.tok # 0
  /\ \E d \in Up \cap DstGateways :
       \/ \* TokenReady: the heartbeat of the token is written.
          /\ \E i \in DOMAIN view[d].toks : view[d].toks[i].rev = srcDr.rt.rev /\ view[d].toks[i].ready
          /\ fresh[d] /\ WriteDst(dstDr)
          /\ UNCHANGED <<srcDr, faults>>
       \/ \* TokenNotFound: the source starts anew.
          /\ ~Holds(view[d].toks, srcDr.rt.rev)
          /\ Charge(Holds(dstDr.toks, srcDr.rt.rev))
          /\ srcDr' = EmptyTokenStatus
          /\ UNCHANGED <<dstDr, fresh>>
  /\ UNCHANGED <<view, proxies, gateway, call, late, made, now>>

(***************************************************************************)
(* Gateways crash and come back; their proxies start empty and their       *)
(* listers with the latest version.                                        *)
(***************************************************************************)
Crash(g) ==
  /\ g \in Up /\ Fault
  /\ gateway' = [gateway EXCEPT ![g] = "down"]
  /\ IF g \in SrcGateways
     THEN /\ use' = [use EXCEPT ![g] = 0] /\ call' = [call EXCEPT ![g] = Idle]
          /\ late' \in {late} \cup (IF call[g].st = "sent" THEN {late + 1} ELSE {})
          /\ UNCHANGED accepts
     ELSE accepts' = [accepts EXCEPT ![g] = {}] /\ UNCHANGED <<use, call, late>>
  /\ UNCHANGED <<srcDr, dstDr, view, fresh, made, now>>

HeartbeatExpires(g) ==
  /\ gateway[g] = "down" /\ gateway' = [gateway EXCEPT ![g] = "dead"]
  /\ UNCHANGED <<srcDr, dstVars, use, call, late, made, now, faults>>

Restart(g) ==
  /\ g \notin Up /\ gateway' = [gateway EXCEPT ![g] = "up"]
  /\ IF g \in DstGateways
     THEN view' = [view EXCEPT ![g] = Seen(dstDr)] /\ fresh' = [fresh EXCEPT ![g] = TRUE]
     ELSE UNCHANGED <<view, fresh>>
  /\ UNCHANGED <<srcDr, dstDr, proxies, call, late, made, now, faults>>

Tick ==
  /\ now < MaxNow /\ now' = now + 1
  /\ UNCHANGED <<srcDr, dstVars, use, gateway, call, late, made, faults>>

Controller ==
  \/ preRollingSourceDomainRoute \/ ensureInitializer \/ postRollingSourceDomainRoute
  \/ dropExpiredToken \/ postRollingDestinationDomainRoute

SourceGateway(g) ==
  \/ sourceInitiateHandShake(g) \/ updateSourceRule(g)
  \/ waitTokenReady(g) \/ CallFails(g) \/ GivesUp(g) \/ CallTimesOut(g) \/ checkConnectionStatus(g)
  \/ DestReplyHandshake(g)

DestinationGateway(d) == WatchDestination(d) \/ updateDestinationRule(d)

Next ==
  \/ Controller
  \/ \E g \in SrcGateways : SourceGateway(g)
  \/ \E d \in DstGateways : DestinationGateway(d)
  \/ DestReplyLate
  \/ \E g \in Gateways : Crash(g) \/ HeartbeatExpires(g) \/ Restart(g)
  \/ Tick

Fairness ==
  /\ WF_vars(preRollingSourceDomainRoute) /\ WF_vars(ensureInitializer)
  /\ WF_vars(postRollingSourceDomainRoute)
  /\ WF_vars(dropExpiredToken) /\ WF_vars(postRollingDestinationDomainRoute)
  /\ \A g \in SrcGateways :
       /\ WF_vars(sourceInitiateHandShake(g)) /\ WF_vars(GivesUp(g))
       /\ WF_vars(updateSourceRule(g)) /\ WF_vars(DestReplyHandshake(g))
       /\ WF_vars(waitTokenReady(g)) /\ WF_vars(CallFails(g))
       /\ SF_vars(checkConnectionStatus(g) /\ srcDr' # srcDr)
  /\ \A d \in DstGateways : WF_vars(WatchDestination(d)) /\ WF_vars(updateDestinationRule(d))
  /\ \A g \in Gateways : WF_vars(Restart(g)) /\ WF_vars(HeartbeatExpires(g))

Spec == Init /\ [][Next]_vars
FairSpec == Spec /\ Fairness

(***************************************************************************)
(* Properties.                                                             *)
(***************************************************************************)
Time == Nat \cup {Zero}
TokenType == [rev : Nat, tok : Nat, ready : BOOLEAN, at : Time, exp : Time]
DstTokenType == [rev : Nat, tok : Nat, ready : BOOLEAN, exp : Time, eff : SUBSET DstGateways]
SeenType == [rev : Nat, ready : BOOLEAN, toks : Seq([rev : Nat, tok : Nat, ready : BOOLEAN])]

\* Type invariant; both token lists hold at most two tokens (rolling.go).
TypeOK ==
  /\ srcDr \in [initializer : SrcGateways \cup {NoGateway}, rt : TokenType, toks : Seq(TokenType)]
  /\ dstDr \in [rt : TokenType, toks : Seq(DstTokenType)]
  /\ Len(srcDr.toks) <= 2 /\ Len(dstDr.toks) <= 2
  /\ view \in [DstGateways -> SeenType] /\ fresh \in [DstGateways -> BOOLEAN]
  /\ use \in [SrcGateways -> Nat] /\ accepts \in [DstGateways -> SUBSET Nat]
  /\ gateway \in [Gateways -> {"up", "down", "dead"}]
  /\ call \in [SrcGateways -> [st : {"idle", "sent", "wait"}, to : DstGateways \cup {NoGateway},
                                rt : TokenType]]
  /\ late \in Nat /\ made \in Nat /\ now \in Nat /\ faults \in Nat

\* A revision names one token: where the lists of source and destination hold
\* the same revision they hold the same token, whatever handshakes were lost,
\* repeated or answered by gateways that lag.  The two ends, the health check
\* and postRolling compare nothing but revisions (IndexToken in handshake.go,
\* postRollingSourceDomainRoute in rolling.go), so this is what they rest on.
RevisionNamesOneToken ==
  \A i \in DOMAIN srcDr.toks, j \in DOMAIN dstDr.toks :
    srcDr.toks[i].rev = dstDr.toks[j].rev => srcDr.toks[i].tok = dstDr.toks[j].tok

\* Without faults rolling never interrupts traffic: every token of the source
\* that has not expired is accepted by the proxy of every gateway of the
\* destination, because the destination answers a handshake once all its
\* gateways have the token and keeps the one before it ("update source after all
\* instances in destination have taken effect", rolling.go).
RollingIsSeamless ==
  faults = 0 =>
    \A i \in DOMAIN srcDr.toks, d \in DstGateways :
      Expired(srcDr.toks[i]) \/ srcDr.toks[i].tok \in accepts[d]

Agreed ==
  \A g \in SrcGateways \cap Up, d \in DstGateways \cap Up :
     use[g] # 0 /\ use[g] \in accepts[d]

\* After the last fault the route comes to work and stays so: each running proxy
\* of the source sends a token that each running proxy of the destination
\* accepts.  It takes the health check of the initializer, which starts a
\* handshake when the destination has lost the revision (handleGetResponse), and
\* the choice of another initializer when it dies (ensureInitializer).
RouteHeals == <>[]Agreed
=============================================================================
