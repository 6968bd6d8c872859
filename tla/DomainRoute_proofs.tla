------------------------- MODULE DomainRoute_proofs -------------------------
(***************************************************************************)
(* Proofs about DomainRoute, for any gateways, any time and any number of  *)
(* faults: its types, that a revision names one token, and that, until the *)
(* first fault, every token the source may still send is let in.           *)
(***************************************************************************)
EXTENDS DomainRoute, TLAPS

LEMMA AppendList ==
  ASSUME NEW S, NEW q \in Seq(S), NEW t \in S
  PROVE  /\ Append(q, t) \in Seq(S) /\ Len(Append(q, t)) = Len(q) + 1
         /\ DOMAIN Append(q, t) = 1 .. Len(q) + 1
         /\ \A i \in 1 .. Len(q) : Append(q, t)[i] = q[i]
         /\ Append(q, t)[Len(q) + 1] = t
         /\ Len(q) \in Nat /\ DOMAIN q = 1 .. Len(q)
OBVIOUS

\* Rolling a list of tokens keeps at most its newest and adds t.
LEMMA RolledList ==
  ASSUME NEW S, NEW toks \in Seq(S), NEW t \in S
  PROVE  /\ Rolled(toks, t) \in Seq(S)
         /\ Len(Rolled(toks, t)) <= 2
         /\ \A i \in DOMAIN Rolled(toks, t) :
              Rolled(toks, t)[i] = t \/ \E j \in DOMAIN toks : Rolled(toks, t)[i] = toks[j]
<1>1. PICK q \in Seq(S) : /\ Len(q) <= 1
                          /\ Rolled(toks, t) = Append(q, t)
                          /\ \A i \in 1 .. Len(q) : \E j \in DOMAIN toks : q[i] = toks[j]
  <2>1. CASE Len(toks) > 1
    <3> DEFINE last == SubSeq(toks, Len(toks), Len(toks))
    <3>1. last \in Seq(S) /\ Len(last) = 1 /\ last[1] = toks[Len(toks)]
      BY <2>1
    <3>2. Rolled(toks, t) = Append(last, t) /\ Len(toks) \in DOMAIN toks
      BY <2>1 DEF Rolled
    <3>. HIDE DEF last
    <3>3. \A i \in 1 .. Len(last) : \E j \in DOMAIN toks : last[i] = toks[j]
      BY <3>1, <3>2
    <3>4. Len(last) <= 1
      BY <3>1
    <3>. QED BY <3>1, <3>2, <3>3, <3>4, Zenon
  <2>2. CASE Len(toks) <= 1
    BY <2>2 DEF Rolled
  <2>. QED BY <2>1, <2>2
<1>2. /\ Append(q, t) \in Seq(S) /\ Len(Append(q, t)) = Len(q) + 1
      /\ DOMAIN Append(q, t) = 1 .. Len(q) + 1
      /\ \A i \in 1 .. Len(q) : Append(q, t)[i] = q[i]
      /\ Append(q, t)[Len(q) + 1] = t
      /\ Len(q) \in Nat
  BY AppendList
<1>. QED BY <1>1, <1>2

-----------------------------------------------------------------------------
\* A lister that is not behind shows the latest version.
FreshViews == \A d \in DstGateways : fresh[d] => view[d] = Seen(dstDr)

TypeInv == TypeOK /\ FreshViews

LEMMA SeenTypes ==
  ASSUME NEW dr \in [rt : TokenType, toks : Seq(DstTokenType)]
  PROVE  /\ Seen(dr) \in SeenType
         /\ Seen(dr).rev = dr.rt.rev
         /\ DOMAIN Seen(dr).toks = DOMAIN dr.toks
<1> DEFINE item(i) == [rev |-> dr.toks[i].rev, tok |-> dr.toks[i].tok, ready |-> dr.toks[i].ready]
           list == [i \in DOMAIN dr.toks |-> item(i)]
           Item == [rev : Nat, tok : Nat, ready : BOOLEAN]
<1>1. dr.toks \in Seq(DstTokenType)
  BY Zenon
<1>2. \A i \in DOMAIN dr.toks : item(i) \in Item
  <2>1. \A i \in DOMAIN dr.toks : dr.toks[i] \in DstTokenType
    BY <1>1
  <2>. QED BY <2>1, Zenon DEF DstTokenType
<1>3. list \in Seq(Item) /\ DOMAIN list = DOMAIN dr.toks
  <2>. HIDE DEF item, Item
  <2>1. DOMAIN dr.toks = 1 .. Len(dr.toks) /\ Len(dr.toks) \in Nat
    BY <1>1
  <2>. QED BY <1>2, <2>1
<1>4. dr.rt.rev \in Nat /\ dr.rt.ready \in BOOLEAN
  BY Zenon DEF TokenType
<1>5. Seen(dr) = [rev |-> dr.rt.rev, ready |-> dr.rt.ready, toks |-> list]
  BY Zenon DEF Seen
<1>. QED
  <2>. HIDE DEF list, item
  <2>. QED BY <1>3, <1>4, <1>5 DEF SeenType

-----------------------------------------------------------------------------
SrcType == [initializer : SrcGateways \cup {NoGateway}, rt : TokenType, toks : Seq(TokenType)]
DstType == [rt : TokenType, toks : Seq(DstTokenType)]
CallType == [st : {"idle", "sent", "wait"}, to : DstGateways \cup {NoGateway}, rt : TokenType]

LEMMA NoTokenType ==
  NoToken \in TokenType /\ Idle \in CallType /\ EmptyTokenStatus \in SrcType
BY DEF NoToken, TokenType, Time, Zero, Idle, CallType, EmptyTokenStatus, SrcType

\* A token stays a token when it is marked ready now.
LEMMA ReadyTokenType ==
  ASSUME NEW t \in TokenType, NEW n \in Nat
  PROVE  [t EXCEPT !.ready = TRUE, !.at = n] \in TokenType
BY Zenon DEF TokenType, Time

\* The token a destination gateway makes.
LEMMA NewTokenType ==
  ASSUME TypeInv, NEW d \in DstGateways
  PROVE  NewToken(d) \in TokenType
<1>1. view[d] \in SeenType /\ made \in Nat /\ now \in Nat
  BY Zenon DEF TypeInv, TypeOK
<1>2. view[d].rev + 1 \in Nat /\ made + 1 \in Nat /\ now \in Time /\ now + 1 \in Time
  BY <1>1 DEF SeenType, Time
<1>. QED BY <1>2, Zenon DEF NewToken, TokenType

LEMMA TypeInit == Init => TypeInv
<1>. SUFFICES ASSUME Init PROVE TypeInv
  BY Zenon
<1>1. dstDr \in [rt : TokenType, toks : Seq(DstTokenType)]
  BY NoTokenType DEF Init
<1>2. Seen(dstDr) \in SeenType
  BY <1>1, SeenTypes, Zenon
<1>3. FreshViews
  BY Zenon DEF Init, FreshViews
<1>4. srcDr \in SrcType /\ Len(srcDr.toks) <= 2 /\ Len(dstDr.toks) <= 2
  BY NoTokenType DEF Init, EmptyTokenStatus
<1>5. call \in [SrcGateways -> CallType]
  BY NoTokenType, Zenon DEF Init
<1>. QED
  BY <1>1, <1>2, <1>3, <1>4, <1>5, Zenon DEF Init, TypeInv, TypeOK, SrcType, CallType, Gateways

\* A write to the DomainRoute of the source keeps the types.
LEMMA TypeSource ==
  ASSUME TypeInv, NEW dr \in SrcType, Len(dr.toks) <= 2, WriteSrc(dr),
         UNCHANGED call, faults' \in Nat
  PROVE  TypeInv'
BY Zenon DEF TypeInv, TypeOK, WriteSrc, dstVars, SrcType, FreshViews

\* A write to the DomainRoute of the destination keeps the types.
LEMMA TypeDestination ==
  ASSUME TypeInv, NEW dr \in DstType, Len(dr.toks) <= 2, WriteDst(dr),
         UNCHANGED <<srcDr, view, use, gateway, now, faults>>,
         accepts' \in [DstGateways -> SUBSET Nat], call' \in [SrcGateways -> CallType],
         late' \in Nat, made' \in Nat
  PROVE  TypeInv'
<1>1. FreshViews' /\ fresh' \in [DstGateways -> BOOLEAN]
  BY Zenon DEF WriteDst, FreshViews
<1>. QED BY <1>1, Zenon DEF TypeInv, TypeOK, WriteDst, CallType, DstType

LEMMA FaultType ==
  ASSUME TypeInv
  PROVE  /\ Fault => faults' \in Nat
         /\ \A c \in BOOLEAN : Charge(c) => faults' \in Nat
BY DEF TypeInv, TypeOK, Fault, Charge

LEMMA TypeController ==
  ASSUME TypeInv, Controller
  PROVE  TypeInv'
<1>0. srcDr \in SrcType /\ Len(srcDr.toks) <= 2 /\ now \in Nat /\ dstDr \in DstType
  BY Zenon DEF TypeInv, TypeOK, SrcType, DstType
<1>a. /\ accepts \in [DstGateways -> SUBSET Nat] /\ call \in [SrcGateways -> CallType]
      /\ late \in Nat /\ made \in Nat
  BY Zenon DEF TypeInv, TypeOK, CallType
<1>1. CASE preRollingSourceDomainRoute
  <2>1. PICK slow \in BOOLEAN, i \in selectInitializer :
          /\ Charge(slow)
          /\ WriteSrc([srcDr EXCEPT !.initializer = i,
                         !.rt = [NoToken EXCEPT !.rev = srcDr.rt.rev, !.at = now]])
          /\ UNCHANGED call
    BY <1>1, Zenon DEF preRollingSourceDomainRoute
  <2>2. i \in SrcGateways \cup {NoGateway}
    BY <1>0, Zenon DEF selectInitializer, SrcType
  <2>3. [NoToken EXCEPT !.rev = srcDr.rt.rev, !.at = now] \in TokenType
    BY <1>0, Zenon DEF SrcType, TokenType, NoToken, Time, Zero
  <2>. QED BY <1>0, <2>1, <2>2, <2>3, TypeSource, FaultType, Zenon DEF SrcType
<1>2. CASE ensureInitializer
  <2>1. PICK i \in selectInitializer :
          WriteSrc([srcDr EXCEPT !.initializer = i]) /\ UNCHANGED <<call, faults>>
    BY <1>2, Zenon DEF ensureInitializer
  <2>2. i \in SrcGateways \cup {NoGateway}
    BY <1>0, Zenon DEF selectInitializer, SrcType
  <2>3. faults' \in Nat
    BY <2>1, Zenon DEF TypeInv, TypeOK
  <2>. QED BY <1>0, <2>1, <2>2, <2>3, TypeSource, Zenon DEF SrcType
<1>3. CASE postRollingSourceDomainRoute
  <2> DEFINE new == Rolled(srcDr.toks, srcDr.rt)
  <2>1. WriteSrc([srcDr EXCEPT !.toks = new]) /\ UNCHANGED <<call, faults>>
    BY <1>3, Zenon DEF postRollingSourceDomainRoute
  <2>2. new \in Seq(TokenType) /\ Len(new) <= 2
    BY <1>0, RolledList, Zenon DEF SrcType
  <2>3. faults' \in Nat
    BY <2>1, Zenon DEF TypeInv, TypeOK
  <2>. HIDE DEF new
  <2>. QED BY <1>0, <2>1, <2>2, <2>3, TypeSource, Zenon DEF SrcType
<1>4. CASE dropExpiredToken
  <2> DEFINE dr == [dstDr EXCEPT !.toks = Tail(@)]
  <2>1. dstDr.toks # <<>> /\ WriteDst(dr)
    BY <1>4, Zenon DEF dropExpiredToken
  <2>2. Tail(dstDr.toks) \in Seq(DstTokenType) /\ Len(Tail(dstDr.toks)) <= 2
    BY <1>0, <2>1 DEF DstType, TypeInv, TypeOK
  <2>3. dr \in DstType /\ Len(dr.toks) <= 2
    BY <1>0, <2>2, Zenon DEF DstType
  <2>. HIDE DEF dr
  <2>4. /\ UNCHANGED <<srcDr, view, use, gateway, now, faults>>
        /\ UNCHANGED <<accepts, call, late, made>>
    BY <1>4, Zenon DEF dropExpiredToken, proxies
  <2>. QED BY <1>a, <2>1, <2>3, <2>4, TypeDestination, Zenon
<1>5. CASE postRollingDestinationDomainRoute
  <2>1. /\ UNCHANGED <<srcDr, view, use, gateway, now, faults>>
        /\ UNCHANGED <<accepts, call, late, made>>
    BY <1>5, Zenon DEF postRollingDestinationDomainRoute, proxies
  <2>2. CASE NeedsAppend
    <3> DEFINE t == [rev |-> dstDr.rt.rev, tok |-> dstDr.rt.tok, ready |-> dstDr.rt.ready,
                     exp |-> dstDr.rt.exp, eff |-> {}]
               new == Rolled(dstDr.toks, t)
               dr == [dstDr EXCEPT !.toks = new]
    <3>1. WriteDst(dr)
      BY <1>5, <2>2, Zenon DEF postRollingDestinationDomainRoute
    <3>2. t \in DstTokenType
      BY <1>0, Zenon DEF DstType, DstTokenType, TokenType
    <3>3. new \in Seq(DstTokenType) /\ Len(new) <= 2
      BY <1>0, <3>2, RolledList, Zenon DEF DstType
    <3>4. dr \in DstType /\ Len(dr.toks) <= 2
      <4>. HIDE DEF new
      <4>. QED BY <1>0, <3>3, Zenon DEF DstType
    <3>. HIDE DEF dr
    <3>. QED BY <1>a, <2>1, <3>1, <3>4, TypeDestination, Zenon
  <2>3. CASE ~NeedsAppend
    <3> DEFINE n == Len(dstDr.toks)
               new == [dstDr.toks EXCEPT ![n].ready = TRUE]
               rt == [dstDr.rt EXCEPT !.ready = TRUE]
               dr == [dstDr EXCEPT !.rt = rt, !.toks = new]
    <3>1. WriteDst([dstDr EXCEPT !.rt.ready = TRUE, !.toks[n].ready = TRUE])
      BY <1>5, <2>3, Zenon DEF postRollingDestinationDomainRoute
    <3>2. new \in Seq(DstTokenType) /\ Len(new) <= 2
      <4>1. dstDr.toks \in Seq(DstTokenType) /\ n <= 2
        BY <1>0, Zenon DEF DstType, TypeInv, TypeOK
      <4>2. dstDr.toks # <<>>
        BY <1>5, <2>3, Zenon DEF postRollingDestinationDomainRoute, checkEffectiveInstances
      <4>3. n \in DOMAIN dstDr.toks /\ dstDr.toks[n] \in DstTokenType
        BY <4>1, <4>2
      <4>4. [dstDr.toks[n] EXCEPT !.ready = TRUE] \in DstTokenType
        BY <4>3, Zenon DEF DstTokenType
      <4>. QED BY <4>1, <4>3, <4>4
    <3>3. rt \in TokenType
      BY <1>0, Zenon DEF DstType, TokenType
    <3>4. dr \in DstType /\ Len(dr.toks) <= 2
      <4>. HIDE DEF new, rt
      <4>. QED BY <1>0, <3>2, <3>3, Zenon DEF DstType
    <3>5. WriteDst(dr)
      BY <1>0, <3>1, Zenon DEF DstType
    <3>. HIDE DEF dr
    <3>. QED BY <1>a, <2>1, <3>4, <3>5, TypeDestination, Zenon
  <2>. QED BY <2>2, <2>3, Zenon
<1>. QED BY <1>1, <1>2, <1>3, <1>4, <1>5, Zenon DEF Controller

LEMMA TypeSourceGateway ==
  ASSUME TypeInv, NEW g \in SrcGateways, SourceGateway(g)
  PROVE  TypeInv'
<1>0. /\ srcDr \in SrcType /\ Len(srcDr.toks) <= 2 /\ now \in Nat
      /\ dstDr \in DstType /\ Len(dstDr.toks) <= 2
      /\ call \in [SrcGateways -> CallType] /\ late \in Nat /\ made \in Nat
      /\ accepts \in [DstGateways -> SUBSET Nat]
  BY Zenon DEF TypeInv, TypeOK, SrcType, DstType, CallType
<1>1. CASE sourceInitiateHandShake(g)
  <2>1. PICK d \in DstGateways :
          call' = [call EXCEPT ![g] = [Idle EXCEPT !.st = "sent", !.to = d]]
    BY <1>1, Zenon DEF sourceInitiateHandShake
  <2>2. [Idle EXCEPT !.st = "sent", !.to = d] \in CallType
    BY NoTokenType, Zenon DEF CallType
  <2>3. call' \in [SrcGateways -> CallType]
    BY <1>0, <2>1, <2>2, Zenon
  <2>4. faults' \in Nat
    BY <1>1, FaultType, Zenon DEF sourceInitiateHandShake, WantsHandshake
  <2>. QED
    BY <1>1, <2>3, <2>4, Zenon DEF sourceInitiateHandShake, TypeInv, TypeOK, CallType, dstVars, FreshViews
<1>2. CASE updateSourceRule(g)
  <2>1. Newest(srcDr.toks).tok \in Nat
    <3>1. srcDr.toks \in Seq(TokenType) /\ srcDr.toks # <<>>
      BY <1>0, <1>2, Zenon DEF SrcType, updateSourceRule
    <3>2. srcDr.toks[Len(srcDr.toks)] \in TokenType
      BY <3>1
    <3>. QED BY <3>2, Zenon DEF Newest, TokenType
  <2>. QED BY <1>2, <2>1, Zenon DEF updateSourceRule, TypeInv, TypeOK, dstVars, FreshViews
<1>3. CASE waitTokenReady(g)
  <2>1. faults' \in Nat
    <3> DEFINE behind == view[call[g].to].rev < call[g].rt.rev
    <3>1. Charge(behind) /\ behind \in BOOLEAN
      BY <1>3 DEF waitTokenReady
    <3>. HIDE DEF behind
    <3>. QED BY <3>1, FaultType, Zenon
  <2>2. call' = [call EXCEPT ![g] = Idle] /\ UNCHANGED <<dstVars, use, gateway, late, made, now>>
    BY <1>3, Zenon DEF waitTokenReady
  <2>3. call' \in [SrcGateways -> CallType]
    BY <1>0, <2>2, NoTokenType, Zenon
  <2>4. [call[g].rt EXCEPT !.ready = TRUE, !.at = now] \in TokenType
    <3>1. call[g].rt \in TokenType
      BY <1>0, Zenon DEF CallType
    <3>. QED BY <1>0, <3>1, ReadyTokenType, Zenon
  <2>5. srcDr' \in SrcType /\ Len(srcDr'.toks) <= 2
    <3>1. \/ srcDr' = [srcDr EXCEPT !.rt = [call[g].rt EXCEPT !.ready = TRUE, !.at = now]]
          \/ srcDr' = srcDr
      BY <1>3, Zenon DEF waitTokenReady, UpdateDomainRouteRevisionToken
    <3>. QED BY <1>0, <2>4, <3>1, Zenon DEF SrcType
  <2>. QED
    BY <2>1, <2>2, <2>3, <2>5, Zenon DEF TypeInv, TypeOK, CallType, SrcType, dstVars, FreshViews
<1>4. CASE CallFails(g) \/ GivesUp(g)
  <2>1. /\ call' = [call EXCEPT ![g] = Idle]
        /\ UNCHANGED <<srcDr, dstVars, use, gateway, late, made, now, faults>>
    BY <1>4, Zenon DEF CallFails, GivesUp
  <2>2. call' \in [SrcGateways -> CallType]
    BY <1>0, <2>1, NoTokenType, Zenon
  <2>. QED BY <2>1, <2>2, Zenon DEF TypeInv, TypeOK, CallType, dstVars, FreshViews
<1>5. CASE CallTimesOut(g)
  <2>1. call' = [call EXCEPT ![g] = Idle] /\ UNCHANGED <<srcDr, dstVars, use, gateway, made, now>>
    BY <1>5, Zenon DEF CallTimesOut
  <2>2. call' \in [SrcGateways -> CallType]
    BY <1>0, <2>1, NoTokenType, Zenon
  <2>3. late' \in Nat
    BY <1>0, <1>5 DEF CallTimesOut
  <2>4. faults' \in Nat
    BY <1>5, FaultType, Zenon DEF CallTimesOut
  <2>. QED BY <2>1, <2>2, <2>3, <2>4, Zenon DEF TypeInv, TypeOK, CallType, dstVars, FreshViews
<1>6. CASE checkConnectionStatus(g)
  <2>1. UNCHANGED <<view, use, accepts, gateway, call, late, made, now>>
    BY <1>6, Zenon DEF checkConnectionStatus, proxies
  <2>2. CASE WriteDst(dstDr) /\ UNCHANGED <<srcDr, faults>>
    BY <1>0, <2>1, <2>2, TypeDestination, Zenon
  <2>3. CASE faults' \in Nat /\ srcDr' = EmptyTokenStatus /\ UNCHANGED <<dstDr, fresh>>
    <3>1. srcDr' \in SrcType /\ Len(srcDr'.toks) <= 2
      BY <2>3, NoTokenType DEF EmptyTokenStatus
    <3>. QED BY <2>1, <2>3, <3>1, Zenon DEF TypeInv, TypeOK, SrcType, FreshViews
  <2>4. \/ WriteDst(dstDr) /\ UNCHANGED <<srcDr, faults>>
        \/ faults' \in Nat /\ srcDr' = EmptyTokenStatus /\ UNCHANGED <<dstDr, fresh>>
    <3>1. Holds(dstDr.toks, srcDr.rt.rev) \in BOOLEAN
      BY Zenon DEF Holds
    <3>. QED BY <1>6, <3>1, FaultType, Zenon DEF checkConnectionStatus
  <2>. QED BY <2>2, <2>3, <2>4, Zenon
<1>7. CASE DestReplyHandshake(g)
  <2> DEFINE d == call[g].to
  <2>1. d \in DstGateways /\ UNCHANGED <<srcDr, view, use, accepts, gateway, late, now, faults>>
    BY <1>0, <1>7, GatewaysAssumption, Zenon
    DEF DestReplyHandshake, CallType, Up, Gateways, NoGateway, proxies
  <2>2. CASE fresh[d]
    <3>1. /\ WriteDst([dstDr EXCEPT !.rt = NewToken(d)])
          /\ call' = [call EXCEPT ![g] = [@ EXCEPT !.st = "wait", !.rt = NewToken(d)]]
          /\ made' = made + 1
      BY <1>7, <2>2, Zenon DEF DestReplyHandshake
    <3>2. NewToken(d) \in TokenType
      BY <2>1, NewTokenType, Zenon
    <3>3. call' \in [SrcGateways -> CallType]
      BY <1>0, <3>1, <3>2, Zenon DEF CallType
    <3> DEFINE dr == [dstDr EXCEPT !.rt = NewToken(d)]
    <3>4. dr \in DstType /\ Len(dr.toks) <= 2 /\ WriteDst(dr)
      BY <1>0, <3>1, <3>2, Zenon DEF DstType
    <3>. HIDE DEF dr
    <3>. QED BY <1>0, <2>1, <3>1, <3>3, <3>4, TypeDestination
  <2>3. CASE ~fresh[d]
    <3>1. call' = [call EXCEPT ![g] = Idle] /\ UNCHANGED <<dstDr, fresh, made>>
      BY <1>7, <2>3, Zenon DEF DestReplyHandshake
    <3>2. call' \in [SrcGateways -> CallType]
      BY <1>0, <3>1, NoTokenType, Zenon
    <3>. QED BY <2>1, <3>1, <3>2, Zenon DEF TypeInv, TypeOK, CallType, FreshViews
  <2>. QED BY <2>2, <2>3, Zenon
<1>. QED BY <1>1, <1>2, <1>3, <1>4, <1>5, <1>6, <1>7, Zenon DEF SourceGateway

LEMMA TypeOthers ==
  ASSUME TypeInv,
         \/ \E d \in DstGateways : DestinationGateway(d)
         \/ DestReplyLate
         \/ \E g \in Gateways : Crash(g) \/ HeartbeatExpires(g) \/ Restart(g)
         \/ Tick
  PROVE  TypeInv'
<1>0. /\ now \in Nat /\ dstDr \in DstType /\ Len(dstDr.toks) <= 2
      /\ call \in [SrcGateways -> CallType] /\ late \in Nat /\ made \in Nat
      /\ accepts \in [DstGateways -> SUBSET Nat] /\ view \in [DstGateways -> SeenType]
      /\ FreshViews
  BY Zenon DEF TypeInv, TypeOK, DstType, CallType
<1>1. Seen(dstDr) \in SeenType /\ Seen(dstDr).rev = dstDr.rt.rev
  BY <1>0, SeenTypes, Zenon DEF DstType
<1>2. ASSUME NEW d \in DstGateways, WatchDestination(d) PROVE TypeInv'
  BY <1>0, <1>1, <1>2, Zenon DEF WatchDestination, TypeInv, TypeOK, FreshViews, proxies
<1>3. ASSUME NEW d \in DstGateways, updateDestinationRule(d) PROVE TypeInv'
  <2> DEFINE toks == view[d].toks
             report == fresh[d] /\ \E i \in DOMAIN toks : d \notin dstDr.toks[i].eff
  <2>1. /\ accepts' = [accepts EXCEPT ![d] = TokensOf(toks)]
        /\ UNCHANGED <<srcDr, view, use, gateway, call, late, made, now, faults>>
    BY <1>3, Zenon DEF updateDestinationRule
  <2>2. accepts' \in [DstGateways -> SUBSET Nat]
    <3> DEFINE Item == [rev : Nat, tok : Nat, ready : BOOLEAN]
    <3>1. toks \in Seq(Item)
      BY <1>0, Zenon DEF SeenType
    <3>2. \A i \in DOMAIN toks : toks[i].tok \in Nat
      <4>1. \A i \in DOMAIN toks : toks[i] \in Item
        <5>. HIDE DEF toks, Item
        <5>. QED BY <3>1
      <4>. QED BY <4>1, Zenon
    <3>. QED BY <1>0, <2>1, <3>2, Zenon DEF TokensOf
  <2>3. CASE report
    <3> DEFINE new == [i \in DOMAIN toks |-> [dstDr.toks[i] EXCEPT !.eff = @ \cup {d}]]
               dr == [dstDr EXCEPT !.toks = new]
    <3>1. WriteDst(dr)
      BY <1>3, <2>3, Zenon DEF updateDestinationRule
    <3>2. DOMAIN toks = DOMAIN dstDr.toks
      BY <1>0, <2>3, SeenTypes, Zenon DEF FreshViews, DstType
    <3>3. new \in Seq(DstTokenType) /\ Len(new) <= 2
      <4>1. dstDr.toks \in Seq(DstTokenType) /\ Len(dstDr.toks) <= 2
        BY <1>0, Zenon DEF DstType
      <4>2. DOMAIN dstDr.toks = 1 .. Len(dstDr.toks) /\ Len(dstDr.toks) \in Nat
        BY <4>1
      <4>3. \A i \in DOMAIN dstDr.toks : [dstDr.toks[i] EXCEPT !.eff = @ \cup {d}] \in DstTokenType
        <5>1. \A i \in DOMAIN dstDr.toks : dstDr.toks[i] \in DstTokenType
          BY <4>1
        <5>. QED BY <5>1, Zenon DEF DstTokenType
      <4>. QED BY <3>2, <4>1, <4>2, <4>3
    <3>4. dr \in DstType /\ Len(dr.toks) <= 2
      <4>. HIDE DEF new
      <4>. QED BY <1>0, <3>3, Zenon DEF DstType
    <3>. HIDE DEF dr
    <3>. QED BY <1>0, <2>1, <2>2, <3>1, <3>4, TypeDestination, Zenon
  <2>4. CASE ~report
    <3>1. UNCHANGED <<dstDr, fresh>>
      BY <1>3, <2>4, Zenon DEF updateDestinationRule
    <3>. QED BY <2>1, <2>2, <3>1, Zenon DEF TypeInv, TypeOK, FreshViews
  <2>. QED BY <2>3, <2>4, Zenon
<1>4. CASE DestReplyLate
  <2>1. late' \in Nat /\ UNCHANGED <<srcDr, view, use, accepts, gateway, call, now, faults>>
    BY <1>0, <1>4 DEF DestReplyLate, proxies
  <2>2. PICK d \in DstGateways : IF fresh[d]
       THEN WriteDst([dstDr EXCEPT !.rt = NewToken(d)]) /\ made' = made + 1
       ELSE UNCHANGED <<dstDr, fresh, made>>
    BY <1>4, Zenon DEF DestReplyLate
  <2>3. CASE fresh[d]
    <3> DEFINE dr == [dstDr EXCEPT !.rt = NewToken(d)]
    <3>1. NewToken(d) \in TokenType
      BY <2>1, NewTokenType, Zenon
    <3>2. dr \in DstType /\ Len(dr.toks) <= 2 /\ WriteDst(dr) /\ made' \in Nat
      BY <1>0, <2>2, <2>3, <3>1 DEF DstType
    <3>. HIDE DEF dr
    <3>. QED BY <1>0, <2>1, <3>2, TypeDestination, Zenon
  <2>4. CASE ~fresh[d]
    BY <2>1, <2>2, <2>4, Zenon DEF TypeInv, TypeOK, FreshViews
  <2>. QED BY <2>3, <2>4, Zenon
<1>5. ASSUME NEW g \in Gateways, Crash(g) PROVE TypeInv'
  <2>1. /\ gateway' \in [Gateways -> {"up", "down", "dead"}] /\ faults' \in Nat
        /\ UNCHANGED <<srcDr, dstDr, view, fresh, made, now>>
    BY <1>5, FaultType, Zenon DEF Crash, TypeInv, TypeOK
  <2>2. /\ use' \in [SrcGateways -> Nat] /\ accepts' \in [DstGateways -> SUBSET Nat]
        /\ late' \in Nat
    <3>1. use \in [SrcGateways -> Nat]
      BY Zenon DEF TypeInv, TypeOK
    <3>2. CASE g \in SrcGateways
      BY <1>0, <1>5, <3>1, <3>2 DEF Crash
    <3>3. CASE g \notin SrcGateways
      BY <1>0, <1>5, <3>1, <3>3, Zenon DEF Crash
    <3>. QED BY <3>2, <3>3, Zenon
  <2>3. call' \in [SrcGateways -> CallType]
    BY <1>0, <1>5, NoTokenType, Zenon DEF Crash
  <2>. QED BY <2>1, <2>2, <2>3, Zenon DEF TypeInv, TypeOK, CallType, FreshViews
<1>6. ASSUME NEW g \in Gateways, HeartbeatExpires(g) PROVE TypeInv'
  BY <1>6, Zenon DEF HeartbeatExpires, TypeInv, TypeOK, dstVars, FreshViews
<1>7. ASSUME NEW g \in Gateways, Restart(g) PROVE TypeInv'
  <2>1. /\ gateway' \in [Gateways -> {"up", "down", "dead"}]
        /\ UNCHANGED <<srcDr, dstDr, use, accepts, call, late, made, now, faults>>
    BY <1>7, Zenon DEF Restart, TypeInv, TypeOK, proxies
  <2>2. /\ view' \in [DstGateways -> SeenType] /\ fresh' \in [DstGateways -> BOOLEAN]
        /\ FreshViews'
    <3>1. fresh \in [DstGateways -> BOOLEAN]
      BY Zenon DEF TypeInv, TypeOK
    <3>2. CASE g \in DstGateways
      <4>1. view' = [view EXCEPT ![g] = Seen(dstDr)] /\ fresh' = [fresh EXCEPT ![g] = TRUE]
        BY <1>7, <3>2, Zenon DEF Restart
      <4>2. Seen(dstDr)' = Seen(dstDr)
        BY <2>1, Zenon DEF Seen
      <4>. HIDE DEF FreshViews
      <4>3. FreshViews'
        BY <1>0, <3>1, <4>1, <4>2, Zenon DEF FreshViews
      <4>. QED BY <1>0, <1>1, <3>1, <4>1, <4>3, Zenon
    <3>3. CASE g \notin DstGateways
      BY <1>0, <1>7, <2>1, <3>1, <3>3, Zenon DEF Restart, FreshViews
    <3>. QED BY <3>2, <3>3, Zenon
  <2>. QED BY <2>1, <2>2, Zenon DEF TypeInv, TypeOK
<1>8. CASE Tick
  BY <1>0, <1>8 DEF Tick, TypeInv, TypeOK, dstVars, FreshViews
<1>. QED BY <1>2, <1>3, <1>4, <1>5, <1>6, <1>7, <1>8, Zenon DEF DestinationGateway

LEMMA TypeNext == TypeInv /\ [Next]_vars => TypeInv'
<1>. SUFFICES ASSUME TypeInv, [Next]_vars PROVE TypeInv'
  BY Zenon
<1>1. CASE UNCHANGED vars
  BY <1>1, Zenon DEF vars, TypeInv, TypeOK, FreshViews
<1>. QED BY <1>1, TypeController, TypeSourceGateway, TypeOthers, Zenon DEF Next

\* The token lists of both ends hold at most two tokens, a lister that is not
\* behind shows the latest version, and the variables have their types.
THEOREM TypeCorrect == Spec => []TypeInv
BY TypeInit, TypeNext, PTL DEF Spec

-----------------------------------------------------------------------------
(***************************************************************************)
(* A revision names one token.  The invariant looks at every place that    *)
(* holds a token, the handshakes under way included: none has a revision   *)
(* above the destination's, no two have one revision and different tokens, *)
(* and whatever enters a list is a token.  A new token gets the revision   *)
(* above the destination's, because its write is refused unless the lister *)
(* it counted from was fresh.                                              *)
(***************************************************************************)
Names(t, r, k) == t.rev = r /\ t.tok = k
InList(toks, r, k) == \E i \in DOMAIN toks : Names(toks[i], r, k)

Known(r, k) ==
  \/ Names(srcDr.rt, r, k) \/ InList(srcDr.toks, r, k)
  \/ Names(dstDr.rt, r, k) \/ InList(dstDr.toks, r, k)
  \/ \E g \in SrcGateways : Names(call[g].rt, r, k)

RealTokens ==
  /\ \A r \in Nat : ~InList(srcDr.toks, r, 0) /\ ~InList(dstDr.toks, r, 0)
  /\ srcDr.rt.ready => srcDr.rt.tok # 0
  /\ \A g \in SrcGateways : call[g].st = "wait" => call[g].rt.tok # 0

TokenInv ==
  /\ RealTokens
  /\ \A r \in Nat, k \in Nat \ {0} : Known(r, k) => r <= dstDr.rt.rev
  /\ \A r \in Nat, k, l \in Nat \ {0} : Known(r, k) /\ Known(r, l) => k = l

LEMMA TokenInvSuffices == TypeInv /\ TokenInv => RevisionNamesOneToken
<1>. SUFFICES ASSUME TypeInv, TokenInv,
                     NEW i \in DOMAIN srcDr.toks, NEW j \in DOMAIN dstDr.toks,
                     srcDr.toks[i].rev = dstDr.toks[j].rev
              PROVE  srcDr.toks[i].tok = dstDr.toks[j].tok
  BY Zenon DEF RevisionNamesOneToken
<1>1. srcDr.toks \in Seq(TokenType) /\ dstDr.toks \in Seq(DstTokenType)
  BY Zenon DEF TypeInv, TypeOK
<1>2. srcDr.toks[i] \in TokenType /\ dstDr.toks[j] \in DstTokenType
  BY <1>1
<1> DEFINE r == srcDr.toks[i].rev  k == srcDr.toks[i].tok  l == dstDr.toks[j].tok
<1>3. r \in Nat /\ k \in Nat /\ l \in Nat
  BY <1>2, Zenon DEF TokenType, DstTokenType
<1>4. InList(srcDr.toks, r, k) /\ InList(dstDr.toks, r, l)
  BY Zenon DEF InList, Names
<1>. HIDE DEF r, k, l
<1>5. k # 0 /\ l # 0
  BY <1>3, <1>4, Zenon DEF TokenInv, RealTokens
<1>6. Known(r, k) /\ Known(r, l)
  BY <1>4, Zenon DEF Known
<1>7. k = l
  BY <1>3, <1>5, <1>6, Zenon DEF TokenInv
<1>. QED BY <1>7, Zenon DEF k, l

LEMMA TokenInit == Init => TokenInv
<1>. SUFFICES ASSUME Init PROVE TokenInv
  BY Zenon
<1>1. \A r, k : ~InList(srcDr.toks, r, k) /\ ~InList(dstDr.toks, r, k)
  BY DEF Init, EmptyTokenStatus, InList
<1>2. \A r \in Nat, k \in Nat \ {0} : ~Known(r, k)
  BY <1>1, Zenon DEF Init, EmptyTokenStatus, Known, Names, NoToken, Idle
<1>3. RealTokens
  BY <1>1, Zenon DEF Init, EmptyTokenStatus, RealTokens, NoToken, Idle
<1>. QED BY <1>2, <1>3, Zenon DEF TokenInv

\* A step that brings no new pair of revision and token keeps the invariant.
LEMMA NoNewToken ==
  ASSUME TokenInv, RealTokens', dstDr'.rt.rev = dstDr.rt.rev,
         \A r \in Nat, k \in Nat \ {0} : Known(r, k)' => Known(r, k)
  PROVE  TokenInv'
BY Zenon DEF TokenInv

\* So does one that brings a single pair, with the next revision.
LEMMA NextToken ==
  ASSUME TypeInv, TokenInv, RealTokens', dstDr'.rt.rev = dstDr.rt.rev + 1, NEW n \in Nat,
         \A r \in Nat, k \in Nat \ {0} :
           Known(r, k)' => Known(r, k) \/ (r = dstDr.rt.rev + 1 /\ k = n)
  PROVE  TokenInv'
<1>1. dstDr.rt.rev \in Nat
  BY Zenon DEF TypeInv, TypeOK, TokenType
<1>2. \A r \in Nat, k \in Nat \ {0} : Known(r, k) => r <= dstDr.rt.rev
  BY Zenon DEF TokenInv
<1>3. \A r \in Nat, k \in Nat \ {0} : Known(r, k)' => r <= dstDr'.rt.rev
  BY <1>1, <1>2
<1>4. \A r \in Nat, k, l \in Nat \ {0} : Known(r, k)' /\ Known(r, l)' => k = l
  <2>. SUFFICES ASSUME NEW r \in Nat, NEW k \in Nat \ {0}, NEW l \in Nat \ {0},
                       Known(r, k)', Known(r, l)'
                PROVE  k = l
    BY Zenon
  <2>1. CASE r = dstDr.rt.rev + 1
    <3>1. ~Known(r, k) /\ ~Known(r, l)
      BY <1>1, <1>2, <2>1
    <3>. QED BY <3>1, Zenon
  <2>2. CASE r # dstDr.rt.rev + 1
    BY <2>2, Zenon DEF TokenInv
  <2>. QED BY <2>1, <2>2, Zenon
<1>. QED BY <1>3, <1>4, Zenon DEF TokenInv

LEMMA RolledNames ==
  ASSUME NEW S, NEW toks \in Seq(S), NEW t \in S, NEW r, NEW k, InList(Rolled(toks, t), r, k)
  PROVE  InList(toks, r, k) \/ Names(t, r, k)
<1>1. PICK i \in DOMAIN Rolled(toks, t) : Names(Rolled(toks, t)[i], r, k)
  BY Zenon DEF InList
<1>2. Rolled(toks, t)[i] = t \/ \E j \in DOMAIN toks : Rolled(toks, t)[i] = toks[j]
  BY RolledList
<1>. QED BY <1>1, <1>2, Zenon DEF InList

LEMMA TailNames ==
  ASSUME NEW S, NEW toks \in Seq(S), toks # <<>>, NEW r, NEW k, InList(Tail(toks), r, k)
  PROVE  InList(toks, r, k)
<1>1. PICK i \in DOMAIN Tail(toks) : Names(Tail(toks)[i], r, k)
  BY Zenon DEF InList
<1>2. i + 1 \in DOMAIN toks /\ Tail(toks)[i] = toks[i + 1]
  OBVIOUS
<1>. QED BY <1>1, <1>2, Zenon DEF InList

\* The controller, and the writes to the DomainRoute of the source.
LEMMA TokenController ==
  ASSUME TypeInv, TokenInv, Controller
  PROVE  TokenInv'
<1>0. /\ srcDr \in SrcType /\ dstDr \in DstType /\ RealTokens
  BY Zenon DEF TypeInv, TypeOK, SrcType, DstType, TokenInv
<1>1. CASE preRollingSourceDomainRoute
  <2>1. PICK i \in selectInitializer :
          WriteSrc([srcDr EXCEPT !.initializer = i,
                         !.rt = [NoToken EXCEPT !.rev = srcDr.rt.rev, !.at = now]])
    BY <1>1, Zenon DEF preRollingSourceDomainRoute
  <2>2. /\ srcDr'.toks = srcDr.toks /\ srcDr'.rt.tok = 0 /\ srcDr'.rt.ready = FALSE
        /\ UNCHANGED <<dstDr, call>>
    BY <1>0, <1>1, <2>1, Zenon DEF preRollingSourceDomainRoute, WriteSrc, SrcType, NoToken, dstVars
  <2>3. \A r \in Nat, k \in Nat \ {0} : Known(r, k)' => Known(r, k)
    BY <2>2, Zenon DEF Known, Names
  <2>4. RealTokens'
    BY <1>0, <2>2, Zenon DEF RealTokens
  <2>. QED BY <2>2, <2>3, <2>4, NoNewToken, Zenon
<1>2. CASE ensureInitializer
  <2>1. srcDr'.toks = srcDr.toks /\ srcDr'.rt = srcDr.rt /\ UNCHANGED <<dstDr, call>>
    BY <1>0, <1>2, Zenon DEF ensureInitializer, WriteSrc, SrcType, dstVars
  <2>2. \A r \in Nat, k \in Nat \ {0} : Known(r, k)' => Known(r, k)
    BY <2>1, Zenon DEF Known
  <2>3. RealTokens'
    BY <1>0, <2>1, Zenon DEF RealTokens
  <2>. QED BY <2>1, <2>2, <2>3, NoNewToken, Zenon
<1>3. CASE postRollingSourceDomainRoute
  <2>1. /\ srcDr'.toks = Rolled(srcDr.toks, srcDr.rt) /\ srcDr'.rt = srcDr.rt /\ srcDr.rt.ready
        /\ UNCHANGED <<dstDr, call>>
    BY <1>0, <1>3, Zenon DEF postRollingSourceDomainRoute, WriteSrc, SrcType, dstVars
  <2>2. \A r, k : InList(srcDr.toks, r, k)' => InList(srcDr.toks, r, k) \/ Names(srcDr.rt, r, k)
    <3>1. srcDr.toks \in Seq(TokenType) /\ srcDr.rt \in TokenType
      BY <1>0, Zenon DEF SrcType
    <3>2. \A r, k : InList(srcDr.toks, r, k)' => InList(Rolled(srcDr.toks, srcDr.rt), r, k)
      BY <2>1, Zenon DEF InList
    <3>. QED BY <3>1, <3>2, RolledNames, Zenon
  <2>3. \A r \in Nat, k \in Nat \ {0} : Known(r, k)' => Known(r, k)
    BY <2>1, <2>2, Zenon DEF Known
  <2>4. RealTokens'
    BY <1>0, <2>1, <2>2, Zenon DEF RealTokens, Names
  <2>. QED BY <2>1, <2>3, <2>4, NoNewToken, Zenon
<1>4. CASE dropExpiredToken
  <2>1. /\ dstDr'.toks = Tail(dstDr.toks) /\ dstDr'.rt = dstDr.rt /\ dstDr.toks # <<>>
        /\ UNCHANGED <<srcDr, call>>
    BY <1>0, <1>4, Zenon DEF dropExpiredToken, WriteDst, DstType
  <2>2. \A r, k : InList(dstDr.toks, r, k)' => InList(dstDr.toks, r, k)
    <3>1. dstDr.toks \in Seq(DstTokenType)
      BY <1>0, Zenon DEF DstType
    <3>2. \A r, k : InList(dstDr.toks, r, k)' => InList(Tail(dstDr.toks), r, k)
      BY <2>1, Zenon DEF InList
    <3>. QED BY <2>1, <3>1, <3>2, TailNames, Zenon
  <2>3. \A r \in Nat, k \in Nat \ {0} : Known(r, k)' => Known(r, k)
    BY <2>1, <2>2, Zenon DEF Known
  <2>4. RealTokens'
    BY <1>0, <2>1, <2>2, Zenon DEF RealTokens
  <2>. QED BY <2>1, <2>3, <2>4, NoNewToken, Zenon
<1>5. CASE postRollingDestinationDomainRoute /\ NeedsAppend
  <2> DEFINE t == [rev |-> dstDr.rt.rev, tok |-> dstDr.rt.tok, ready |-> dstDr.rt.ready,
                   exp |-> dstDr.rt.exp, eff |-> {}]
  <2>1. /\ dstDr'.toks = Rolled(dstDr.toks, t) /\ dstDr'.rt = dstDr.rt /\ dstDr.rt.tok # 0
        /\ UNCHANGED <<srcDr, call>>
    BY <1>0, <1>5, Zenon DEF postRollingDestinationDomainRoute, WriteDst, DstType, NeedsAppend
  <2>2. \A r, k : InList(dstDr.toks, r, k)' => InList(dstDr.toks, r, k) \/ Names(dstDr.rt, r, k)
    <3>1. dstDr.toks \in Seq(DstTokenType) /\ t \in DstTokenType
      BY <1>0, Zenon DEF DstType, DstTokenType, TokenType
    <3>2. \A r, k : Names(t, r, k) => Names(dstDr.rt, r, k)
      BY Zenon DEF Names
    <3>3. \A r, k : InList(dstDr.toks, r, k)' => InList(Rolled(dstDr.toks, t), r, k)
      BY <2>1, Zenon DEF InList
    <3>. HIDE DEF t
    <3>. QED BY <3>1, <3>2, <3>3, RolledNames, Zenon
  <2>3. \A r \in Nat, k \in Nat \ {0} : Known(r, k)' => Known(r, k)
    BY <2>1, <2>2, Zenon DEF Known
  <2>4. RealTokens'
    BY <1>0, <2>1, <2>2, Zenon DEF RealTokens, Names
  <2>. QED BY <2>1, <2>3, <2>4, NoNewToken, Zenon
<1>6. CASE postRollingDestinationDomainRoute /\ ~NeedsAppend
  <2> DEFINE n == Len(dstDr.toks)
  <2>1. /\ dstDr' = [dstDr EXCEPT !.rt.ready = TRUE, !.toks[n].ready = TRUE]
        /\ UNCHANGED <<srcDr, call>>
    BY <1>6, Zenon DEF postRollingDestinationDomainRoute, WriteDst
  <2>2. /\ dstDr'.rt.rev = dstDr.rt.rev /\ dstDr'.rt.tok = dstDr.rt.tok
        /\ dstDr'.toks = [dstDr.toks EXCEPT ![n].ready = TRUE]
    BY <1>0, <2>1, Zenon DEF DstType, TokenType
  <2>3. \A r, k : InList(dstDr.toks, r, k)' => InList(dstDr.toks, r, k)
    <3>1. \A i \in DOMAIN dstDr.toks : dstDr.toks[i] \in DstTokenType
      BY <1>0 DEF DstType
    <3>2. \A i \in DOMAIN dstDr.toks : /\ dstDr'.toks[i].rev = dstDr.toks[i].rev
                                       /\ dstDr'.toks[i].tok = dstDr.toks[i].tok
      BY <2>2, <3>1 DEF DstTokenType
    <3>3. DOMAIN dstDr'.toks = DOMAIN dstDr.toks
      BY <2>2, Zenon
    <3>. QED BY <3>2, <3>3, Zenon DEF InList, Names
  <2>4. \A r \in Nat, k \in Nat \ {0} : Known(r, k)' => Known(r, k)
    BY <2>1, <2>2, <2>3, Zenon DEF Known, Names
  <2>5. RealTokens'
    BY <1>0, <2>1, <2>3, Zenon DEF RealTokens
  <2>. QED BY <2>2, <2>4, <2>5, NoNewToken, Zenon
<1>. QED BY <1>1, <1>2, <1>3, <1>4, <1>5, <1>6, Zenon DEF Controller

\* A step that leaves both DomainRoutes and at most ends or starts a call.
LEMMA TokenCalls ==
  ASSUME TokenInv, UNCHANGED <<srcDr, dstDr>>,
         \A h \in SrcGateways : call'[h] = call[h]
                                  \/ (call'[h].rt = NoToken /\ call'[h].st # "wait")
  PROVE  TokenInv'
<1>1. \A r \in Nat, k \in Nat \ {0} : Known(r, k)' => Known(r, k)
  BY DEF Known, Names, NoToken
<1>2. RealTokens'
  BY Zenon DEF TokenInv, RealTokens
<1>. QED BY <1>1, <1>2, NoNewToken, Zenon

\* A destination gateway with a fresh lister writes the token it generates.
LEMMA TokenGenerated ==
  ASSUME TypeInv, TokenInv, NEW d \in DstGateways, fresh[d], UNCHANGED srcDr,
         WriteDst([dstDr EXCEPT !.rt = NewToken(d)]),
         \A h \in SrcGateways : call'[h] = call[h] \/ call'[h].rt = NewToken(d)
  PROVE  TokenInv'
<1>0. dstDr \in DstType /\ view[d] = Seen(dstDr) /\ RealTokens /\ made \in Nat
  BY Zenon DEF TypeInv, TypeOK, DstType, FreshViews, TokenInv
<1>1. Seen(dstDr).rev = dstDr.rt.rev
  BY <1>0, SeenTypes, Zenon DEF DstType
<1>2. NewToken(d).rev = dstDr.rt.rev + 1 /\ NewToken(d).tok = made + 1
  BY <1>0, <1>1, Zenon DEF NewToken
<1>3. dstDr'.rt = NewToken(d) /\ dstDr'.toks = dstDr.toks
  BY <1>0, Zenon DEF WriteDst, DstType
<1>4. RealTokens'
  BY <1>0, <1>2, <1>3 DEF RealTokens
<1>5. \A r \in Nat, k \in Nat \ {0} :
        Known(r, k)' => Known(r, k) \/ (r = dstDr.rt.rev + 1 /\ k = made + 1)
  BY <1>2, <1>3, Zenon DEF Known, Names
<1>6. made + 1 \in Nat
  BY <1>0
<1>. QED BY <1>2, <1>3, <1>4, <1>5, <1>6, NextToken, Zenon

LEMMA TokenSourceGateway ==
  ASSUME TypeInv, TokenInv, NEW g \in SrcGateways, SourceGateway(g)
  PROVE  TokenInv'
<1>0. /\ srcDr \in SrcType /\ dstDr \in DstType /\ RealTokens
      /\ call \in [SrcGateways -> CallType]
  BY Zenon DEF TypeInv, TypeOK, SrcType, DstType, CallType, TokenInv
<1>1. CASE sourceInitiateHandShake(g)
  <2>1. PICK d \in DstGateways :
          call' = [call EXCEPT ![g] = [Idle EXCEPT !.st = "sent", !.to = d]]
    BY <1>1, Zenon DEF sourceInitiateHandShake
  <2>2. UNCHANGED <<srcDr, dstDr>>
    BY <1>1, Zenon DEF sourceInitiateHandShake, dstVars
  <2>. QED BY <1>0, <2>1, <2>2, TokenCalls, Zenon DEF Idle
<1>2. CASE updateSourceRule(g)
  BY <1>2, TokenCalls, Zenon DEF updateSourceRule, dstVars
<1>3. CASE waitTokenReady(g)
  <2>1. call[g].st = "wait" /\ call' = [call EXCEPT ![g] = Idle] /\ UNCHANGED dstDr
    BY <1>3, Zenon DEF waitTokenReady, dstVars
  <2>2. CASE UNCHANGED srcDr
    BY <1>0, <2>1, <2>2, TokenCalls, Zenon DEF Idle
  <2>3. CASE UpdateDomainRouteRevisionToken(call[g].rt)
    <3>1. /\ srcDr'.toks = srcDr.toks
          /\ srcDr'.rt.rev = call[g].rt.rev /\ srcDr'.rt.tok = call[g].rt.tok
      BY <1>0, <2>3, Zenon DEF UpdateDomainRouteRevisionToken, SrcType, CallType, TokenType
    <3>2. \A r \in Nat, k \in Nat \ {0} : Known(r, k)' => Known(r, k)
      BY <1>0, <2>1, <3>1, Zenon DEF Known, Names, Idle, NoToken
    <3>3. RealTokens'
      BY <1>0, <2>1, <3>1, Zenon DEF RealTokens, Idle
    <3>. QED BY <2>1, <3>2, <3>3, NoNewToken, Zenon
  <2>. QED BY <1>3, <2>2, <2>3, Zenon DEF waitTokenReady
<1>4. CASE CallFails(g) \/ GivesUp(g) \/ CallTimesOut(g)
  <2>1. call' = [call EXCEPT ![g] = Idle] /\ UNCHANGED <<srcDr, dstDr>>
    BY <1>4, Zenon DEF CallFails, GivesUp, CallTimesOut, dstVars
  <2>. QED BY <1>0, <2>1, TokenCalls, Zenon DEF Idle
<1>5. CASE checkConnectionStatus(g)
  <2>1. UNCHANGED call
    BY <1>5, Zenon DEF checkConnectionStatus
  <2>2. CASE UNCHANGED <<srcDr, dstDr>>
    BY <2>1, <2>2, TokenCalls, Zenon
  <2>3. CASE srcDr' = EmptyTokenStatus /\ UNCHANGED dstDr
    <3>1. \A r, k : ~InList(srcDr.toks, r, k)'
      BY <2>3 DEF InList, EmptyTokenStatus
    <3>2. \A r \in Nat, k \in Nat \ {0} : Known(r, k)' => Known(r, k)
      BY <2>1, <2>3, <3>1, Zenon DEF Known, Names, EmptyTokenStatus, NoToken
    <3>3. RealTokens'
      BY <1>0, <2>1, <2>3, <3>1, Zenon DEF RealTokens, EmptyTokenStatus, NoToken
    <3>. QED BY <2>3, <3>2, <3>3, NoNewToken, Zenon
  <2>. QED BY <1>5, <2>2, <2>3, Zenon DEF checkConnectionStatus, WriteDst
<1>6. CASE DestReplyHandshake(g)
  <2> DEFINE d == call[g].to
  <2>1. d \in DstGateways /\ UNCHANGED srcDr
    BY <1>0, <1>6, GatewaysAssumption, Zenon DEF DestReplyHandshake, CallType, Up, Gateways, NoGateway
  <2>2. CASE fresh[d]
    <3>1. /\ WriteDst([dstDr EXCEPT !.rt = NewToken(d)])
          /\ call' = [call EXCEPT ![g] = [@ EXCEPT !.st = "wait", !.rt = NewToken(d)]]
      BY <1>6, <2>2, Zenon DEF DestReplyHandshake
    <3>2. \A h \in SrcGateways : call'[h] = call[h] \/ call'[h].rt = NewToken(d)
      BY <1>0, <3>1, Zenon DEF CallType
    <3>. HIDE DEF d
    <3>. QED BY <2>1, <2>2, <3>1, <3>2, TokenGenerated, Zenon
  <2>3. CASE ~fresh[d]
    <3>1. call' = [call EXCEPT ![g] = Idle] /\ UNCHANGED dstDr
      BY <1>6, <2>3, Zenon DEF DestReplyHandshake
    <3>. QED BY <1>0, <2>1, <3>1, TokenCalls, Zenon DEF Idle
  <2>. QED BY <2>2, <2>3, Zenon
<1>. QED BY <1>1, <1>2, <1>3, <1>4, <1>5, <1>6, Zenon DEF SourceGateway

LEMMA TokenOthers ==
  ASSUME TypeInv, TokenInv,
         \/ \E d \in DstGateways : DestinationGateway(d)
         \/ DestReplyLate
         \/ \E g \in Gateways : Crash(g) \/ HeartbeatExpires(g) \/ Restart(g)
         \/ Tick
  PROVE  TokenInv'
<1>0. dstDr \in DstType /\ RealTokens /\ FreshViews /\ call \in [SrcGateways -> CallType]
  BY Zenon DEF TypeInv, TypeOK, DstType, CallType, TokenInv
<1>1. ASSUME NEW d \in DstGateways, WatchDestination(d) PROVE TokenInv'
  BY <1>1, TokenCalls, Zenon DEF WatchDestination
<1>2. ASSUME NEW d \in DstGateways, updateDestinationRule(d) PROVE TokenInv'
  <2> DEFINE toks == view[d].toks
             report == fresh[d] /\ \E i \in DOMAIN toks : d \notin dstDr.toks[i].eff
             new == [i \in DOMAIN toks |-> [dstDr.toks[i] EXCEPT !.eff = @ \cup {d}]]
  <2>1. UNCHANGED <<srcDr, call>>
    BY <1>2, Zenon DEF updateDestinationRule
  <2>2. CASE report
    <3>1. dstDr'.toks = new /\ dstDr'.rt = dstDr.rt
      BY <1>0, <1>2, <2>2, Zenon DEF updateDestinationRule, WriteDst, DstType
    <3>2. DOMAIN toks = DOMAIN dstDr.toks
      BY <1>0, <2>2, SeenTypes, Zenon DEF FreshViews, DstType
    <3>3. \A i \in DOMAIN dstDr.toks : dstDr.toks[i] \in DstTokenType
      BY <1>0 DEF DstType
    <3>4. \A i \in DOMAIN dstDr.toks : /\ dstDr'.toks[i].rev = dstDr.toks[i].rev
                                       /\ dstDr'.toks[i].tok = dstDr.toks[i].tok
      BY <3>1, <3>2, <3>3, ZenonT(30) DEF DstTokenType
    <3>5. \A r, k : InList(dstDr.toks, r, k)' => InList(dstDr.toks, r, k)
      <4>1. DOMAIN dstDr'.toks = DOMAIN dstDr.toks
        BY <3>1, <3>2, Zenon
      <4>. QED BY <3>4, <4>1, Zenon DEF InList, Names
    <3>6. \A r \in Nat, k \in Nat \ {0} : Known(r, k)' => Known(r, k)
      BY <2>1, <3>1, <3>5, Zenon DEF Known
    <3>7. RealTokens'
      BY <1>0, <2>1, <3>5, Zenon DEF RealTokens
    <3>. QED BY <3>1, <3>6, <3>7, NoNewToken, Zenon
  <2>3. CASE ~report
    BY <1>2, <2>1, <2>3, TokenCalls, Zenon DEF updateDestinationRule
  <2>. QED BY <2>2, <2>3, Zenon
<1>3. CASE DestReplyLate
  <2>1. PICK d \in DstGateways : IF fresh[d]
       THEN WriteDst([dstDr EXCEPT !.rt = NewToken(d)]) /\ made' = made + 1
       ELSE UNCHANGED <<dstDr, fresh, made>>
    BY <1>3, Zenon DEF DestReplyLate
  <2>2. UNCHANGED <<srcDr, call>>
    BY <1>3, Zenon DEF DestReplyLate
  <2>3. CASE fresh[d]
    BY <2>1, <2>2, <2>3, TokenGenerated, Zenon
  <2>4. CASE ~fresh[d]
    BY <2>1, <2>2, <2>4, TokenCalls, Zenon
  <2>. QED BY <2>3, <2>4, Zenon
<1>4. ASSUME NEW g \in Gateways, Crash(g) PROVE TokenInv'
  <2>1. UNCHANGED <<srcDr, dstDr>> /\ (call' = [call EXCEPT ![g] = Idle] \/ call' = call)
    BY <1>4, Zenon DEF Crash
  <2>. QED BY <1>0, <2>1, TokenCalls DEF Idle
<1>5. ASSUME NEW g \in Gateways, HeartbeatExpires(g) \/ Restart(g) PROVE TokenInv'
  BY <1>5, TokenCalls, Zenon DEF HeartbeatExpires, Restart, dstVars
<1>6. CASE Tick
  BY <1>6, TokenCalls, Zenon DEF Tick, dstVars
<1>. QED BY <1>1, <1>2, <1>3, <1>4, <1>5, <1>6, Zenon DEF DestinationGateway

LEMMA TokenNext == TypeInv /\ TokenInv /\ [Next]_vars => TokenInv'
<1>. SUFFICES ASSUME TypeInv, TokenInv, [Next]_vars PROVE TokenInv'
  BY Zenon
<1>1. CASE UNCHANGED vars
  BY <1>1, TokenCalls, Zenon DEF vars
<1>. QED BY <1>1, TokenController, TokenSourceGateway, TokenOthers, Zenon DEF Next

\* Whatever handshakes are lost, repeated, late or answered by gateways that
\* lag, and however many gateways crash: where the lists of source and
\* destination hold one revision they hold one token.
THEOREM OneTokenPerRevision == Spec => []RevisionNamesOneToken
<1>1. Spec => [](TypeInv /\ TokenInv)
  BY TypeInit, TypeNext, TokenInit, TokenNext, PTL DEF Spec
<1>. QED BY <1>1, TokenInvSuffices, PTL

(***************************************************************************)
(* Rolling is seamless.  Without a fault there is one handshake at a time, *)
(* a token is older than the next one, and the destination is ready with   *)
(* the token the source gets; so what the destination's list drops has     *)
(* expired.                                                                *)
(***************************************************************************)
Same(x, y) == x.rev = y.rev /\ x.tok = y.tok /\ x.exp = y.exp
Older(x, y) == x.rev < y.rev /\ x.exp < y.exp

\* Every gateway of the destination has the token, unless it has expired.
Served(t) ==
  Expired(t) \/ \E j \in DOMAIN dstDr.toks :
                  Same(dstDr.toks[j], t) /\ DstGateways \subseteq dstDr.toks[j].eff

Quiet == late = 0 /\ \A g \in Gateways : gateway[g] = "up"

\* Only the initializer calls, and only while the source has no token.
OneCall ==
  /\ srcDr.rt.at = Zero => srcDr.initializer = NoGateway /\ srcDr.rt.tok = 0
  /\ \A g \in SrcGateways : call[g].st # "idle" =>
       srcDr.initializer = g /\ srcDr.rt.tok = 0 /\ call[g].to \in DstGateways

\* The source waits for, and then has, the destination's token; it asks for the
\* next one in a later period.
InStep ==
  /\ \A g \in SrcGateways :
       call[g].st = "wait" => Same(call[g].rt, dstDr.rt) /\ call[g].rt.at = dstDr.rt.at
  /\ srcDr.rt.tok # 0 =>
       Same(srcDr.rt, dstDr.rt) /\ dstDr.rt.ready /\ srcDr.rt.at >= dstDr.rt.at
  /\ srcDr.rt.tok = 0 /\ (\A g \in SrcGateways : call[g].st # "wait") =>
       dstDr.rt.tok = 0 \/ dstDr.rt.at < now

Ordered ==
  /\ dstDr.rt.tok = 0 => dstDr.toks = <<>> /\ ~dstDr.rt.ready
  /\ dstDr.rt.tok # 0 => dstDr.rt.exp = dstDr.rt.at + 1 /\ dstDr.rt.at <= now /\ dstDr.rt.rev > 0
  /\ \A j \in DOMAIN dstDr.toks : Same(dstDr.toks[j], dstDr.rt) \/ Older(dstDr.toks[j], dstDr.rt)
  /\ \A i, j \in DOMAIN dstDr.toks : i < j => Older(dstDr.toks[i], dstDr.toks[j])

\* No lister is ahead; a gateway that has reported a token still accepts it, and will when
\* it reads its lister again.
Views ==
  \A d \in DstGateways :
    /\ view[d].rev <= dstDr.rt.rev
    /\ view[d].rev = dstDr.rt.rev /\ view[d].ready => dstDr.rt.ready
    /\ \A j \in DOMAIN dstDr.toks : d \in dstDr.toks[j].eff =>
         dstDr.toks[j].tok \in TokensOf(view[d].toks) /\ dstDr.toks[j].tok \in accepts[d]

AllServed ==
  /\ dstDr.rt.ready => Served(dstDr.rt)
  /\ \A i \in DOMAIN srcDr.toks : Served(srcDr.toks[i])

Calm == Quiet /\ OneCall /\ InStep /\ Ordered /\ Views /\ AllServed
CalmInv == faults = 0 => Calm

LEMMA NoFault ==
  ASSUME TypeInv, faults' = 0
  PROVE  ~Fault /\ \A c \in BOOLEAN : Charge(c) => ~c
<1>1. faults \in Nat BY Zenon DEF TypeInv, TypeOK
<1>2. ~Fault BY <1>1 DEF Fault
<1>. QED BY <1>2, Zenon DEF Charge

LEMMA CalmTypes ==
  ASSUME TypeInv
  PROVE  /\ srcDr \in SrcType /\ dstDr \in DstType /\ call \in [SrcGateways -> CallType]
         /\ now \in Nat /\ made \in Nat /\ Len(dstDr.toks) <= 2 /\ faults \in Nat
         /\ dstDr.rt \in TokenType /\ dstDr.rt.at \in Int /\ dstDr.rt.exp \in Int
         /\ dstDr.rt.rev \in Nat /\ dstDr.rt.tok \in Nat
         /\ srcDr.rt \in TokenType /\ srcDr.rt.at \in Int /\ srcDr.rt.exp \in Int
         /\ srcDr.rt.rev \in Nat /\ srcDr.rt.tok \in Nat
         /\ srcDr.toks \in Seq(TokenType) /\ dstDr.toks \in Seq(DstTokenType)
         /\ \A j \in DOMAIN dstDr.toks :
              dstDr.toks[j] \in DstTokenType /\ dstDr.toks[j].rev \in Nat /\ dstDr.toks[j].exp \in Int
         /\ \A j \in DOMAIN srcDr.toks : srcDr.toks[j].exp \in Int
         /\ \A d \in DstGateways : view[d].rev \in Nat
<1>1. /\ srcDr \in SrcType /\ dstDr \in DstType /\ call \in [SrcGateways -> CallType]
      /\ now \in Nat /\ made \in Nat /\ Len(dstDr.toks) <= 2 /\ faults \in Nat
      /\ view \in [DstGateways -> SeenType]
  BY Zenon DEF TypeInv, TypeOK, SrcType, DstType, CallType
<1>2. dstDr.rt \in TokenType /\ srcDr.rt \in TokenType
      /\ srcDr.toks \in Seq(TokenType) /\ dstDr.toks \in Seq(DstTokenType)
  BY <1>1, Zenon DEF SrcType, DstType
<1>3. \A t \in Time : t \in Int BY DEF Time, Zero
<1>4. \A t \in TokenType : t.rev \in Nat /\ t.tok \in Nat /\ t.at \in Int /\ t.exp \in Int
  BY <1>3, Zenon DEF TokenType
<1>5. \A t \in DstTokenType : t.rev \in Nat /\ t.exp \in Int BY <1>3, Zenon DEF DstTokenType
<1>6. /\ \A j \in DOMAIN dstDr.toks : dstDr.toks[j] \in DstTokenType
      /\ \A j \in DOMAIN srcDr.toks : srcDr.toks[j] \in TokenType
  BY <1>2
<1>7. \A d \in DstGateways : view[d].rev \in Nat BY <1>1, Zenon DEF SeenType
<1>. QED BY <1>1, <1>2, <1>4, <1>5, <1>6, <1>7, Zenon

\* A token stays served when the list only drops what has expired.
DstKeeps ==
  \A j \in DOMAIN dstDr.toks :
    \/ now > dstDr.toks[j].exp
    \/ \E k \in DOMAIN dstDr'.toks : /\ Same(dstDr'.toks[k], dstDr.toks[j])
                                     /\ dstDr.toks[j].eff \subseteq dstDr'.toks[k].eff
ServedNext(t) ==
  now' > t.exp \/ \E k \in DOMAIN dstDr'.toks :
                    Same(dstDr'.toks[k], t) /\ DstGateways \subseteq dstDr'.toks[k].eff

LEMMA ServedMoves == ASSUME NEW t, Served(t), DstKeeps, now' = now PROVE ServedNext(t)
<1>1. CASE Expired(t) BY <1>1, Zenon DEF Expired, ServedNext
<1>2. ASSUME NEW j \in DOMAIN dstDr.toks, Same(dstDr.toks[j], t), DstGateways \subseteq dstDr.toks[j].eff
      PROVE  ServedNext(t)
  BY <1>2, Zenon DEF DstKeeps, Same, ServedNext
<1>. QED BY <1>1, <1>2, Zenon DEF Served

LEMMA ServedList ==
  ASSUME AllServed, DstKeeps, now' = now,
         srcDr'.toks = srcDr.toks,
         dstDr'.rt.ready => dstDr.rt.ready /\ Same(dstDr'.rt, dstDr.rt)
  PROVE  AllServed'
<1>1. \A i \in DOMAIN srcDr'.toks : ServedNext(srcDr'.toks[i])
  BY ServedMoves, Zenon DEF AllServed
<1>2. dstDr'.rt.ready => ServedNext(dstDr'.rt)
  <2>1. SUFFICES ASSUME dstDr'.rt.ready PROVE ServedNext(dstDr'.rt) BY Zenon
  <2>2. ServedNext(dstDr.rt) BY <2>1, ServedMoves, Zenon DEF AllServed
  <2>. QED BY <2>1, <2>2, Zenon DEF ServedNext, Same
<1>. QED BY <1>1, <1>2, Zenon DEF AllServed, Served, ServedNext, Expired

\* A step of the source leaves the destination as it is.
LEMMA SourceSteps ==
  ASSUME Calm, UNCHANGED <<dstVars, gateway, late, now>>, OneCall', InStep',
         \A i \in DOMAIN srcDr'.toks : Served(srcDr'.toks[i])
  PROVE  Calm'
<1>1. UNCHANGED <<dstDr, view, accepts, gateway, late, now>> BY Zenon DEF dstVars
<1>2. Quiet' /\ Ordered' /\ Views'
  BY <1>1, Zenon DEF Calm, Quiet, Ordered, Views
<1>3. AllServed' BY <1>1, Zenon DEF Calm, AllServed, Served, Expired
<1>. QED BY <1>2, <1>3, Zenon DEF Calm

\* Without a call there is no answer to wait for, and the source asks again in a later period.
LEMMA CalmController ==
  ASSUME TypeInv, TokenInv, Calm, faults' = 0,
         preRollingSourceDomainRoute \/ ensureInitializer \/ postRollingSourceDomainRoute
  PROVE  Calm'
<1>0. /\ Quiet /\ OneCall /\ InStep /\ Ordered /\ Views /\ AllServed
      /\ (srcDr.rt.ready => srcDr.rt.tok # 0) /\ srcDr \in SrcType
  BY CalmTypes, Zenon DEF Calm, TokenInv, RealTokens
<1>1. CASE preRollingSourceDomainRoute
  <2>1. PICK slow \in BOOLEAN, i \in selectInitializer :
          /\ needRollingToNext(slow) /\ Charge(slow)
          /\ WriteSrc([srcDr EXCEPT !.initializer = i,
                         !.rt = [NoToken EXCEPT !.rev = srcDr.rt.rev, !.at = now]])
          /\ UNCHANGED call
    BY <1>1, Zenon DEF preRollingSourceDomainRoute
  <2>2. ~slow BY <2>1, NoFault, Zenon
  <2>3. /\ srcDr'.toks = srcDr.toks /\ srcDr'.rt.tok = 0 /\ srcDr'.rt.at = now
        /\ UNCHANGED <<dstVars, dstDr, gateway, late, now, call>>
    BY <1>0, <2>1, Zenon DEF WriteSrc, SrcType, NoToken, dstVars
  <2>4. /\ \A g \in SrcGateways : call[g].st = "idle"
        /\ dstDr.rt.tok = 0 \/ dstDr.rt.at < now
    <3>1. CASE srcDr.rt.ready
      <4>1. srcDr.rt.tok # 0 BY <1>0, <3>1, Zenon
      <4>2. now > srcDr.rt.at \/ Expired(srcDr.rt)
        BY <2>1, <2>2, <3>1, Zenon DEF needRollingToNext
      <4>3. /\ Same(srcDr.rt, dstDr.rt) /\ srcDr.rt.at >= dstDr.rt.at
            /\ (dstDr.rt.tok # 0 => dstDr.rt.exp = dstDr.rt.at + 1)
        BY <1>0, <4>1, Zenon DEF InStep, Ordered
      <4>4. dstDr.rt.tok = 0 \/ dstDr.rt.at < now
        BY <4>2, <4>3, CalmTypes, SMTT(20) DEF Same, Expired
      <4>5. \A g \in SrcGateways : call[g].st = "idle" BY <1>0, <4>1, Zenon DEF OneCall
      <4>. QED BY <4>4, <4>5, Zenon
    <3>2. CASE ~srcDr.rt.ready
      <4>1. srcDr.rt.at = Zero BY <2>1, <2>2, <3>2, Zenon DEF needRollingToNext
      <4>2. srcDr.initializer \notin SrcGateways /\ srcDr.rt.tok = 0
        BY <1>0, <4>1, GatewaysAssumption, Zenon DEF OneCall, NoGateway
      <4>3. \A g \in SrcGateways : call[g].st = "idle" BY <1>0, <4>2, Zenon DEF OneCall
      <4>. QED BY <1>0, <4>2, <4>3, Zenon DEF InStep
    <3>. QED BY <3>1, <3>2, Zenon
  <2>5. now # Zero BY CalmTypes DEF Zero
  <2>6. OneCall' BY <2>3, <2>4, <2>5, Zenon DEF OneCall
  <2>7. InStep' BY <2>3, <2>4, Zenon DEF InStep
  <2>8. \A i_1 \in DOMAIN srcDr'.toks : Served(srcDr'.toks[i_1]) BY <1>0, <2>3, Zenon DEF AllServed
  <2>. QED BY <2>3, <2>6, <2>7, <2>8, SourceSteps, Zenon
<1>2. CASE ensureInitializer
  <2>1. /\ srcDr'.toks = srcDr.toks /\ srcDr'.rt = srcDr.rt /\ srcDr.initializer \notin Live
        /\ UNCHANGED <<dstVars, dstDr, gateway, late, now, call>> /\ ~needRollingToNext(FALSE)
    BY <1>0, <1>2, Zenon DEF ensureInitializer, WriteSrc, SrcType, dstVars
  <2>2. srcDr.initializer \notin SrcGateways
    BY <1>0, <2>1, Zenon DEF Live, Quiet, Gateways
  <2>3. \A g \in SrcGateways : call[g].st = "idle" BY <1>0, <2>2, Zenon DEF OneCall
  <2>4. srcDr.rt.at # Zero
    BY <1>0, <2>1, Zenon DEF needRollingToNext, OneCall
  <2>5. OneCall' BY <2>1, <2>3, <2>4, Zenon DEF OneCall
  <2>6. InStep' BY <1>0, <2>1, Zenon DEF InStep
  <2>7. \A i \in DOMAIN srcDr'.toks : Served(srcDr'.toks[i]) BY <1>0, <2>1, Zenon DEF AllServed
  <2>. QED BY <2>1, <2>5, <2>6, <2>7, SourceSteps, Zenon
<1>3. CASE postRollingSourceDomainRoute
  <2>1. /\ srcDr'.toks = Rolled(srcDr.toks, srcDr.rt) /\ srcDr'.rt = srcDr.rt /\ srcDr.rt.ready
        /\ srcDr'.initializer = srcDr.initializer
        /\ UNCHANGED <<dstVars, dstDr, gateway, late, now, call>>
    BY <1>0, <1>3, Zenon DEF postRollingSourceDomainRoute, WriteSrc, SrcType, dstVars
  <2>2. Served(srcDr.rt)
    <3>1. Same(srcDr.rt, dstDr.rt) /\ Served(dstDr.rt) BY <1>0, <2>1, Zenon DEF InStep, AllServed
    <3>. QED BY <3>1, Zenon DEF Served, Same, Expired
  <2>3. ASSUME NEW i \in DOMAIN srcDr'.toks PROVE Served(srcDr'.toks[i])
    <3>1. srcDr'.toks[i] = srcDr.rt \/ \E j \in DOMAIN srcDr.toks : srcDr'.toks[i] = srcDr.toks[j]
      <4>1. srcDr.toks \in Seq(TokenType) /\ srcDr.rt \in TokenType BY CalmTypes, Zenon
      <4>2. \A k \in DOMAIN Rolled(srcDr.toks, srcDr.rt) :
              Rolled(srcDr.toks, srcDr.rt)[k] = srcDr.rt
                \/ \E j \in DOMAIN srcDr.toks : Rolled(srcDr.toks, srcDr.rt)[k] = srcDr.toks[j]
        BY <4>1, RolledList
      <4>. QED BY <2>1, <2>3, <4>2, Zenon
    <3>. QED BY <1>0, <2>2, <3>1, Zenon DEF AllServed
  <2>4. OneCall' /\ InStep' BY <1>0, <2>1, Zenon DEF OneCall, InStep
  <2>. QED BY <2>1, <2>3, <2>4, SourceSteps, Zenon
<1>. QED BY <1>1, <1>2, <1>3, Zenon

LEMMA CalmSourceGateway ==
  ASSUME TypeInv, TokenInv, Calm, faults' = 0, NEW g \in SrcGateways,
         \/ sourceInitiateHandShake(g) \/ updateSourceRule(g) \/ waitTokenReady(g)
         \/ CallFails(g) \/ GivesUp(g) \/ CallTimesOut(g) \/ checkConnectionStatus(g)
  PROVE  Calm'
<1>0. /\ Quiet /\ OneCall /\ InStep /\ Ordered /\ Views /\ AllServed
      /\ (\A h \in SrcGateways : call[h].st = "wait" => call[h].rt.tok # 0)
      /\ srcDr \in SrcType /\ call \in [SrcGateways -> CallType]
      /\ \A i \in DOMAIN srcDr.toks : Served(srcDr.toks[i])
  BY CalmTypes, Zenon DEF Calm, TokenInv, RealTokens, AllServed
<1>1. CASE sourceInitiateHandShake(g)
  <2>1. PICK d \in DstGateways :
          call' = [call EXCEPT ![g] = [Idle EXCEPT !.st = "sent", !.to = d]]
    BY <1>1, Zenon DEF sourceInitiateHandShake
  <2>2. /\ call'[g].st = "sent" /\ call'[g].to = d /\ call[g].st = "idle"
        /\ \A h \in SrcGateways : h # g => call'[h] = call[h]
    BY <1>0, <1>1, <2>1, Zenon DEF Idle, sourceInitiateHandShake
  <2>3. WantsHandshake(srcDr, g)
    <3>1. WantsHandshake(srcDr, g) \in BOOLEAN BY Zenon DEF WantsHandshake
    <3>. QED BY <1>1, <3>1, NoFault, Zenon DEF sourceInitiateHandShake
  <2>4. UNCHANGED <<srcDr, dstVars, dstDr, gateway, late, now>>
    BY <1>1, Zenon DEF sourceInitiateHandShake, dstVars
  <2>5. OneCall' BY <1>0, <2>2, <2>3, <2>4, Zenon DEF OneCall, WantsHandshake
  <2>7. InStep'
    <3>1. (\A h \in SrcGateways : call'[h].st # "wait") => \A h \in SrcGateways : call[h].st # "wait"
      BY <2>2, Zenon
    <3>2. \A h \in SrcGateways : call'[h].st = "wait" => call[h].st = "wait" /\ call'[h] = call[h]
      BY <2>2, Zenon
    <3>. QED BY <1>0, <2>4, <3>1, <3>2, Zenon DEF InStep
  <2>. QED BY <1>0, <2>4, <2>5, <2>7, SourceSteps, Zenon
<1>2. CASE updateSourceRule(g)
  <2>1. UNCHANGED <<srcDr, dstVars, dstDr, gateway, late, now, call>>
    BY <1>2, Zenon DEF updateSourceRule, dstVars
  <2>2. OneCall' /\ InStep' BY <1>0, <2>1, Zenon DEF OneCall, InStep
  <2>. QED BY <1>0, <2>1, <2>2, SourceSteps, Zenon
\* The call of g ends: there is no other.
<1>3. ASSUME call[g].st # "idle", call' = [call EXCEPT ![g] = Idle]
      PROVE  /\ \A h \in SrcGateways : call'[h].st = "idle"
             /\ srcDr.rt.tok = 0 /\ call[g].to \in DstGateways
  <2>1. \A h \in SrcGateways : h # g => call[h].st = "idle" BY <1>0, <1>3, Zenon DEF OneCall
  <2>2. call'[g] = Idle /\ \A h \in SrcGateways : h # g => call'[h] = call[h] BY <1>0, <1>3, Zenon
  <2>. QED BY <1>0, <1>3, <2>1, <2>2, Zenon DEF OneCall, Idle
<1>4. CASE waitTokenReady(g)
  <2> DEFINE d == call[g].to
  <2>1. /\ call[g].st = "wait" /\ call' = [call EXCEPT ![g] = Idle]
        /\ UNCHANGED <<dstVars, dstDr, gateway, late, now>>
    BY <1>4, Zenon DEF waitTokenReady, dstVars
  <2>2. \A h \in SrcGateways : call'[h].st = "idle" /\ d \in DstGateways BY <1>3, <2>1, Zenon
  <2>3. /\ Same(call[g].rt, dstDr.rt) /\ call[g].rt.tok # 0
        /\ view[d].rev <= dstDr.rt.rev /\ dstDr.rt.rev > 0
        /\ (view[d].rev = dstDr.rt.rev /\ view[d].ready => dstDr.rt.ready) /\ dstDr.rt.at <= now
    BY <1>0, <2>1, <2>2, Zenon DEF InStep, Views, Ordered, Same
  <2>4. ~(view[d].rev < call[g].rt.rev)
    <3> DEFINE behind == view[d].rev < call[g].rt.rev
    <3>1. Charge(behind) /\ behind \in BOOLEAN BY <1>4 DEF waitTokenReady
    <3>. HIDE DEF behind
    <3>2. ~behind BY <3>1, NoFault, Zenon
    <3>. QED BY <3>2, Zenon DEF behind
  <2>5. view[d].rev = dstDr.rt.rev /\ view[d].rev # 0
    <3>1. view[d].rev \in Nat /\ dstDr.rt.rev \in Nat BY <2>2, CalmTypes, Zenon
    <3>. QED BY <2>3, <2>4, <3>1 DEF Same
  <2>6. dstDr.rt.ready /\ UpdateDomainRouteRevisionToken(call[g].rt)
    BY <1>4, <2>3, <2>5, Zenon DEF waitTokenReady
  <2>7. /\ srcDr'.toks = srcDr.toks /\ Same(srcDr'.rt, call[g].rt) /\ srcDr'.rt.at = now
    BY <1>0, <2>6, Zenon DEF UpdateDomainRouteRevisionToken, SrcType, CallType, TokenType, Same
  <2>8. srcDr'.rt.tok # 0 /\ Same(srcDr'.rt, dstDr.rt) BY <2>3, <2>7, Zenon DEF Same
  <2>9. now # Zero /\ now >= dstDr.rt.at BY <2>3, CalmTypes DEF Zero
  <2>10. OneCall' BY <2>2, <2>7, <2>9, Zenon DEF OneCall
  <2>11. InStep' BY <2>1, <2>2, <2>6, <2>7, <2>8, <2>9, Zenon DEF InStep
  <2>. QED BY <1>0, <2>1, <2>7, <2>10, <2>11, SourceSteps, Zenon
<1>5. CASE CallFails(g)
  <2>1. call[g].st # "idle" /\ call[g].to \notin Up BY <1>5, Zenon DEF CallFails
  <2>2. call[g].to \in DstGateways BY <1>0, <2>1, Zenon DEF OneCall
  <2>. QED BY <1>0, <2>1, <2>2, Zenon DEF Quiet, Up, Gateways
<1>6. CASE GivesUp(g)
  <2>1. /\ call[g].st = "wait" /\ call' = [call EXCEPT ![g] = Idle] /\ call[g].rt.at < now
        /\ UNCHANGED <<srcDr, dstVars, dstDr, gateway, late, now>>
    BY <1>6, Zenon DEF GivesUp, dstVars
  <2>2. (\A h \in SrcGateways : call'[h].st = "idle") /\ srcDr.rt.tok = 0 BY <1>3, <2>1, Zenon
  <2>3. dstDr.rt.at < now BY <1>0, <2>1, Zenon DEF InStep
  <2>4. OneCall' BY <1>0, <2>1, <2>2, Zenon DEF OneCall
  <2>5. InStep' BY <2>1, <2>2, <2>3, Zenon DEF InStep
  <2>. QED BY <1>0, <2>1, <2>4, <2>5, SourceSteps, Zenon
<1>7. CASE CallTimesOut(g) BY <1>7, NoFault, Zenon DEF CallTimesOut
<1>8. CASE checkConnectionStatus(g)
  <2>1. srcDr.rt.tok # 0 /\ UNCHANGED <<view, accepts, gateway, call, late, now>>
    BY <1>8, Zenon DEF checkConnectionStatus, proxies
  <2>2. \A h \in SrcGateways : call[h].st = "idle" BY <1>0, <2>1, Zenon DEF OneCall
  <2>3. CASE UNCHANGED <<srcDr, dstDr>>
    <3>1. Quiet' /\ OneCall' /\ InStep' /\ Ordered' /\ Views' /\ AllServed'
      BY <1>0, <2>1, <2>3, Zenon DEF Quiet, OneCall, InStep, Ordered, Views, AllServed, Served, Expired
    <3>. QED BY <3>1, Zenon DEF Calm
  <2>4. CASE ~Holds(dstDr.toks, srcDr.rt.rev) /\ srcDr' = EmptyTokenStatus /\ UNCHANGED <<dstDr, fresh>>
    <3>1. Same(srcDr.rt, dstDr.rt) /\ Served(dstDr.rt) /\ dstDr.rt.exp = dstDr.rt.at + 1
      BY <1>0, <2>1, Zenon DEF InStep, AllServed, Ordered, Same
    <3>2. Expired(dstDr.rt) BY <2>4, <3>1, Zenon DEF Served, Holds, Same
    <3>3. dstDr.rt.at < now BY <3>1, <3>2, CalmTypes, SMTT(20) DEF Expired
    <3>4. /\ srcDr'.rt.tok = 0 /\ srcDr'.initializer = NoGateway /\ DOMAIN srcDr'.toks = {}
      BY <2>4 DEF EmptyTokenStatus, NoToken
    <3>5. OneCall' BY <2>1, <2>2, <3>4, Zenon DEF OneCall
    <3>6. InStep' BY <2>1, <2>2, <2>4, <3>3, <3>4, Zenon DEF InStep
    <3>. QED BY <2>1, <2>4, <3>4, <3>5, <3>6, SourceSteps, Zenon DEF dstVars
  <2>5. \/ UNCHANGED <<srcDr, dstDr>>
        \/ ~Holds(dstDr.toks, srcDr.rt.rev) /\ srcDr' = EmptyTokenStatus /\ UNCHANGED <<dstDr, fresh>>
    <3>1. Holds(dstDr.toks, srcDr.rt.rev) \in BOOLEAN BY Zenon DEF Holds
    <3>. QED BY <1>8, <3>1, NoFault, Zenon DEF checkConnectionStatus, WriteDst
  <2>. QED BY <2>3, <2>4, <2>5, Zenon
<1>. QED BY <1>1, <1>2, <1>4, <1>5, <1>6, <1>7, <1>8, Zenon

\* What a copy of the destination's DomainRoute shows.
LEMMA SeenShows ==
  ASSUME TypeInv
  PROVE  /\ Seen(dstDr).rev = dstDr.rt.rev /\ Seen(dstDr).ready = dstDr.rt.ready
         /\ DOMAIN Seen(dstDr).toks = DOMAIN dstDr.toks
         /\ \A j \in DOMAIN dstDr.toks : dstDr.toks[j].tok \in TokensOf(Seen(dstDr).toks)
<1>1. /\ Seen(dstDr).rev = dstDr.rt.rev /\ Seen(dstDr).ready = dstDr.rt.ready
      /\ DOMAIN Seen(dstDr).toks = DOMAIN dstDr.toks
      /\ \A j \in DOMAIN dstDr.toks : Seen(dstDr).toks[j].tok = dstDr.toks[j].tok
  BY Zenon DEF Seen
<1>. QED BY <1>1, Zenon DEF TokensOf

\* The handshake seen from the destination: a change that leaves the identity of its token.
LEMMA StillInStep ==
  ASSUME InStep, UNCHANGED <<srcDr, call, now>>, Same(dstDr'.rt, dstDr.rt),
         dstDr'.rt.at = dstDr.rt.at, dstDr.rt.ready => dstDr'.rt.ready
  PROVE  InStep'
BY Zenon DEF InStep, Same

\* A list with the same tokens, and more gateways that have them.
SameList ==
  /\ DOMAIN dstDr'.toks = DOMAIN dstDr.toks
  /\ \A j \in DOMAIN dstDr.toks : /\ Same(dstDr'.toks[j], dstDr.toks[j])
                                  /\ dstDr.toks[j].eff \subseteq dstDr'.toks[j].eff

LEMMA SameListKeeps ==
  ASSUME Calm, SameList, UNCHANGED <<srcDr, call, now, late, gateway>>, Same(dstDr'.rt, dstDr.rt),
         dstDr'.rt.at = dstDr.rt.at, dstDr.rt.ready => dstDr'.rt.ready,
         dstDr'.rt.tok = 0 => dstDr'.toks = <<>> /\ ~dstDr'.rt.ready
  PROVE  Quiet' /\ OneCall' /\ InStep' /\ Ordered' /\ DstKeeps
<1>0. Quiet /\ OneCall /\ InStep /\ Ordered BY Zenon DEF Calm
<1>1. InStep' BY <1>0, StillInStep, Zenon
<1>2. Quiet' /\ OneCall' BY <1>0, Zenon DEF Quiet, OneCall
<1>3. DstKeeps BY Zenon DEF DstKeeps, SameList
<1>4. Ordered' BY <1>0, Zenon DEF Ordered, SameList, Same, Older
<1>. QED BY <1>1, <1>2, <1>3, <1>4, Zenon

\* The first token goes when it has expired.
LEMMA CalmDrop ==
  ASSUME TypeInv, Calm, dropExpiredToken
  PROVE  Calm'
<1>0. Quiet /\ OneCall /\ InStep /\ Ordered /\ Views /\ AllServed /\ dstDr \in DstType
  BY CalmTypes, Zenon DEF Calm
<1>1. /\ dstDr.toks # <<>> /\ dstDr'.toks = Tail(dstDr.toks) /\ dstDr'.rt = dstDr.rt
      /\ Expired(dstDr.toks[1])
      /\ UNCHANGED <<srcDr, view, accepts, gateway, call, late, now>>
  BY <1>0, Zenon DEF dropExpiredToken, WriteDst, DstType, proxies
<1>2. /\ \A k \in DOMAIN dstDr'.toks :
           k \in Nat /\ k + 1 \in DOMAIN dstDr.toks /\ dstDr'.toks[k] = dstDr.toks[k + 1]
      /\ \A j \in DOMAIN dstDr.toks : j = 1 \/ (j - 1 \in DOMAIN dstDr'.toks
                                              /\ dstDr'.toks[j - 1] = dstDr.toks[j])
  <2>1. dstDr.toks \in Seq(DstTokenType) BY CalmTypes, Zenon
  <2>. QED BY <1>1, <2>1
<1>3. Quiet' /\ OneCall' BY <1>0, <1>1, Zenon DEF Quiet, OneCall
<1>4. InStep' BY <1>0, <1>1, StillInStep, Zenon DEF Same
<1>5. Ordered'
  <2>1. dstDr'.rt.tok # 0 BY <1>0, <1>1, Zenon DEF Ordered
  <2>2. \A i, j \in DOMAIN dstDr'.toks : i < j => Older(dstDr'.toks[i], dstDr'.toks[j])
    <3>1. \A i, j \in Nat : i < j => i + 1 < j + 1 OBVIOUS
    <3>. QED BY <1>0, <1>2, <3>1, Zenon DEF Ordered
  <2>. QED BY <1>0, <1>1, <1>2, <2>1, <2>2, Zenon DEF Ordered
<1>6. Views' BY <1>0, <1>1, <1>2, ZenonT(30) DEF Views
<1>7. DstKeeps
  <2>1. ASSUME NEW j \in DOMAIN dstDr.toks
        PROVE  \/ now > dstDr.toks[j].exp
               \/ \E k \in DOMAIN dstDr'.toks : /\ Same(dstDr'.toks[k], dstDr.toks[j])
                                                /\ dstDr.toks[j].eff \subseteq dstDr'.toks[k].eff
    BY <1>1, <1>2, Zenon DEF Expired, Same
  <2>. QED BY <2>1, Zenon DEF DstKeeps
<1>8. AllServed' BY <1>0, <1>1, <1>7, ServedList, Zenon DEF Same
<1>. QED BY <1>3, <1>4, <1>5, <1>6, <1>8, Zenon DEF Calm

LEMMA AppendLast ==
  ASSUME NEW S, NEW q \in Seq(S), NEW t \in S PROVE Append(q, t)[Len(q) + 1] = t
OBVIOUS

LEMMA AppendTwo ==
  ASSUME NEW S, NEW q \in Seq(S), Len(q) = 1, NEW t \in S
  PROVE  DOMAIN Append(q, t) = {1, 2} /\ Append(q, t)[1] = q[1] /\ Append(q, t)[2] = t
<1>1. Append(q, t) \in Seq(S) OBVIOUS
<1>2. Len(Append(q, t)) = 2 OBVIOUS
<1>3. DOMAIN Append(q, t) = 1 .. 2 BY <1>1, <1>2
<1>4. Append(q, t)[1] = q[1] OBVIOUS
<1>5. Append(q, t)[Len(q) + 1] = t BY AppendLast, Zenon
<1>6. Append(q, t)[2] = t BY <1>5
<1>. QED BY <1>3, <1>4, <1>6

LEMMA RolledCases ==
  ASSUME NEW S, NEW toks \in Seq(S), Len(toks) <= 2, NEW t \in S
  PROVE  /\ toks = <<>> => DOMAIN Rolled(toks, t) = {1} /\ Rolled(toks, t)[1] = t
         /\ toks # <<>> => /\ DOMAIN Rolled(toks, t) = {1, 2} /\ Rolled(toks, t)[2] = t
                           /\ Rolled(toks, t)[1] = toks[Len(toks)] /\ Len(toks) \in DOMAIN toks
                           /\ \A j \in DOMAIN toks : j = Len(toks) \/ j < Len(toks)
<1>1. CASE toks = <<>>
  <2>1. Rolled(toks, t) = <<t>> BY <1>1 DEF Rolled
  <2>. QED BY <1>1, <2>1
<1>2. CASE Len(toks) = 1
  <2>1. Rolled(toks, t) = Append(toks, t) BY <1>2 DEF Rolled
  <2>2. /\ DOMAIN Append(toks, t) = {1, 2} /\ Append(toks, t)[1] = toks[1]
        /\ Append(toks, t)[2] = t
    BY <1>2, AppendTwo
  <2>3. DOMAIN toks = 1 .. 1 BY <1>2
  <2>4. 1 \in DOMAIN toks /\ \A j \in DOMAIN toks : j = 1 \/ j < 1 BY <2>3
  <2>5. toks # <<>>
    <3>1. Len(<<>>) # 1 OBVIOUS
    <3>. QED BY <1>2, <3>1, Zenon
  <2>. QED BY <1>2, <2>1, <2>2, <2>4, <2>5, Zenon
<1>3. CASE Len(toks) = 2
  <2> DEFINE last == SubSeq(toks, Len(toks), Len(toks))
  <2>1. last \in Seq(S) BY <1>3
  <2>2. Len(last) = 1 BY <1>3
  <2>3. last[1] = toks[2] BY <1>3
  <2>4. Rolled(toks, t) = Append(last, t) BY <1>3 DEF Rolled
  <2>. HIDE DEF last
  <2>5. /\ DOMAIN Append(last, t) = {1, 2} /\ Append(last, t)[1] = last[1]
        /\ Append(last, t)[2] = t
    BY <2>1, <2>2, AppendTwo
  <2>6. DOMAIN toks = 1 .. 2 BY <1>3
  <2>7. 2 \in DOMAIN toks /\ \A j \in DOMAIN toks : j = 2 \/ j < 2 BY <2>6
  <2>8. toks # <<>>
    <3>1. Len(<<>>) # 2 OBVIOUS
    <3>. QED BY <1>3, <3>1, Zenon
  <2>. QED BY <1>3, <2>3, <2>4, <2>5, <2>7, <2>8, Zenon
<1>4. Len(toks) \in Nat /\ (Len(toks) = 0 => toks = <<>>) OBVIOUS
<1>5. \A m \in Nat : m <= 2 => m = 0 \/ m = 1 \/ m = 2 OBVIOUS
<1>6. toks = <<>> \/ Len(toks) = 1 \/ Len(toks) = 2 BY <1>4, <1>5, Zenon
<1>. QED BY <1>1, <1>2, <1>3, <1>6, Zenon

\* A token is appended; the one it displaces is two older, and has expired.
LEMMA CalmAppend ==
  ASSUME TypeInv, Calm, postRollingDestinationDomainRoute, NeedsAppend
  PROVE  Calm'
<1>0. Quiet /\ OneCall /\ InStep /\ Ordered /\ Views /\ AllServed /\ dstDr \in DstType
  BY CalmTypes, Zenon DEF Calm
<1> DEFINE t == [rev |-> dstDr.rt.rev, tok |-> dstDr.rt.tok, ready |-> dstDr.rt.ready,
                 exp |-> dstDr.rt.exp, eff |-> {}]
           n == Len(dstDr.toks)
<1>1. /\ dstDr'.toks = Rolled(dstDr.toks, t) /\ dstDr'.rt = dstDr.rt /\ dstDr.rt.tok # 0
      /\ UNCHANGED <<srcDr, view, accepts, gateway, call, late, now>>
      /\ dstDr.toks # <<>> => dstDr.toks[n].rev # dstDr.rt.rev
  BY <1>0, Zenon
  DEF postRollingDestinationDomainRoute, WriteDst, DstType, NeedsAppend, NeedsRolled, Newest, proxies
<1>2. Same(t, dstDr.rt) /\ t.eff = {} BY Zenon DEF Same
<1>3. /\ dstDr.toks = <<>> => DOMAIN dstDr'.toks = {1} /\ dstDr'.toks[1] = t
      /\ dstDr.toks # <<>> => /\ DOMAIN dstDr'.toks = {1, 2} /\ dstDr'.toks[2] = t
                              /\ dstDr'.toks[1] = dstDr.toks[n] /\ n \in DOMAIN dstDr.toks
                              /\ \A j \in DOMAIN dstDr.toks : j = n \/ j < n
  <2>1. dstDr.toks \in Seq(DstTokenType) /\ Len(dstDr.toks) <= 2 /\ dstDr.rt \in TokenType
    BY CalmTypes, Zenon
  <2>2. t \in DstTokenType BY <2>1, Zenon DEF DstTokenType, TokenType
  <2>. HIDE DEF t
  <2> DEFINE toks == dstDr.toks
  <2>3. /\ toks = <<>> => DOMAIN Rolled(toks, t) = {1} /\ Rolled(toks, t)[1] = t
        /\ toks # <<>> => /\ DOMAIN Rolled(toks, t) = {1, 2} /\ Rolled(toks, t)[2] = t
                          /\ Rolled(toks, t)[1] = toks[Len(toks)] /\ Len(toks) \in DOMAIN toks
                          /\ \A j \in DOMAIN toks : j = Len(toks) \/ j < Len(toks)
    <3>1. toks \in Seq(DstTokenType) /\ Len(toks) <= 2 BY <2>1, Zenon
    <3>. HIDE DEF toks
    <3>. QED BY <2>2, <3>1, RolledCases, Zenon
  <2>. QED BY <1>1, <2>3, Zenon
<1>. HIDE DEF t, n
<1>4. dstDr.toks # <<>> => Older(dstDr.toks[n], dstDr.rt)
  BY <1>0, <1>1, <1>3, Zenon DEF Ordered, Same
<1>5. \A k \in DOMAIN dstDr'.toks :
        dstDr'.toks[k] = t \/ (dstDr.toks # <<>> /\ k = 1 /\ dstDr'.toks[k] = dstDr.toks[n])
  BY <1>3, Zenon
<1>6. Quiet' /\ OneCall' BY <1>0, <1>1, Zenon DEF Quiet, OneCall
<1>7. InStep' BY <1>0, <1>1, StillInStep, Zenon DEF Same
<1>8. Ordered'
  <2>1. \A k \in DOMAIN dstDr'.toks : Same(dstDr'.toks[k], dstDr'.rt) \/ Older(dstDr'.toks[k], dstDr'.rt)
    BY <1>1, <1>2, <1>4, <1>5, Zenon
  <2>2. ASSUME NEW i \in DOMAIN dstDr'.toks, NEW j \in DOMAIN dstDr'.toks, i < j
        PROVE  Older(dstDr'.toks[i], dstDr'.toks[j])
    <3>1. dstDr.toks # <<>> /\ i = 1 /\ j = 2 BY <1>3, <2>2
    <3>. QED BY <1>2, <1>3, <1>4, <3>1, Zenon DEF Older, Same
  <2>. QED BY <1>0, <1>1, <2>1, <2>2, Zenon DEF Ordered
<1>9. Views'
  <2>1. ASSUME NEW d \in DstGateways, NEW k \in DOMAIN dstDr'.toks, d \in dstDr'.toks[k].eff
        PROVE  dstDr'.toks[k].tok \in TokensOf(view[d].toks) /\ dstDr'.toks[k].tok \in accepts[d]
    <3>1. dstDr.toks # <<>> /\ dstDr'.toks[k] = dstDr.toks[n] BY <1>2, <1>5, <2>1, Zenon
    <3>. QED BY <1>0, <1>3, <2>1, <3>1, Zenon DEF Views
  <2>. QED BY <1>0, <1>1, <2>1, Zenon DEF Views
<1>10. DstKeeps
  <2>1. ASSUME NEW j \in DOMAIN dstDr.toks
        PROVE  \/ now > dstDr.toks[j].exp
               \/ \E k \in DOMAIN dstDr'.toks : /\ Same(dstDr'.toks[k], dstDr.toks[j])
                                                /\ dstDr.toks[j].eff \subseteq dstDr'.toks[k].eff
    <3>0. dstDr.toks # <<>> BY CalmTypes
    <3>1. CASE j = n
      <4>1. 1 \in DOMAIN dstDr'.toks /\ dstDr'.toks[1] = dstDr.toks[j] BY <1>3, <3>0, <3>1, Zenon
      <4>. QED BY <4>1, Zenon DEF Same
    <3>2. CASE j < n
      <4>1. /\ Older(dstDr.toks[j], dstDr.toks[n]) /\ Older(dstDr.toks[n], dstDr.rt)
            /\ dstDr.rt.exp = dstDr.rt.at + 1 /\ dstDr.rt.at <= now
        BY <1>0, <1>1, <1>3, <1>4, <3>0, <3>2, Zenon DEF Ordered
      <4>2. /\ dstDr.toks[j].exp \in Int /\ dstDr.toks[n].exp \in Int /\ dstDr.rt.at \in Int /\ now \in Nat
        BY <1>3, <3>0, CalmTypes, Zenon
      <4>3. now > dstDr.toks[j].exp BY <4>1, <4>2 DEF Older
      <4>. QED BY <4>3, Zenon
    <3>. QED BY <1>3, <3>0, <3>1, <3>2, Zenon
  <2>. QED BY <2>1, Zenon DEF DstKeeps
<1>11. AllServed' BY <1>0, <1>1, <1>10, ServedList, Zenon DEF Same
<1>. QED BY <1>6, <1>7, <1>8, <1>9, <1>11, Zenon DEF Calm

\* The destination is ready when all its gateways have the newest token.
LEMMA CalmReady ==
  ASSUME TypeInv, Calm, postRollingDestinationDomainRoute, ~NeedsAppend
  PROVE  Calm'
<1>0. Quiet /\ OneCall /\ InStep /\ Ordered /\ Views /\ AllServed /\ dstDr \in DstType
  BY CalmTypes, Zenon DEF Calm
<1> DEFINE n == Len(dstDr.toks)
<1>1. /\ dstDr' = [dstDr EXCEPT !.rt.ready = TRUE, !.toks[n].ready = TRUE]
      /\ UNCHANGED <<srcDr, view, accepts, gateway, call, late, now>>
      /\ dstDr.toks # <<>> /\ Live \cap DstGateways \subseteq dstDr.toks[n].eff
  BY Zenon DEF postRollingDestinationDomainRoute, WriteDst, checkEffectiveInstances, Newest, proxies
<1>2. /\ Same(dstDr'.rt, dstDr.rt) /\ dstDr'.rt.at = dstDr.rt.at /\ dstDr'.rt.ready
      /\ dstDr'.toks = [dstDr.toks EXCEPT ![n].ready = TRUE]
  BY <1>0, <1>1, Zenon DEF DstType, TokenType, Same
<1>3. DOMAIN dstDr'.toks = DOMAIN dstDr.toks
      /\ \A j \in DOMAIN dstDr.toks : Same(dstDr'.toks[j], dstDr.toks[j]) /\ dstDr'.toks[j].eff = dstDr.toks[j].eff
  <2>1. \A j \in DOMAIN dstDr.toks : dstDr.toks[j] \in DstTokenType BY CalmTypes, Zenon
  <2>. QED BY <1>2, <2>1 DEF DstTokenType, Same
<1>4. dstDr.rt.tok # 0 BY <1>0, <1>1, Zenon DEF Ordered
<1>5. Quiet' /\ OneCall' /\ InStep' /\ Ordered' /\ DstKeeps
  <2>1. SameList BY <1>3, Zenon DEF SameList
  <2>. QED BY <1>1, <1>2, <1>4, <2>1, SameListKeeps, Zenon DEF Same
<1>6. Views' BY <1>0, <1>1, <1>2, <1>3, Zenon DEF Views, Same
<1>7. ServedNext(dstDr.rt)
  <2>1. CASE Expired(dstDr.rt) BY <1>1, <2>1, Zenon DEF Expired, ServedNext
  <2>2. CASE ~Expired(dstDr.rt)
    <3>1. dstDr.toks[n].rev = dstDr.rt.rev /\ n \in DOMAIN dstDr.toks
      <4>1. n \in DOMAIN dstDr.toks BY <1>1, CalmTypes
      <4>. QED BY <1>1, <1>4, <2>2, <4>1, Zenon DEF NeedsAppend, NeedsRolled, Newest
    <3>2. Same(dstDr.toks[n], dstDr.rt)
      <4>1. \A k \in Nat : ~(k < k) OBVIOUS
      <4>2. dstDr.rt.rev \in Nat BY CalmTypes, Zenon
      <4>3. ~Older(dstDr.toks[n], dstDr.rt) BY <3>1, <4>1, <4>2, Zenon DEF Older
      <4>. QED BY <1>0, <3>1, <4>3, Zenon DEF Ordered
    <3>3. DstGateways \subseteq dstDr.toks[n].eff
      <4>1. DstGateways \subseteq Live BY <1>0, Zenon DEF Live, Quiet, Gateways
      <4>. QED BY <1>1, <4>1, Zenon
    <3>. QED BY <1>3, <3>1, <3>2, <3>3, Zenon DEF ServedNext, Same
  <2>. QED BY <2>1, <2>2, Zenon
<1>8. AllServed'
  <2>1. \A i \in DOMAIN srcDr'.toks : ServedNext(srcDr'.toks[i])
    BY <1>0, <1>1, <1>5, ServedMoves, Zenon DEF AllServed
  <2>2. ServedNext(dstDr'.rt) BY <1>2, <1>7, Zenon DEF ServedNext, Same
  <2>. QED BY <2>1, <2>2, Zenon DEF AllServed, Served, ServedNext, Expired
<1>. QED BY <1>5, <1>6, <1>8, Zenon DEF Calm

\* A gateway of the destination reads its lister, or fills its proxy and reports it.
LEMMA CalmDestinationGateway ==
  ASSUME TypeInv, Calm, NEW d \in DstGateways, DestinationGateway(d)
  PROVE  Calm'
<1>0. /\ Quiet /\ OneCall /\ InStep /\ Ordered /\ Views /\ AllServed /\ dstDr \in DstType
      /\ view \in [DstGateways -> SeenType] /\ accepts \in [DstGateways -> SUBSET Nat] /\ FreshViews
  BY CalmTypes, Zenon DEF Calm, TypeInv, TypeOK
<1>1. CASE WatchDestination(d)
  <2>1. /\ view' = [view EXCEPT ![d] = Seen(dstDr)]
        /\ UNCHANGED <<srcDr, dstDr, accepts, gateway, call, late, now>>
    BY <1>1, Zenon DEF WatchDestination, proxies
  <2>2. Quiet' /\ OneCall' /\ InStep' /\ Ordered' /\ AllServed'
    BY <1>0, <2>1, Zenon DEF Quiet, OneCall, InStep, Ordered, AllServed, Served, Expired
  <2>3. Views'
    <3>1. dstDr.rt.rev <= dstDr.rt.rev BY CalmTypes, SMTT(20)
    <3>2. \A e \in DstGateways : view'[e] = view[e] \/ (e = d /\ view'[e] = Seen(dstDr))
      BY <1>0, <2>1, Zenon
    <3>. QED BY <1>0, <2>1, <3>1, <3>2, SeenShows, Zenon DEF Views
  <2>. QED BY <2>2, <2>3, Zenon DEF Calm
<1>2. CASE updateDestinationRule(d)
  <2> DEFINE toks == view[d].toks
             report == fresh[d] /\ \E i \in DOMAIN toks : d \notin dstDr.toks[i].eff
             new == [i \in DOMAIN toks |-> [dstDr.toks[i] EXCEPT !.eff = @ \cup {d}]]
  <2>1. /\ accepts' = [accepts EXCEPT ![d] = TokensOf(toks)]
        /\ UNCHANGED <<srcDr, view, gateway, call, late, now>>
        /\ report => dstDr'.toks = new /\ dstDr'.rt = dstDr.rt
        /\ ~report => dstDr' = dstDr
    BY <1>0, <1>2, Zenon DEF updateDestinationRule, WriteDst, DstType
  <2>2. \A e \in DstGateways : accepts'[e] = IF e = d THEN TokensOf(view[d].toks) ELSE accepts[e]
    BY <1>0, <2>1, Zenon
  <2>3. CASE report
    <3>1. view[d] = Seen(dstDr) BY <1>0, <2>3, Zenon DEF FreshViews
    <3>2. DOMAIN toks = DOMAIN dstDr.toks BY <3>1, SeenShows, Zenon
    <3>3. \A j \in DOMAIN dstDr.toks : dstDr.toks[j] \in DstTokenType BY CalmTypes, Zenon
    <3>4. DOMAIN dstDr'.toks = DOMAIN dstDr.toks /\ dstDr'.rt = dstDr.rt
      BY <2>1, <2>3, <3>2, Zenon
    <3>5. \A j \in DOMAIN dstDr.toks :
            Same(dstDr'.toks[j], dstDr.toks[j]) /\ dstDr'.toks[j].eff = dstDr.toks[j].eff \cup {d}
      BY <2>1, <2>3, <3>2, <3>3 DEF DstTokenType, Same
    <3>6. SameList BY <3>4, <3>5, Zenon DEF SameList
    <3>7. dstDr.toks = <<>> => dstDr'.toks = <<>>
      BY <2>3, <3>2
    <3>8. Quiet' /\ OneCall' /\ InStep' /\ Ordered' /\ DstKeeps
      BY <1>0, <2>1, <3>4, <3>6, <3>7, SameListKeeps, Zenon DEF Same, Ordered
    <3>9. Views'
      <4>1. ASSUME NEW e \in DstGateways, NEW j \in DOMAIN dstDr'.toks, e \in dstDr'.toks[j].eff
            PROVE  dstDr'.toks[j].tok \in TokensOf(view[e].toks) /\ dstDr'.toks[j].tok \in accepts'[e]
        <5>1. dstDr'.toks[j].tok = dstDr.toks[j].tok /\ (e = d \/ e \in dstDr.toks[j].eff)
          BY <3>4, <3>5, <4>1, Zenon DEF Same
        <5>2. CASE e = d BY <2>2, <3>1, <3>4, <5>1, <5>2, SeenShows, Zenon
        <5>3. CASE e # d BY <1>0, <2>2, <3>4, <5>1, <5>3, Zenon DEF Views
        <5>. QED BY <5>2, <5>3, Zenon
      <4>. QED BY <1>0, <2>1, <3>4, <4>1, Zenon DEF Views
    <3>10. AllServed' BY <1>0, <2>1, <3>4, <3>8, ServedList, Zenon DEF Same
    <3>. QED BY <3>8, <3>9, <3>10, Zenon DEF Calm
  <2>4. CASE ~report
    <3>1. dstDr' = dstDr BY <2>1, <2>4, Zenon
    <3>2. Quiet' /\ OneCall' /\ InStep' /\ Ordered' /\ AllServed'
      BY <1>0, <2>1, <3>1, Zenon DEF Quiet, OneCall, InStep, Ordered, AllServed, Served, Expired
    <3>3. Views' BY <1>0, <2>1, <2>2, <3>1, Zenon DEF Views
    <3>. QED BY <3>2, <3>3, Zenon DEF Calm
  <2>. QED BY <2>3, <2>4, Zenon
<1>. QED BY <1>1, <1>2, Zenon DEF DestinationGateway

\* A handshake is answered with a token that is younger than all tokens before.
LEMMA CalmAnswer ==
  ASSUME TypeInv, Calm, NEW g \in SrcGateways, DestReplyHandshake(g)
  PROVE  Calm'
<1>0. /\ Quiet /\ OneCall /\ InStep /\ Ordered /\ Views /\ AllServed /\ dstDr \in DstType
      /\ call \in [SrcGateways -> CallType] /\ FreshViews
  BY CalmTypes, Zenon DEF Calm, TypeInv
<1> DEFINE d == call[g].to
<1>1. call[g].st = "sent" /\ UNCHANGED <<srcDr, view, accepts, gateway, late, now>>
  BY Zenon DEF DestReplyHandshake, proxies
<1>2. /\ d \in DstGateways /\ srcDr.initializer = g /\ srcDr.rt.tok = 0
      /\ \A h \in SrcGateways : h # g => call[h].st = "idle"
  <2>1. call[g].st # "idle" BY <1>1, Zenon
  <2>. QED BY <1>0, <2>1, Zenon DEF OneCall
<1>3. \A h \in SrcGateways : call[h].st # "wait"
  <2>1. "idle" # "wait" /\ "sent" # "wait" BY Zenon
  <2>. QED BY <1>1, <1>2, <2>1, Zenon
<1>4. dstDr.rt.tok = 0 \/ dstDr.rt.at < now BY <1>0, <1>2, <1>3, Zenon DEF InStep
<1>5. CASE fresh[d]
  <2> DEFINE t == NewToken(d)
  <2>1. /\ dstDr' = [dstDr EXCEPT !.rt = t]
        /\ call' = [call EXCEPT ![g] = [@ EXCEPT !.st = "wait", !.rt = t]]
    BY <1>5, Zenon DEF DestReplyHandshake, WriteDst
  <2>2. /\ t.rev = dstDr.rt.rev + 1 /\ t.tok = made + 1 /\ t.ready = FALSE
        /\ t.at = now /\ t.exp = now + 1
    <3>1. view[d].rev = dstDr.rt.rev BY <1>0, <1>2, <1>5, SeenShows, Zenon DEF FreshViews
    <3>. QED BY <3>1, Zenon DEF NewToken
  <2>. HIDE DEF t
  <2>3. dstDr'.rt = t /\ dstDr'.toks = dstDr.toks BY <1>0, <2>1, Zenon DEF DstType
  <2>4. /\ call'[g].st = "wait" /\ call'[g].rt = t /\ call'[g].to = d
        /\ \A h \in SrcGateways : h # g => call'[h] = call[h]
    BY <1>0, <2>1, Zenon DEF CallType
  <2>5. t.tok # 0 /\ t.rev > 0 /\ t.at <= now /\ t.exp = t.at + 1 /\ ~t.ready
    <3>1. made \in Nat /\ now \in Nat /\ dstDr.rt.rev \in Nat BY CalmTypes, Zenon
    <3>. QED BY <2>2, <3>1
  <2>6. Quiet' BY <1>0, <1>1, Zenon DEF Quiet
  <2>7. OneCall' BY <1>0, <1>1, <1>2, <2>4, Zenon DEF OneCall
  <2>8. InStep'
    <3>1. \A h \in SrcGateways : call'[h].st = "wait" => call'[h].rt = t
      BY <1>3, <2>4, Zenon
    <3>. QED BY <1>1, <1>2, <2>3, <2>4, <3>1, Zenon DEF InStep, Same
  <2>9. Ordered'
    <3>1. ASSUME NEW j \in DOMAIN dstDr.toks PROVE Older(dstDr.toks[j], t)
      <4>1. dstDr.rt.tok # 0
        <5>1. DOMAIN <<>> = {} OBVIOUS
        <5>. QED BY <1>0, <5>1, Zenon DEF Ordered
      <4>2. dstDr.rt.exp = dstDr.rt.at + 1 /\ dstDr.rt.at < now
        BY <1>0, <1>4, <4>1, Zenon DEF Ordered
      <4>0. /\ dstDr.toks[j].rev \in Nat /\ dstDr.rt.rev \in Nat /\ dstDr.toks[j].exp \in Int
            /\ dstDr.rt.exp \in Int /\ dstDr.rt.at \in Int /\ now \in Nat
        BY CalmTypes, Zenon
      <4>3. dstDr.toks[j].rev <= dstDr.rt.rev /\ dstDr.toks[j].exp <= dstDr.rt.exp
        <5>1. Same(dstDr.toks[j], dstDr.rt) \/ Older(dstDr.toks[j], dstDr.rt)
          BY <1>0, Zenon DEF Ordered
        <5>. QED BY <4>0, <5>1 DEF Same, Older
      <4>. QED BY <2>2, <4>0, <4>2, <4>3 DEF Older
    <3>. QED BY <1>0, <1>1, <2>3, <2>5, <3>1, Zenon DEF Ordered
  <2>10. Views'
    <3>1. \A e \in DstGateways : view[e].rev <= t.rev /\ view[e].rev # t.rev
      <4>1. \A e \in DstGateways : view[e].rev <= dstDr.rt.rev /\ view[e].rev \in Nat
        BY <1>0, CalmTypes, Zenon DEF Views
      <4>2. dstDr.rt.rev \in Nat BY CalmTypes, Zenon
      <4>. QED BY <2>2, <4>1, <4>2
    <3>. QED BY <1>0, <1>1, <2>3, <3>1, Zenon DEF Views
  <2>11. AllServed'
    <3>1. DstKeeps BY <2>3, Zenon DEF DstKeeps, Same
    <3>. QED BY <1>0, <1>1, <2>3, <2>5, <3>1, ServedList, Zenon
  <2>. QED BY <2>6, <2>7, <2>8, <2>9, <2>10, <2>11, Zenon DEF Calm
<1>6. CASE ~fresh[d]
  <2>1. call' = [call EXCEPT ![g] = Idle] /\ UNCHANGED <<dstDr, fresh>>
    BY <1>6, Zenon DEF DestReplyHandshake
  <2>2. \A h \in SrcGateways : call'[h] = Idle \/ call'[h] = call[h] BY <1>0, <2>1, Zenon
  <2>3. Idle.st = "idle" /\ "idle" # "wait" BY Zenon DEF Idle
  <2>4. OneCall' BY <1>0, <1>1, <2>2, <2>3, Zenon DEF OneCall
  <2>5. InStep' BY <1>0, <1>1, <1>3, <1>4, <2>1, <2>2, <2>3, Zenon DEF InStep
  <2>. QED BY <1>0, <1>1, <2>1, <2>4, <2>5, SourceSteps, Zenon DEF AllServed, dstVars
<1>. QED BY <1>5, <1>6, Zenon

\* Time passes.
LEMMA CalmTick ==
  ASSUME TypeInv, Calm, Tick
  PROVE  Calm'
<1>0. Quiet /\ OneCall /\ InStep /\ Ordered /\ Views /\ AllServed BY Zenon DEF Calm
<1>1. UNCHANGED <<srcDr, dstDr, view, accepts, gateway, call, late>> /\ now' = now + 1
  BY Zenon DEF Tick, dstVars
<1>2. \A t \in Int : (t < now => t < now') /\ (t <= now => t <= now') /\ (now > t => now' > t)
  BY <1>1, CalmTypes, SMTT(20)
<1>3. Quiet' /\ OneCall' /\ Views' BY <1>0, <1>1, Zenon DEF Quiet, OneCall, Views
<1>4. InStep' /\ Ordered' BY <1>0, <1>1, <1>2, CalmTypes, Zenon DEF InStep, Ordered
<1>5. AllServed'
  <2>1. \A t : t.exp \in Int /\ Served(t) => ServedNext(t)
    BY <1>1, <1>2, Zenon DEF Served, ServedNext, Expired
  <2>2. \A i \in DOMAIN srcDr'.toks : ServedNext(srcDr'.toks[i])
    BY <1>0, <1>1, <2>1, CalmTypes, Zenon DEF AllServed
  <2>3. dstDr'.rt.ready => ServedNext(dstDr'.rt)
    BY <1>0, <1>1, <2>1, CalmTypes, Zenon DEF AllServed
  <2>. QED BY <2>2, <2>3, Zenon DEF AllServed, Served, ServedNext, Expired
<1>. QED BY <1>3, <1>4, <1>5, Zenon DEF Calm

LEMMA CalmInit == Init => CalmInv
<1>. SUFFICES ASSUME Init PROVE Calm BY Zenon DEF CalmInv
<1>1. /\ srcDr = EmptyTokenStatus /\ dstDr = [rt |-> NoToken, toks |-> <<>>]
      /\ view = [d \in DstGateways |-> Seen(dstDr)] /\ gateway = [g \in Gateways |-> "up"]
      /\ call = [g \in SrcGateways |-> Idle] /\ late = 0
  BY Zenon DEF Init
<1>2. DOMAIN <<>> = {} /\ DOMAIN dstDr.toks = {} /\ DOMAIN srcDr.toks = {}
  BY <1>1 DEF EmptyTokenStatus
<1>3. /\ dstDr.rt.tok = 0 /\ dstDr.rt.ready = FALSE /\ dstDr.toks = <<>> /\ dstDr.rt.rev = 0
      /\ srcDr.rt.tok = 0 /\ srcDr.initializer = NoGateway
  BY <1>1, Zenon DEF EmptyTokenStatus, NoToken
<1>4. \A g \in SrcGateways : call[g].st = "idle" BY <1>1, Zenon DEF Idle
<1>5. Quiet BY <1>1, Zenon DEF Quiet
<1>6. OneCall BY <1>3, <1>4, Zenon DEF OneCall
<1>7. InStep BY <1>3, <1>4, Zenon DEF InStep
<1>8. Ordered BY <1>2, <1>3, Zenon DEF Ordered
<1>9. Views
  <2>1. \A d \in DstGateways : view[d].rev = 0 /\ view[d].ready = FALSE
    BY <1>1, <1>3, Zenon DEF Seen
  <2>2. 0 <= 0 OBVIOUS
  <2>. QED BY <1>2, <1>3, <2>1, <2>2, Zenon DEF Views
<1>10. AllServed BY <1>2, <1>3, Zenon DEF AllServed
<1>. QED BY <1>5, <1>6, <1>7, <1>8, <1>9, <1>10, Zenon DEF Calm

LEMMA CalmNext == TypeInv /\ TokenInv /\ CalmInv /\ [Next]_vars => CalmInv'
<1>. SUFFICES ASSUME TypeInv, TokenInv, CalmInv, [Next]_vars, faults' = 0 PROVE Calm'
  BY Zenon DEF CalmInv
<1>1. CASE UNCHANGED vars
  <2>1. UNCHANGED <<srcDr, dstDr, view, accepts, gateway, call, late, now, faults>>
    BY <1>1, Zenon DEF vars
  <2>2. Calm BY <2>1, Zenon DEF CalmInv
  <2>. QED
    BY <2>1, <2>2, Zenon DEF Calm, Quiet, OneCall, InStep, Ordered, Views, AllServed, Served, Expired
<1>2. CASE Next
  <2>1. ~Fault /\ \A c \in BOOLEAN : Charge(c) => ~c BY NoFault, Zenon
  <2>2. faults = 0
    <3>1. \A c \in BOOLEAN : Charge(c) => UNCHANGED faults BY <2>1, Zenon DEF Charge
    <3>2. CASE Controller
      BY <3>1, <3>2, Zenon DEF Controller, preRollingSourceDomainRoute, ensureInitializer,
         postRollingSourceDomainRoute, dropExpiredToken, postRollingDestinationDomainRoute
    <3>3. ASSUME NEW g \in SrcGateways, SourceGateway(g) PROVE faults = 0
      <4>1. \A h : WantsHandshake(srcDr, h) \in BOOLEAN BY Zenon DEF WantsHandshake
      <4>2. \A p : (~p) \in BOOLEAN BY Zenon
      <4>3. CASE sourceInitiateHandShake(g)
        BY <2>1, <3>1, <4>3, Zenon DEF sourceInitiateHandShake, Charge
      <4>4. CASE waitTokenReady(g) BY <2>1, <4>4, Zenon DEF waitTokenReady, Charge
      <4>5. CASE checkConnectionStatus(g) BY <2>1, <4>5, Zenon DEF checkConnectionStatus, Charge
      <4>6. CASE CallTimesOut(g) BY <2>1, <4>6, Zenon DEF CallTimesOut
      <4>7. CASE updateSourceRule(g) \/ CallFails(g) \/ GivesUp(g) \/ DestReplyHandshake(g)
        BY <4>7, Zenon DEF updateSourceRule, CallFails, GivesUp, DestReplyHandshake
      <4>. QED BY <3>3, <4>3, <4>4, <4>5, <4>6, <4>7, Zenon DEF SourceGateway
    <3>4. ASSUME NEW d \in DstGateways, DestinationGateway(d) PROVE faults = 0
      BY <3>4, Zenon DEF DestinationGateway, WatchDestination, updateDestinationRule
    <3>5. ASSUME NEW g \in Gateways, Crash(g) \/ HeartbeatExpires(g) \/ Restart(g) PROVE faults = 0
      BY <2>1, <3>5, Zenon DEF Crash, HeartbeatExpires, Restart
    <3>6. CASE DestReplyLate \/ Tick BY <3>6, Zenon DEF DestReplyLate, Tick
    <3>. QED BY <1>2, <3>2, <3>3, <3>4, <3>5, <3>6, Zenon DEF Next
  <2>3. Calm BY <2>2, Zenon DEF CalmInv
  <2>4. CASE Controller
    BY <2>3, <2>4, CalmController, CalmDrop, CalmAppend, CalmReady, Zenon DEF Controller
  <2>5. ASSUME NEW g \in SrcGateways, SourceGateway(g) PROVE Calm'
    BY <2>3, <2>5, CalmSourceGateway, CalmAnswer, Zenon DEF SourceGateway
  <2>6. ASSUME NEW d \in DstGateways, DestinationGateway(d) PROVE Calm'
    BY <2>3, <2>6, CalmDestinationGateway, Zenon
  <2>7. ~DestReplyLate
    <3>1. late = 0 BY <2>3, Zenon DEF Calm, Quiet
    <3>. QED BY <3>1 DEF DestReplyLate
  <2>8. ASSUME NEW g \in Gateways PROVE ~Crash(g) /\ ~HeartbeatExpires(g) /\ ~Restart(g)
    <3>1. gateway[g] = "up" /\ g \in Up BY <2>3, Zenon DEF Calm, Quiet, Up
    <3>2. "up" # "down" BY Zenon
    <3>. QED BY <2>1, <3>1, <3>2, Zenon DEF Crash, HeartbeatExpires, Restart
  <2>. QED BY <1>2, <2>3, <2>4, <2>5, <2>6, <2>7, <2>8, CalmTick, Zenon DEF Next
<1>. QED BY <1>1, <1>2, Zenon

LEMMA CalmSuffices == CalmInv => RollingIsSeamless
<1>. SUFFICES ASSUME Calm, NEW i \in DOMAIN srcDr.toks, NEW d \in DstGateways, ~Expired(srcDr.toks[i])
              PROVE  srcDr.toks[i].tok \in accepts[d]
  BY Zenon DEF CalmInv, RollingIsSeamless
<1>1. PICK j \in DOMAIN dstDr.toks :
        Same(dstDr.toks[j], srcDr.toks[i]) /\ DstGateways \subseteq dstDr.toks[j].eff
  BY Zenon DEF Calm, AllServed, Served
<1>2. d \in dstDr.toks[j].eff BY <1>1, Zenon
<1>. QED BY <1>1, <1>2, Zenon DEF Calm, Views, Same

\* Rolling never interrupts traffic: however many gateways there are and however long the
\* route rolls its tokens, without faults every token of the source that has not expired is
\* accepted by every gateway of the destination.  The source gets a token when all gateways
\* of the destination have it (checkEffectiveInstances), and the token that
\* postRollingDestinationDomainRoute displaces is two periods old by then.
THEOREM RollingSeamless == Spec => []RollingIsSeamless
<1>1. Spec => [](TypeInv /\ TokenInv /\ CalmInv)
  BY TypeInit, TypeNext, TokenInit, TokenNext, CalmInit, CalmNext, PTL DEF Spec
<1>. QED BY <1>1, CalmSuffices, PTL
=============================================================================
