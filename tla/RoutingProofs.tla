---------------------------- MODULE RoutingProofs ----------------------------
(***************************************************************************)
(* Proofs about Routing.  The invariant says where everything is: each     *)
(* variable at one CLP or in one migration, each access sent either in one *)
(* link or executed, each request executed either answered or its response *)
(* in one link; and that all direction tables lead to the variable.        *)
(***************************************************************************)
EXTENDS Routing, ClpTreeTheorems

\* What a message carries: an access, the response to one, or variables with
\* what was done to them.
Carries(m, t) ==
  \/ t[1] = "access" /\ m.kind = "access" /\ m.access = t[2]
  \/ t[1] = "response" /\ m.kind = "response" /\ m.access = t[2]
  \/ t[1] = "variable" /\ m.kind = "migration" /\ t[2] \in DOMAIN m.variables
  \/ t[1] = "value" /\ m.kind = "migration" /\ t[2] \in DOMAIN m.variables
       /\ m.variables[t[2]] = t[3]

Things ==
  {<<"access", m>> : m \in Accesses} \union {<<"response", m>> : m \in Requests}
    \union {<<"variable", v>> : v \in Variables}

\* Where t is in list s, and in which of the links lk.
Pos(s, t) == {k \in 1 .. Len(s) : Carries(s[k], t)}
In(lk, t) == {pair \in Neighbours : Pos(lk[pair], t) # {}}

AtMostOne(S) == \A k, l \in S : k = l

OneAtMost(lk, t) ==
  /\ AtMostOne(In(lk, t))
  /\ \A pair \in Neighbours : AtMostOne(Pos(lk[pair], t))

Stores == UNION {[S -> Seq(Accesses)] : S \in SUBSET Variables}

Messages ==
  [kind : {"access"}, access : Accesses, hops : Nat]
    \union [kind : {"response"}, access : Requests, hops : {0}]
    \union [kind : {"migration"}, variables : Stores]

TypedClps ==
  /\ direction \in [Clps -> [Variables -> Ports \union {"HERE"}]]
  /\ store \in [Clps -> Stores]
  /\ accesses \in [Variables -> [Ports -> Nat]]
  /\ hops \in [Variables -> [Ports -> Nat]]
  /\ load \in [Clps -> Nat]
  /\ moves \in [Variables -> Nat]

\* Requests and migrations go to CLPs.
Allowed(pair, m) ==
  /\ m.kind = "access" => pair[2] \in Clps
  /\ m.kind = "migration" => pair \in Clps \X Clps

TypedLinks(lk) ==
  /\ lk \in [Neighbours -> Seq(Messages)]
  /\ \A pair \in Neighbours : \A k \in 1 .. Len(lk[pair]) : Allowed(pair, lk[pair][k])

\* The requests on agent a's send list are its own, and different ones.
GoodList(a, ask, list) ==
  /\ Len(ask) <= MaxRequests[a]
  /\ \A k \in 1 .. Len(list) :
       list[k].agent = a /\ list[k].n \in 1 .. Len(ask) /\ list[k].var = ask[list[k].n].var
  /\ \A k, l \in 1 .. Len(list) : list[k] = list[l] => k = l

TypedAgents ==
  /\ asked \in [Agents -> Seq([var : Variables, era : Nat])]
  /\ waitingFor \in [Agents -> Numbers \union {0}]
  /\ sendList \in [Agents -> Seq(Requests)]
  /\ answered \in SUBSET Requests
  /\ \A a \in Agents : GoodList(a, asked[a], sendList[a])

HostsIn(st, v) == {c \in Clps : v \in DOMAIN st[c]}

\* A variable is at one CLP, or in one link and at none.
Placed(st, lk) ==
  \A v \in Variables :
    /\ AtMostOne(HostsIn(st, v))
    /\ HostsIn(st, v) = {} <=> In(lk, <<"variable", v>>) # {}

\* All tables lead there.
Directed(dir, st, lk) ==
  \A v \in Variables : \A c \in Clps :
    /\ \A h \in HostsIn(st, v) :
         dir[c][v] = IF c = h THEN "HERE" ELSE PortTo(c, NextClp(c, h))
    /\ \A pair \in In(lk, <<"variable", v>>) :
         dir[c][v] = PortTo(c, IF c = pair[1] THEN pair[2] ELSE NextClp(c, pair[1]))

\* Accesses have come by ports that the CLP has.
Counted(acc, st) ==
  \A v \in Variables :
    /\ \A h \in HostsIn(st, v) : \A p \in Ports \ PortsOf(h) : acc[v][p] = 0
    /\ HostsIn(st, v) = {} => acc[v] = NoAccess

\* What was done to v, wherever it is.
Holds(st, lk, v, val) ==
  \/ \E c \in HostsIn(st, v) : st[c][v] = val
  \/ In(lk, <<"value", v, val>>) # {}

FlightsIn(lk, v) ==
  UNION {{<<pair, i>> : i \in {j \in DOMAIN lk[pair] :
                                 /\ lk[pair][j].kind = "migration"
                                 /\ v \in DOMAIN lk[pair][j].variables}} : pair \in Neighbours}

ContentsOf(st, lk, v) ==
  IF HostsIn(st, v) # {} THEN st[CHOOSE c \in HostsIn(st, v) : TRUE][v]
  ELSE LET f == CHOOSE f \in FlightsIn(lk, v) : TRUE
       IN lk[f[1]][f[2]].variables[v]

ExecutedIn(st, lk) == UNION {ToSet(ContentsOf(st, lk, v)) : v \in Variables}

\* Each message sent is on its way or executed, not both; each request executed
\* is answered or its response is on its way, not both.
Conserved(executed, lk, sent, done) ==
  /\ executed \subseteq Accesses /\ sent \subseteq Accesses
  /\ \A m \in Accesses :
       m \in sent <=> m \in executed \/ In(lk, <<"access", m>>) # {}
  /\ \A m \in Accesses : m \notin executed \/ In(lk, <<"access", m>>) = {}
  /\ \A m \in Requests :
       m \in executed <=> m \in done \/ In(lk, <<"response", m>>) # {}
  /\ \A m \in Requests : m \notin done \/ In(lk, <<"response", m>>) = {}

\* The links without the i-th message of one, with one more message in one, and
\* with more messages in each.
Without(lk, p, i) == [lk EXCEPT ![p] = RemoveAt(@, i)]
With(lk, p, m)    == [lk EXCEPT ![p] = Append(@, m)]
Extended(lk, ms)  == [pair \in Neighbours |-> lk[pair] \o ms[pair]]

\* What is on its way is well-formed, and in one place.
GoodLinks(lk) == TypedLinks(lk) /\ \A t \in Things : OneAtMost(lk, t)

\* The same variables are on their way in the same links.
SameFlights(lk, lk2) ==
  \A v \in Variables :
    /\ In(lk2, <<"variable", v>>) = In(lk, <<"variable", v>>)
    /\ \A val : In(lk2, <<"value", v, val>>) = In(lk, <<"value", v, val>>)

IInv ==
  /\ TypedClps /\ TypedAgents /\ GoodLinks(link)
  /\ Placed(store, link)
  /\ Directed(direction, store, link)
  /\ Counted(accesses, store)
  /\ Conserved(ExecutedIn(store, link), link, Sent, answered)

-----------------------------------------------------------------------------
(* Links.                                                                  *)

\* What a message carries, by kind.
LEMMA CarriesFacts ==
  ASSUME NEW m
  PROVE  /\ \A x : Carries(m, <<"access", x>>) <=> m.kind = "access" /\ m.access = x
         /\ \A x : Carries(m, <<"response", x>>) <=> m.kind = "response" /\ m.access = x
         /\ \A v : Carries(m, <<"variable", v>>) <=>
                m.kind = "migration" /\ v \in DOMAIN m.variables
         /\ \A v, val : Carries(m, <<"value", v, val>>) <=>
                m.kind = "migration" /\ v \in DOMAIN m.variables /\ m.variables[v] = val
BY DEF Carries

\* A list from which a message is taken.
LEMMA PosRemove ==
  ASSUME NEW S, NEW s \in Seq(S), NEW i \in 1 .. Len(s), NEW t, AtMostOne(Pos(s, t))
  PROVE  /\ AtMostOne(Pos(RemoveAt(s, i), t))
         /\ Pos(RemoveAt(s, i), t) # {} <=> Pos(s, t) # {} /\ ~Carries(s[i], t)
<1> DEFINE r == RemoveAt(s, i)
<1>1. /\ r \in Seq(S) /\ Len(r) = Len(s) - 1 /\ Len(s) \in Nat
      /\ \A k \in 1 .. Len(s) - 1 : r[k] = IF k < i THEN s[k] ELSE s[k + 1]
  BY RemoveAtSeq, LenProperties
<1> DEFINE Old(k) == IF k < i THEN k ELSE k + 1
           New(k) == IF k < i THEN k ELSE k - 1
<1> HIDE DEF r
<1>2. \A k \in Pos(r, t) : Old(k) \in Pos(s, t) /\ Old(k) # i /\ k \in Int
  BY <1>1 DEF Pos
<1>3. \A k \in Pos(s, t) : k # i => New(k) \in Pos(r, t)
  <2> TAKE k \in Pos(s, t)
  <2> HAVE k # i
  <2>1. New(k) \in 1 .. Len(s) - 1
    BY <1>1 DEF Pos
  <2>2. r[New(k)] = s[k]
    BY <1>1, <2>1 DEF Pos
  <2> QED
    BY <1>1, <2>1, <2>2 DEF Pos
<1>4. i \in Pos(s, t) <=> Carries(s[i], t)
  BY DEF Pos
<1>5. AtMostOne(Pos(r, t))
  <2> SUFFICES ASSUME NEW k \in Pos(r, t), NEW l \in Pos(r, t) PROVE k = l
    BY DEF AtMostOne
  <2>1. Old(k) = Old(l) /\ k \in Int /\ l \in Int
    BY <1>2 DEF AtMostOne
  <2> QED
    BY <2>1
<1>6. Pos(r, t) # {} => Pos(s, t) # {} /\ ~Carries(s[i], t)
  BY <1>2, <1>4 DEF AtMostOne
<1>7. Pos(s, t) # {} /\ ~Carries(s[i], t) => Pos(r, t) # {}
  BY <1>3, <1>4
<1> QED
  BY <1>5, <1>6, <1>7 DEF r

\* Two lists of messages, one after the other.
LEMMA PosConcat ==
  ASSUME NEW S, NEW s \in Seq(S), NEW m \in Seq(S), NEW t
  PROVE  /\ Pos(s \o m, t) # {} <=> Pos(s, t) # {} \/ Pos(m, t) # {}
         /\ Pos(s, t) = {} /\ AtMostOne(Pos(m, t)) => AtMostOne(Pos(s \o m, t))
         /\ Pos(m, t) = {} /\ AtMostOne(Pos(s, t)) => AtMostOne(Pos(s \o m, t))
<1> DEFINE c == s \o m
<1>1. /\ c \in Seq(S) /\ Len(c) = Len(s) + Len(m) /\ Len(s) \in Nat /\ Len(m) \in Nat
      /\ \A k \in 1 .. Len(s) + Len(m) : c[k] = IF k <= Len(s) THEN s[k] ELSE m[k - Len(s)]
  BY ConcatProperties, LenProperties
<1> HIDE DEF c
<1>2. \A k \in Pos(s, t) : k \in Pos(c, t)
  BY <1>1 DEF Pos
<1>3. \A k \in Pos(m, t) : k + Len(s) \in Pos(c, t)
  <2> TAKE k \in Pos(m, t)
  <2>1. k \in 1 .. Len(m) /\ Carries(m[k], t)
    BY DEF Pos
  <2>2. k + Len(s) \in 1 .. Len(s) + Len(m) /\ ~(k + Len(s) <= Len(s))
        /\ (k + Len(s)) - Len(s) = k
    BY <1>1, <2>1
  <2>3. c[k + Len(s)] = m[k]
    BY <1>1, <2>2
  <2> QED
    BY <1>1, <2>1, <2>2, <2>3 DEF Pos
<1>4. \A k \in Pos(c, t) : k \in Int /\ (k \in Pos(s, t) \/ k - Len(s) \in Pos(m, t))
  <2> TAKE k \in Pos(c, t)
  <2>1. k \in 1 .. Len(s) + Len(m) /\ Carries(c[k], t)
    BY <1>1 DEF Pos
  <2>2. CASE k <= Len(s)
    BY <1>1, <2>1, <2>2 DEF Pos
  <2>3. CASE ~(k <= Len(s))
    <3>1. k - Len(s) \in 1 .. Len(m)
      BY <1>1, <2>1, <2>3
    <3> QED
      BY <1>1, <2>1, <2>3, <3>1 DEF Pos
  <2> QED
    BY <2>2, <2>3
<1>5. Pos(c, t) # {} <=> Pos(s, t) # {} \/ Pos(m, t) # {}
  BY <1>2, <1>3, <1>4
<1>6. ASSUME Pos(s, t) = {}, AtMostOne(Pos(m, t)) PROVE AtMostOne(Pos(c, t))
  <2> SUFFICES ASSUME NEW k \in Pos(c, t), NEW l \in Pos(c, t) PROVE k = l
    BY DEF AtMostOne
  <2>1. k - Len(s) = l - Len(s) /\ k \in Int /\ l \in Int
    BY <1>4, <1>6 DEF AtMostOne
  <2> QED
    BY <1>1, <2>1
<1>7. ASSUME Pos(m, t) = {}, AtMostOne(Pos(s, t)) PROVE AtMostOne(Pos(c, t))
  BY <1>4, <1>7 DEF AtMostOne
<1> QED
  BY <1>5, <1>6, <1>7 DEF c

\* A message is taken from a link: what it carried is in no link any more, and
\* everything else is where it was.
LEMMA RemoveLink ==
  ASSUME NEW S, NEW f \in [Neighbours -> Seq(S)], NEW p \in Neighbours,
         NEW i \in 1 .. Len(f[p]), NEW t, OneAtMost(f, t)
  PROVE  /\ Without(f, p, i) \in [Neighbours -> Seq(S)]
         /\ OneAtMost(Without(f, p, i), t)
         /\ Carries(f[p][i], t) => In(f, t) = {p} /\ In(Without(f, p, i), t) = {}
         /\ ~Carries(f[p][i], t) => In(Without(f, p, i), t) = In(f, t)
<1> DEFINE g == Without(f, p, i)
<1>1. f[p] \in Seq(S) /\ RemoveAt(f[p], i) \in Seq(S)
  BY RemoveAtSeq
<1>2. /\ g \in [Neighbours -> Seq(S)] /\ g[p] = RemoveAt(f[p], i)
      /\ \A q \in Neighbours : q # p => g[q] = f[q]
  BY <1>1 DEF Without
<1>3. /\ AtMostOne(Pos(g[p], t))
      /\ Pos(g[p], t) # {} <=> Pos(f[p], t) # {} /\ ~Carries(f[p][i], t)
  BY SMTT(30), <1>1, <1>2, PosRemove DEF OneAtMost
<1>4. Carries(f[p][i], t) => p \in In(f, t)
  <2>1. Carries(f[p][i], t) => i \in Pos(f[p], t)
    BY DEF Pos
  <2> QED
    BY <2>1 DEF In
<1> HIDE DEF g
<1>5. ASSUME Carries(f[p][i], t) PROVE In(f, t) = {p} /\ In(g, t) = {}
  <2>1. p \in In(f, t) /\ AtMostOne(In(f, t))
    BY <1>4, <1>5 DEF OneAtMost
  <2>2. In(f, t) = {p}
    BY <2>1 DEF AtMostOne
  <2>3. \A q \in Neighbours : Pos(g[q], t) = {}
    BY <1>2, <1>3, <1>5, <2>2 DEF In
  <2> QED
    BY <2>2, <2>3 DEF In
<1>6. ASSUME ~Carries(f[p][i], t) PROVE In(g, t) = In(f, t)
  BY <1>2, <1>3, <1>6 DEF In
<1>7. OneAtMost(g, t)
  <2>1. AtMostOne(In(g, t))
    BY <1>5, <1>6 DEF OneAtMost, AtMostOne
  <2>2. \A q \in Neighbours : AtMostOne(Pos(g[q], t))
    BY <1>2, <1>3 DEF OneAtMost
  <2> QED
    BY <2>1, <2>2 DEF OneAtMost
<1> QED
  BY <1>2, <1>5, <1>6, <1>7 DEF g

\* Messages are put into links.
LEMMA ExtendLinks ==
  ASSUME NEW S, NEW f \in [Neighbours -> Seq(S)], NEW ms \in [Neighbours -> Seq(S)], NEW t
  PROVE  /\ Extended(f, ms) \in [Neighbours -> Seq(S)]
         /\ In(Extended(f, ms), t) = In(f, t) \union In(ms, t)
         /\ OneAtMost(f, t) /\ In(ms, t) = {} => OneAtMost(Extended(f, ms), t)
         /\ OneAtMost(ms, t) /\ In(f, t) = {} => OneAtMost(Extended(f, ms), t)
<1> DEFINE g == Extended(f, ms)
<1>1. \A pair \in Neighbours : f[pair] \in Seq(S) /\ ms[pair] \in Seq(S)
  OBVIOUS
<1>2. /\ \A pair \in Neighbours : g[pair] = f[pair] \o ms[pair]
      /\ \A pair \in Neighbours : g[pair] \in Seq(S)
  BY <1>1, ConcatProperties DEF Extended
<1>3. g \in [Neighbours -> Seq(S)]
  BY <1>2 DEF Extended
<1> HIDE DEF g
<1>a. ASSUME NEW pair \in Neighbours
      PROVE  /\ Pos(g[pair], t) # {} <=> Pos(f[pair], t) # {} \/ Pos(ms[pair], t) # {}
             /\ Pos(f[pair], t) = {} /\ AtMostOne(Pos(ms[pair], t)) => AtMostOne(Pos(g[pair], t))
             /\ Pos(ms[pair], t) = {} /\ AtMostOne(Pos(f[pair], t)) => AtMostOne(Pos(g[pair], t))
  <2>1. f[pair] \in Seq(S) /\ ms[pair] \in Seq(S) /\ g[pair] = f[pair] \o ms[pair]
    BY <1>1, <1>2
  <2> QED
    BY <2>1, PosConcat, ZenonT(30)
<1>4. In(g, t) = In(f, t) \union In(ms, t)
  BY <1>a DEF In
<1>5. ASSUME OneAtMost(f, t), In(ms, t) = {} PROVE OneAtMost(g, t)
  <2>1. \A pair \in Neighbours : Pos(ms[pair], t) = {}
    BY <1>5 DEF In
  <2>2. \A pair \in Neighbours : AtMostOne(Pos(g[pair], t))
    BY <1>5, <1>a, <2>1 DEF OneAtMost
  <2> QED
    BY <1>4, <1>5, <2>2 DEF OneAtMost
<1>6. ASSUME OneAtMost(ms, t), In(f, t) = {} PROVE OneAtMost(g, t)
  <2>1. \A pair \in Neighbours : Pos(f[pair], t) = {}
    BY <1>6 DEF In
  <2>2. \A pair \in Neighbours : AtMostOne(Pos(g[pair], t))
    BY <1>6, <1>a, <2>1 DEF OneAtMost
  <2> QED
    BY <1>4, <1>6, <2>2 DEF OneAtMost
<1> QED
  BY <1>3, <1>4, <1>5, <1>6 DEF g

\* One message is put into a link.
LEMMA PutLink ==
  ASSUME NEW S, NEW f \in [Neighbours -> Seq(S)], NEW p \in Neighbours, NEW m \in S, NEW t
  PROVE  /\ With(f, p, m) \in [Neighbours -> Seq(S)]
         /\ Carries(m, t) => In(With(f, p, m), t) = In(f, t) \union {p}
         /\ ~Carries(m, t) => In(With(f, p, m), t) = In(f, t)
         /\ OneAtMost(f, t) /\ (Carries(m, t) => In(f, t) = {}) => OneAtMost(With(f, p, m), t)
<1> DEFINE g == With(f, p, m)
           ms == [pair \in Neighbours |-> IF pair = p THEN <<m>> ELSE <<>>]
           h == Extended(f, ms)
<1>1. ms \in [Neighbours -> Seq(S)] /\ \A pair \in Neighbours : f[pair] \in Seq(S)
  OBVIOUS
<1>2. g = h
  <2>1. Append(f[p], m) = f[p] \o <<m>>
    BY <1>1, AppendIsConcat
  <2>2. \A pair \in Neighbours : f[pair] \o <<>> = f[pair]
    BY <1>1, ConcatEmptySeq
  <2>3. \A pair \in Neighbours : g[pair] = h[pair]
    BY <2>1, <2>2 DEF With, Extended
  <2>4. DOMAIN g = Neighbours /\ g = [pair \in Neighbours |-> g[pair]]
    BY DEF With
  <2>5. h = [pair \in Neighbours |-> h[pair]]
    BY DEF Extended
  <2> HIDE DEF g, h
  <2> QED
    BY <2>3, <2>4, <2>5
<1>3. Pos(<<>>, t) = {} /\ Pos(<<m>>, t) = IF Carries(m, t) THEN {1} ELSE {}
  BY DEF Pos
<1>4. In(ms, t) = IF Carries(m, t) THEN {p} ELSE {}
  BY <1>3 DEF In
<1>5. OneAtMost(ms, t)
  <2>1. AtMostOne(In(ms, t))
    BY <1>4 DEF AtMostOne
  <2>2. \A pair \in Neighbours : AtMostOne(Pos(ms[pair], t))
    BY <1>3 DEF AtMostOne
  <2> HIDE DEF ms
  <2> QED
    BY <2>1, <2>2 DEF OneAtMost
<1>6. /\ h \in [Neighbours -> Seq(S)]
      /\ In(h, t) = In(f, t) \union In(ms, t)
      /\ OneAtMost(f, t) /\ In(ms, t) = {} => OneAtMost(h, t)
      /\ OneAtMost(ms, t) /\ In(f, t) = {} => OneAtMost(h, t)
  <2> HIDE DEF ms
  <2> QED
    BY <1>1, ExtendLinks
<1> HIDE DEF g, h, ms
<1> QED
  BY <1>2, <1>4, <1>5, <1>6 DEF g

\* A value travels with its variable.
LEMMA ValueOnce ==
  ASSUME NEW lk, NEW v, NEW val, OneAtMost(lk, <<"variable", v>>)
  PROVE  /\ OneAtMost(lk, <<"value", v, val>>)
         /\ In(lk, <<"value", v, val>>) \subseteq In(lk, <<"variable", v>>)
<1>1. \A pair \in Neighbours :
        Pos(lk[pair], <<"value", v, val>>) \subseteq Pos(lk[pair], <<"variable", v>>)
  BY CarriesFacts DEF Pos
<1>2. In(lk, <<"value", v, val>>) \subseteq In(lk, <<"variable", v>>)
  BY <1>1 DEF In
<1> QED
  BY <1>1, <1>2 DEF OneAtMost, AtMostOne

\* What can be a thing, and what can be a message.
LEMMA ThingFacts ==
  /\ \A m \in Accesses : <<"access", m>> \in Things
  /\ \A m \in Requests : <<"response", m>> \in Things
  /\ \A v \in Variables : <<"variable", v>> \in Things
  /\ \A m \in Messages :
       /\ m.kind \in {"access", "response", "migration"}
       /\ m.kind = "access" => m.access \in Accesses /\ m.hops \in Nat
       /\ m.kind = "response" => m.access \in Requests
       /\ m.kind = "migration" => m.variables \in Stores
  /\ \A m \in Accesses : \A h \in Nat : Carried(m, h) \in Messages
  /\ \A m \in Requests : Response(m) \in Messages
  /\ \A vals \in Stores : Migration(vals) \in Messages
  /\ Requests \subseteq Accesses
BY DEF Things, Messages, Accesses, Carried, Response, Migration

\* An access or a response is put into a link.
LEMMA Sending ==
  ASSUME NEW lk, GoodLinks(lk), NEW p \in Neighbours, NEW m \in Messages,
         Allowed(p, m), m.kind # "migration", In(lk, <<m.kind, m.access>>) = {}
  PROVE  /\ GoodLinks(With(lk, p, m)) /\ SameFlights(lk, With(lk, p, m))
         /\ \A x : In(With(lk, p, m), <<"access", x>>) =
              IF m.kind = "access" /\ m.access = x THEN {p} ELSE In(lk, <<"access", x>>)
         /\ \A x : In(With(lk, p, m), <<"response", x>>) =
              IF m.kind = "response" /\ m.access = x THEN {p} ELSE In(lk, <<"response", x>>)
<1> DEFINE lk2 == With(lk, p, m)
<1>1. lk \in [Neighbours -> Seq(Messages)]
  BY DEF GoodLinks, TypedLinks
<1>2. m.kind \in {"access", "response"}
  BY ThingFacts
<1>3. ASSUME NEW t
      PROVE  /\ lk2 \in [Neighbours -> Seq(Messages)]
             /\ Carries(m, t) => In(lk2, t) = In(lk, t) \union {p}
             /\ ~Carries(m, t) => In(lk2, t) = In(lk, t)
             /\ OneAtMost(lk, t) /\ (Carries(m, t) => In(lk, t) = {}) => OneAtMost(lk2, t)
  BY <1>1, PutLink
<1>4. TypedLinks(lk2)
  <2>1. lk[p] \in Seq(Messages)
    BY <1>1
  <2>2. /\ Len(Append(lk[p], m)) = Len(lk[p]) + 1 /\ Len(lk[p]) \in Nat
        /\ \A k \in 1 .. Len(lk[p]) : Append(lk[p], m)[k] = lk[p][k]
        /\ Append(lk[p], m)[Len(lk[p]) + 1] = m
    BY <2>1, AppendProperties, LenProperties
  <2>3. lk2[p] = Append(lk[p], m) /\ \A q \in Neighbours : q # p => lk2[q] = lk[q]
    BY <1>1 DEF With
  <2> HIDE DEF lk2
  <2>4. \A k \in 1 .. Len(lk2[p]) : Allowed(p, lk2[p][k])
    BY <2>2, <2>3 DEF GoodLinks, TypedLinks
  <2> QED
    BY <1>3, <2>3, <2>4 DEF GoodLinks, TypedLinks
<1> HIDE DEF lk2
<1>5. \A t \in Things : OneAtMost(lk2, t)
  <2> SUFFICES ASSUME NEW t \in Things PROVE OneAtMost(lk2, t)
    OBVIOUS
  <2>1. ASSUME Carries(m, t) PROVE In(lk, t) = {}
    <3>1. CASE \E x \in Accesses : t = <<"access", x>>
      BY <1>2, <2>1, <3>1, CarriesFacts
    <3>2. CASE \E x \in Requests : t = <<"response", x>>
      BY <1>2, <2>1, <3>2, CarriesFacts
    <3>3. CASE \E v \in Variables : t = <<"variable", v>>
      BY <1>2, <2>1, <3>3, CarriesFacts
    <3> QED
      BY <3>1, <3>2, <3>3 DEF Things
  <2>2. OneAtMost(lk, t)
    BY DEF GoodLinks
  <2> QED
    BY <1>3, <2>1, <2>2
<1>6. SameFlights(lk, lk2)
  BY <1>2, <1>3, CarriesFacts DEF SameFlights
<1>7. ASSUME NEW x
      PROVE  In(lk2, <<"access", x>>) =
               IF m.kind = "access" /\ m.access = x THEN {p} ELSE In(lk, <<"access", x>>)
  <2>1. Carries(m, <<"access", x>>) <=> m.kind = "access" /\ m.access = x
    BY CarriesFacts
  <2> QED
    BY <1>3, <2>1
<1>8. ASSUME NEW x
      PROVE  In(lk2, <<"response", x>>) =
               IF m.kind = "response" /\ m.access = x THEN {p} ELSE In(lk, <<"response", x>>)
  <2>1. Carries(m, <<"response", x>>) <=> m.kind = "response" /\ m.access = x
    BY CarriesFacts
  <2> QED
    BY <1>3, <2>1
<1> QED
  BY <1>4, <1>5, <1>6, <1>7, <1>8 DEF GoodLinks, lk2

\* Any message is taken from a link.
LEMMA TakingAny ==
  ASSUME NEW lk, GoodLinks(lk), NEW p \in Neighbours, NEW i \in 1 .. Len(lk[p])
  PROVE  /\ GoodLinks(Without(lk, p, i))
         /\ lk[p][i] \in Messages /\ Allowed(p, lk[p][i])
         /\ \A t : OneAtMost(lk, t) =>
              /\ Carries(lk[p][i], t) => In(lk, t) = {p} /\ In(Without(lk, p, i), t) = {}
              /\ ~Carries(lk[p][i], t) => In(Without(lk, p, i), t) = In(lk, t)
<1> DEFINE lk2 == Without(lk, p, i)
<1>1. lk \in [Neighbours -> Seq(Messages)] /\ lk[p] \in Seq(Messages)
  BY DEF GoodLinks, TypedLinks
<1>2. lk[p][i] \in Messages /\ Allowed(p, lk[p][i])
  BY <1>1, ElementOfSeq DEF GoodLinks, TypedLinks
<1>3. ASSUME NEW t, OneAtMost(lk, t)
      PROVE  /\ lk2 \in [Neighbours -> Seq(Messages)]
             /\ OneAtMost(lk2, t)
             /\ Carries(lk[p][i], t) => In(lk, t) = {p} /\ In(lk2, t) = {}
             /\ ~Carries(lk[p][i], t) => In(lk2, t) = In(lk, t)
  BY <1>1, <1>3, RemoveLink
<1>4. TypedLinks(lk2)
  <2>1. /\ RemoveAt(lk[p], i) \in Seq(Messages) /\ Len(lk[p]) \in Nat
        /\ Len(RemoveAt(lk[p], i)) = Len(lk[p]) - 1
        /\ \A k \in 1 .. Len(lk[p]) - 1 :
             RemoveAt(lk[p], i)[k] = IF k < i THEN lk[p][k] ELSE lk[p][k + 1]
    BY <1>1, RemoveAtSeq, LenProperties
  <2>2. /\ lk2[p] = RemoveAt(lk[p], i) /\ \A q \in Neighbours : q # p => lk2[q] = lk[q]
        /\ lk2 \in [Neighbours -> Seq(Messages)]
    BY <1>1, <2>1 DEF Without
  <2> HIDE DEF lk2
  <2>3. \A k \in 1 .. Len(lk[p]) : Allowed(p, lk[p][k])
    BY DEF GoodLinks, TypedLinks
  <2>4. \A k \in 1 .. Len(lk2[p]) : Allowed(p, lk2[p][k])
    BY SMTT(30), <2>1, <2>2, <2>3
  <2> QED
    BY <2>2, <2>4 DEF GoodLinks, TypedLinks
<1> QED
  BY <1>2, <1>3, <1>4 DEF GoodLinks

\* An access or a response is taken from a link.
LEMMA Taking ==
  ASSUME NEW lk, GoodLinks(lk), NEW p \in Neighbours, NEW i \in 1 .. Len(lk[p]),
         lk[p][i].kind # "migration"
  PROVE  LET lk2 == Without(lk, p, i)
             m   == lk[p][i]
         IN /\ GoodLinks(lk2) /\ SameFlights(lk, lk2)
            /\ m \in Messages /\ Allowed(p, m) /\ m.kind \in {"access", "response"}
            /\ In(lk, <<m.kind, m.access>>) = {p}
            /\ \A x \in Accesses : In(lk2, <<"access", x>>) =
                 IF m.kind = "access" /\ m.access = x THEN {} ELSE In(lk, <<"access", x>>)
            /\ \A x \in Requests : In(lk2, <<"response", x>>) =
                 IF m.kind = "response" /\ m.access = x THEN {} ELSE In(lk, <<"response", x>>)
<1> DEFINE lk2 == Without(lk, p, i)
           m   == lk[p][i]
<1>1. /\ GoodLinks(lk2) /\ m \in Messages /\ Allowed(p, m)
      /\ \A t : OneAtMost(lk, t) =>
           /\ Carries(m, t) => In(lk, t) = {p} /\ In(lk2, t) = {}
           /\ ~Carries(m, t) => In(lk2, t) = In(lk, t)
  BY TakingAny
<1> HIDE DEF lk2
<1>2. m.kind \in {"access", "response"} /\ m.kind # "migration"
  BY <1>1, ThingFacts
<1> HIDE DEF m
<1>3. \A t \in Things : OneAtMost(lk, t)
  BY DEF GoodLinks
<1>4. SameFlights(lk, lk2)
  <2> SUFFICES ASSUME NEW v \in Variables, NEW val
               PROVE  /\ In(lk2, <<"variable", v>>) = In(lk, <<"variable", v>>)
                      /\ In(lk2, <<"value", v, val>>) = In(lk, <<"value", v, val>>)
    BY DEF SameFlights
  <2>1. OneAtMost(lk, <<"variable", v>>) /\ OneAtMost(lk, <<"value", v, val>>)
    BY <1>3, ThingFacts, ValueOnce
  <2>2. ~Carries(m, <<"variable", v>>) /\ ~Carries(m, <<"value", v, val>>)
    BY <1>2, CarriesFacts
  <2> QED
    BY <1>1, <2>1, <2>2
<1>5. ASSUME NEW x \in Accesses
      PROVE  /\ m.kind = "access" /\ m.access = x =>
                  In(lk, <<"access", x>>) = {p} /\ In(lk2, <<"access", x>>) = {}
             /\ ~(m.kind = "access" /\ m.access = x) =>
                  In(lk2, <<"access", x>>) = In(lk, <<"access", x>>)
  <2>1. OneAtMost(lk, <<"access", x>>)
    BY <1>3, ThingFacts
  <2>2. Carries(m, <<"access", x>>) <=> m.kind = "access" /\ m.access = x
    BY CarriesFacts
  <2> QED
    BY <1>1, <2>1, <2>2
<1>6. ASSUME NEW x \in Requests
      PROVE  /\ m.kind = "response" /\ m.access = x =>
                  In(lk, <<"response", x>>) = {p} /\ In(lk2, <<"response", x>>) = {}
             /\ ~(m.kind = "response" /\ m.access = x) =>
                  In(lk2, <<"response", x>>) = In(lk, <<"response", x>>)
  <2>1. OneAtMost(lk, <<"response", x>>)
    BY <1>3, ThingFacts
  <2>2. Carries(m, <<"response", x>>) <=> m.kind = "response" /\ m.access = x
    BY CarriesFacts
  <2> QED
    BY <1>1, <2>1, <2>2
<1>7. In(lk, <<m.kind, m.access>>) = {p}
  BY <1>1, <1>2, <1>5, <1>6, ThingFacts
<1> QED
  BY <1>1, <1>2, <1>4, <1>5, <1>6, <1>7 DEF m, lk2

-----------------------------------------------------------------------------
(* What was done to a variable.                                            *)

\* The places of migrations with v.
LEMMA FlightFacts ==
  ASSUME NEW S, NEW lk \in [Neighbours -> Seq(S)], NEW v
  PROVE  /\ \A f \in FlightsIn(lk, v) : /\ f = <<f[1], f[2]>> /\ f[1] \in Neighbours
                                        /\ f[2] \in Pos(lk[f[1]], <<"variable", v>>)
         /\ \A pair \in Neighbours : \A i \in Pos(lk[pair], <<"variable", v>>) :
              <<pair, i>> \in FlightsIn(lk, v)
<1>1. ASSUME NEW pair \in Neighbours
      PROVE  {j \in DOMAIN lk[pair] : lk[pair][j].kind = "migration" /\ v \in DOMAIN lk[pair][j].variables}
               = Pos(lk[pair], <<"variable", v>>)
  <2>1. DOMAIN lk[pair] = 1 .. Len(lk[pair])
    BY LenProperties
  <2> QED
    BY <2>1, CarriesFacts DEF Pos
<1>2. ASSUME NEW f \in FlightsIn(lk, v)
      PROVE  /\ f = <<f[1], f[2]>> /\ f[1] \in Neighbours
             /\ f[2] \in Pos(lk[f[1]], <<"variable", v>>)
  <2>1. PICK pair \in Neighbours :
          f \in {<<pair, i>> : i \in {j \in DOMAIN lk[pair] :
                    lk[pair][j].kind = "migration" /\ v \in DOMAIN lk[pair][j].variables}}
    BY Zenon DEF FlightsIn
  <2>2. PICK i \in Pos(lk[pair], <<"variable", v>>) : f = <<pair, i>>
    BY <1>1, <2>1
  <2> QED
    BY <2>2
<1>3. ASSUME NEW pair \in Neighbours, NEW i \in Pos(lk[pair], <<"variable", v>>)
      PROVE  <<pair, i>> \in FlightsIn(lk, v)
  <2>1. <<pair, i>> \in {<<pair, k>> : k \in {j \in DOMAIN lk[pair] :
                    lk[pair][j].kind = "migration" /\ v \in DOMAIN lk[pair][j].variables}}
    BY <1>1
  <2> QED
    BY <2>1, Zenon DEF FlightsIn
<1> QED
  BY <1>2, <1>3

\* What ContentsOf says is what was done to v, if v is in one place.
LEMMA ContentsIs ==
  ASSUME NEW st, NEW S, NEW lk \in [Neighbours -> Seq(S)], NEW v \in Variables,
         Placed(st, lk), OneAtMost(lk, <<"variable", v>>)
  PROVE  /\ Holds(st, lk, v, ContentsOf(st, lk, v))
         /\ \A val : Holds(st, lk, v, val) => val = ContentsOf(st, lk, v)
<1>1. /\ AtMostOne(HostsIn(st, v))
      /\ HostsIn(st, v) = {} <=> In(lk, <<"variable", v>>) # {}
  BY DEF Placed
<1>2. CASE HostsIn(st, v) # {}
  <2> DEFINE h == CHOOSE c \in HostsIn(st, v) : TRUE
  <2>1. h \in HostsIn(st, v) /\ \A c \in HostsIn(st, v) : c = h
    BY <1>1, <1>2 DEF AtMostOne
  <2>2. ContentsOf(st, lk, v) = st[h][v]
    BY <1>2 DEF ContentsOf
  <2> HIDE DEF h
  <2>3. \A val : In(lk, <<"value", v, val>>) = {}
    BY <1>1, <1>2, ValueOnce
  <2> QED
    BY <2>1, <2>2, <2>3 DEF Holds
<1>3. CASE HostsIn(st, v) = {}
  <2> DEFINE f == CHOOSE f \in FlightsIn(lk, v) : TRUE
  <2>1. FlightsIn(lk, v) # {}
    BY ZenonT(60), <1>1, <1>3, FlightFacts DEF In
  <2>2. f[1] \in Neighbours /\ f[2] \in Pos(lk[f[1]], <<"variable", v>>)
    BY <2>1, FlightFacts
  <2>3. ContentsOf(st, lk, v) = lk[f[1]][f[2]].variables[v]
    BY <1>3 DEF ContentsOf
  <2> HIDE DEF f
  <2> DEFINE val == lk[f[1]][f[2]].variables[v]
  <2>4. f[2] \in Pos(lk[f[1]], <<"value", v, val>>)
    BY <2>2, CarriesFacts DEF Pos
  <2>5. Holds(st, lk, v, val)
    BY <2>2, <2>4 DEF Holds, In
  <2>6. ASSUME NEW w, Holds(st, lk, v, w) PROVE w = val
    <3>1. In(lk, <<"value", v, w>>) # {}
      BY <1>3, <2>6 DEF Holds
    <3>2. PICK pair \in Neighbours : Pos(lk[pair], <<"value", v, w>>) # {}
      BY <3>1 DEF In
    <3>3. PICK k \in Pos(lk[pair], <<"value", v, w>>) : TRUE
      BY <3>2
    <3>4. k \in Pos(lk[pair], <<"variable", v>>) /\ lk[pair][k].variables[v] = w
      BY <3>3, CarriesFacts DEF Pos
    <3>5. pair = f[1]
      BY <2>2, <3>2, <3>4 DEF OneAtMost, AtMostOne, In
    <3>6. k = f[2]
      BY <2>2, <3>4, <3>5 DEF OneAtMost, AtMostOne
    <3> QED
      BY <3>4, <3>5, <3>6
  <2> QED
    BY <2>3, <2>5, <2>6
<1> QED
  BY <1>2, <1>3

\* Two steps that disturb no variable.
LEMMA SameFlightsTwice ==
  ASSUME NEW lk, NEW mid, NEW lk2, SameFlights(lk, mid), SameFlights(mid, lk2)
  PROVE  SameFlights(lk, lk2)
BY Zenon DEF SameFlights

\* Where messages come and go that are no migrations, variables stay ...
LEMMA Undisturbed ==
  ASSUME NEW st, NEW dir, NEW lk, NEW lk2, SameFlights(lk, lk2),
         Placed(st, lk), Directed(dir, st, lk)
  PROVE  Placed(st, lk2) /\ Directed(dir, st, lk2)
<1>1. Placed(st, lk2)
  BY DEF SameFlights, Placed
<1>2. Directed(dir, st, lk2)
  BY DEF SameFlights, Directed
<1> QED
  BY <1>1, <1>2

\* ... and nothing is done to them.
LEMMA ContentsKept ==
  ASSUME NEW st, NEW lk, NEW lk2, GoodLinks(lk), GoodLinks(lk2), SameFlights(lk, lk2),
         Placed(st, lk)
  PROVE  /\ \A v \in Variables : ContentsOf(st, lk2, v) = ContentsOf(st, lk, v)
         /\ ExecutedIn(st, lk2) = ExecutedIn(st, lk)
<1>1. Placed(st, lk2)
  BY DEF SameFlights, Placed
<1>2. ASSUME NEW v \in Variables PROVE ContentsOf(st, lk2, v) = ContentsOf(st, lk, v)
  <2>1. /\ lk \in [Neighbours -> Seq(Messages)] /\ OneAtMost(lk, <<"variable", v>>)
        /\ lk2 \in [Neighbours -> Seq(Messages)] /\ OneAtMost(lk2, <<"variable", v>>)
    BY ThingFacts DEF GoodLinks, TypedLinks
  <2>2. \A val : Holds(st, lk, v, val) => Holds(st, lk2, v, val)
    BY DEF Holds, SameFlights
  <2>3. Holds(st, lk2, v, ContentsOf(st, lk, v))
    BY <2>1, <2>2, ContentsIs
  <2> QED
    BY <1>1, <2>1, <2>3, ContentsIs
<1>3. ExecutedIn(st, lk2) = ExecutedIn(st, lk)
  BY <1>2 DEF ExecutedIn
<1> QED
  BY <1>2, <1>3

\* An access is passed on: it is taken from one link and put into another.
LEMMA Passing ==
  ASSUME NEW lk, GoodLinks(lk), NEW p \in Neighbours, NEW i \in 1 .. Len(lk[p]),
         NEW r \in Neighbours, NEW m \in Messages, Allowed(r, m),
         lk[p][i].kind # "migration", m.kind = lk[p][i].kind, m.access = lk[p][i].access
  PROVE  LET lk2 == With(Without(lk, p, i), r, m)
         IN /\ GoodLinks(lk2) /\ SameFlights(lk, lk2)
            /\ \A x \in Accesses : In(lk2, <<"access", x>>) # {} <=> In(lk, <<"access", x>>) # {}
            /\ \A x \in Requests : In(lk2, <<"response", x>>) # {} <=> In(lk, <<"response", x>>) # {}
<1> DEFINE mid == Without(lk, p, i)
           lk2 == With(mid, r, m)
           old == lk[p][i]
<1>1. /\ GoodLinks(mid) /\ SameFlights(lk, mid)
      /\ old \in Messages /\ old.kind \in {"access", "response"}
      /\ In(lk, <<old.kind, old.access>>) = {p}
      /\ \A x \in Accesses : In(mid, <<"access", x>>) =
           IF old.kind = "access" /\ old.access = x THEN {} ELSE In(lk, <<"access", x>>)
      /\ \A x \in Requests : In(mid, <<"response", x>>) =
           IF old.kind = "response" /\ old.access = x THEN {} ELSE In(lk, <<"response", x>>)
  BY Taking
<1> HIDE DEF mid, old
<1>2. m.kind = old.kind /\ m.access = old.access /\ m.kind # "migration"
  BY DEF old
<1>3. In(mid, <<m.kind, m.access>>) = {}
  BY <1>1, <1>2, ThingFacts
<1>4. /\ GoodLinks(lk2) /\ SameFlights(mid, lk2)
      /\ \A x : In(lk2, <<"access", x>>) =
           IF m.kind = "access" /\ m.access = x THEN {r} ELSE In(mid, <<"access", x>>)
      /\ \A x : In(lk2, <<"response", x>>) =
           IF m.kind = "response" /\ m.access = x THEN {r} ELSE In(mid, <<"response", x>>)
  <2>1. m.kind # "migration"
    BY <1>2
  <2> HIDE DEF lk2
  <2> QED
    BY ZenonT(60), <1>1, <1>3, <2>1, Sending DEF lk2
<1> HIDE DEF lk2
<1>5. SameFlights(lk, lk2)
  BY <1>1, <1>4, SameFlightsTwice
<1> QED
  BY <1>1, <1>2, <1>4, <1>5 DEF lk2, mid

-----------------------------------------------------------------------------
(* The actions of the CLPs.                                                *)

\* A connection is a pair.
LEMMA NeighbourPair ==
  ASSUME NEW pair \in Neighbours
  PROVE  pair = <<pair[1], pair[2]>>
BY DEF Neighbours

\* The direction of a variable leads to a CLP, or the variable is here.
LEMMA Way ==
  ASSUME NEW dir, NEW st, NEW lk, GoodLinks(lk), Placed(st, lk), Directed(dir, st, lk),
         NEW c \in Clps, NEW v \in Variables
  PROVE  /\ dir[c][v] = "HERE" <=> c \in HostsIn(st, v)
         /\ dir[c][v] # "HERE" =>
              <<c, RankOf(c, dir[c][v])>> \in Neighbours /\ RankOf(c, dir[c][v]) \in Clps
<1>1. ASSUME NEW d \in Clps, <<c, d>> \in Neighbours
      PROVE  PortTo(c, d) # "HERE" /\ RankOf(c, PortTo(c, d)) = d
  BY <1>1, PortToNeighbour, PortRank DEF Ports
<1>2. CASE HostsIn(st, v) # {}
  <2>1. PICK h \in Clps : h \in HostsIn(st, v)
    BY <1>2 DEF HostsIn
  <2>2. dir[c][v] = IF c = h THEN "HERE" ELSE PortTo(c, NextClp(c, h))
    BY ZenonT(60), <2>1 DEF Directed
  <2>3. \A d \in HostsIn(st, v) : d = h
    BY <2>1 DEF Placed, AtMostOne
  <2>4. c # h => NextClp(c, h) \in Clps /\ <<c, NextClp(c, h)>> \in Neighbours
    BY <2>1, NextIsNeighbour
  <2> QED
    BY <1>1, <2>1, <2>2, <2>3, <2>4
<1>3. CASE HostsIn(st, v) = {}
  <2>1. PICK pair \in Neighbours : pair \in In(lk, <<"variable", v>>)
    BY <1>3 DEF Placed, In
  <2>2. pair \in Clps \X Clps
    <3>1. PICK k \in 1 .. Len(lk[pair]) : Carries(lk[pair][k], <<"variable", v>>)
      BY <2>1 DEF In, Pos
    <3> QED
      BY <3>1, CarriesFacts DEF GoodLinks, TypedLinks, Allowed
  <2>3. dir[c][v] = PortTo(c, IF c = pair[1] THEN pair[2] ELSE NextClp(c, pair[1]))
    BY <2>1 DEF Directed
  <2>4. c # pair[1] => NextClp(c, pair[1]) \in Clps /\ <<c, NextClp(c, pair[1])>> \in Neighbours
    BY <2>2, NextIsNeighbour
  <2>5. c = pair[1] => <<c, pair[2]>> \in Neighbours /\ pair[2] \in Clps
    BY <2>1, <2>2
  <2> QED
    BY <1>1, <1>3, <2>3, <2>4, <2>5
<1> QED
  BY <1>2, <1>3

\* The message that a CLP takes next is the first of the link.
LEMMA NextMessage ==
  ASSUME IInv, NEW pair \in IntoClp, NEW kind, IsNext(pair[1], pair[2], kind)
  PROVE  /\ pair \in Neighbours /\ pair[2] \in Clps /\ pair = <<pair[1], pair[2]>>
         /\ First(pair[1], pair[2]) = 1 /\ 1 \in 1 .. Len(link[pair])
         /\ link[pair][1].kind = kind
<1>1. pair \in Neighbours /\ pair[2] \in Clps /\ pair = <<pair[1], pair[2]>>
  BY NeighbourPair DEF IntoClp
<1>2. link[pair] \in Seq(Messages)
  BY <1>1 DEF IInv, GoodLinks, TypedLinks
<1>3. First(pair[1], pair[2]) = 1 /\ link[pair] # <<>> /\ link[pair][1].kind = kind
  BY <1>1 DEF IsNext, First
<1> QED
  BY <1>1, <1>2, <1>3, LenProperties, EmptySeq

\* What has been sent does not change with what the CLPs do.
LEMMA SentKept ==
  ASSUME UNCHANGED agentVars
  PROVE  Sent' = Sent
BY DEF Sent, SentRequests, Cancelled, agentVars

\* What was done to the variables stays as it is.
ContentsStay == \A v \in Variables : ContentsOf(store', link', v) = ContentsOf(store, link, v)

\* A step that passes a message on keeps the invariant.
LEMMA PassingKeeps ==
  ASSUME IInv, NEW pair \in IntoClp, NEW kind, kind # "migration", IsNext(pair[1], pair[2], kind),
         NEW y, <<pair[2], y>> \in Neighbours, NEW m \in Messages, Allowed(<<pair[2], y>>, m),
         m.kind = kind, m.access = link[pair][1].access,
         link' = Passed(pair[1], pair[2], y, m),
         UNCHANGED <<clpVars, agentVars, histVars>>
  PROVE  IInv' /\ ContentsStay
<1> DEFINE r == <<pair[2], y>>
           lk2 == With(Without(link, pair, 1), r, m)
<1>1. /\ pair \in Neighbours /\ pair = <<pair[1], pair[2]>>
      /\ First(pair[1], pair[2]) = 1 /\ 1 \in 1 .. Len(link[pair])
      /\ link[pair][1].kind = kind
  BY NextMessage
<1>2. link' = lk2
  BY <1>1 DEF Passed, Taken, With, Without
<1>3. /\ GoodLinks(lk2) /\ SameFlights(link, lk2)
      /\ \A x \in Accesses : In(lk2, <<"access", x>>) # {} <=> In(link, <<"access", x>>) # {}
      /\ \A x \in Requests : In(lk2, <<"response", x>>) # {} <=> In(link, <<"response", x>>) # {}
  <2>1. GoodLinks(link)
    BY DEF IInv
  <2> HIDE DEF r
  <2> QED
    BY <1>1, <2>1, Passing DEF r
<1> HIDE DEF lk2
<1>4. /\ direction' = direction /\ store' = store /\ accesses' = accesses /\ answered' = answered
      /\ Sent' = Sent
  BY SentKept DEF clpVars, histVars
<1>5. TypedClps' /\ TypedAgents'
  BY DEF IInv, TypedClps, TypedAgents, clpVars, agentVars, histVars
<1>6. /\ Placed(store, lk2) /\ Directed(direction, store, lk2)
      /\ ExecutedIn(store, lk2) = ExecutedIn(store, link)
      /\ \A v \in Variables : ContentsOf(store, lk2, v) = ContentsOf(store, link, v)
  BY <1>3, Undisturbed, ContentsKept DEF IInv
<1>7. Conserved(ExecutedIn(store, lk2), lk2, Sent, answered)
  BY <1>3, <1>6 DEF IInv, Conserved
<1> QED
  BY <1>2, <1>3, <1>4, <1>5, <1>6, <1>7 DEF IInv, ContentsStay

\* Forward keeps the invariant.
LEMMA ForwardKeeps ==
  ASSUME IInv, NEW pair \in IntoClp, Forward(pair[1], pair[2])
  PROVE  IInv' /\ ContentsStay
<1> DEFINE x == pair[1]
           c == pair[2]
           m == link[pair][1]
           d == direction[c][m.access.var]
           new == Carried(m.access, m.hops + 1)
<1>1. /\ pair \in Neighbours /\ c \in Clps /\ pair = <<x, c>>
      /\ First(x, c) = 1 /\ 1 \in 1 .. Len(link[pair]) /\ m.kind = "access"
  BY NextMessage DEF Forward
<1>2. m \in Messages /\ m.access \in Accesses /\ m.hops \in Nat
  <2>1. m \in Messages
    BY <1>1, ElementOfSeq DEF IInv, GoodLinks, TypedLinks
  <2> QED
    BY <1>1, <2>1, ThingFacts
<1>3. m.access.var \in Variables
  BY <1>2 DEF Accesses, Requests, Antis
<1>4. /\ d # "HERE" /\ link' = Passed(x, c, RankOf(c, d), new)
      /\ UNCHANGED <<clpVars, agentVars, histVars>>
      /\ IsNext(x, c, "access")
  BY <1>1 DEF Forward
<1>5. <<c, RankOf(c, d)>> \in Neighbours /\ RankOf(c, d) \in Clps
  BY <1>1, <1>3, <1>4, Way DEF IInv
<1>6. /\ new \in Messages /\ new.kind = "access" /\ new.access = m.access
      /\ Allowed(<<c, RankOf(c, d)>>, new)
  BY <1>2, <1>5, ThingFacts DEF Carried, Allowed
<1> HIDE DEF new, d
<1> QED
  BY <1>4, <1>5, <1>6, PassingKeeps

\* ForwardResponse keeps the invariant.
LEMMA ForwardResponseKeeps ==
  ASSUME IInv, NEW pair \in IntoClp, ForwardResponse(pair[1], pair[2])
  PROVE  IInv' /\ ContentsStay
<1> DEFINE x == pair[1]
           c == pair[2]
           m == link[pair][1]
           y == RankOf(c, PortToAlp(c, AlpOf[m.access.agent]))
<1>1. /\ pair \in Neighbours /\ c \in Clps /\ pair = <<x, c>>
      /\ First(x, c) = 1 /\ 1 \in 1 .. Len(link[pair]) /\ m.kind = "response"
  BY NextMessage DEF ForwardResponse
<1>2. m \in Messages /\ m.access \in Requests
  <2>1. m \in Messages
    BY <1>1, ElementOfSeq DEF IInv, GoodLinks, TypedLinks
  <2> QED
    BY <1>1, <2>1, ThingFacts
<1>3. AlpOf[m.access.agent] \in Alps
  BY <1>2, RoutingAssumption DEF Requests
<1>4. /\ link' = Passed(x, c, y, m)
      /\ UNCHANGED <<clpVars, agentVars, histVars>>
      /\ IsNext(x, c, "response")
  BY <1>1 DEF ForwardResponse
<1>5. <<c, y>> \in Neighbours
  BY <1>1, <1>3, PortToAlpIsPort, PortRank
<1>6. Allowed(<<c, y>>, m)
  BY <1>1 DEF Allowed
<1> HIDE DEF y
<1> QED
  BY <1>1, <1>2, <1>4, <1>5, <1>6, PassingKeeps

\* A list with an element more has one element more.
LEMMA ToSetAppend ==
  ASSUME NEW S, NEW s \in Seq(S), NEW e
  PROVE  ToSet(Append(s, e)) = ToSet(s) \union {e}
<1>1. DOMAIN Append(s, e) = 1 .. Len(s) + 1 /\ DOMAIN s = 1 .. Len(s) /\ Len(s) \in Nat
  OBVIOUS
<1>2. \A k \in 1 .. Len(s) + 1 : Append(s, e)[k] = IF k = Len(s) + 1 THEN e ELSE s[k]
  BY <1>1
<1>3. ToSet(Append(s, e)) \subseteq ToSet(s) \union {e}
  BY <1>1, <1>2 DEF ToSet
<1>4. e \in ToSet(Append(s, e))
  BY <1>1, <1>2 DEF ToSet
<1>5. \A k \in 1 .. Len(s) : s[k] \in ToSet(Append(s, e))
  BY <1>1, <1>2 DEF ToSet
<1> QED
  BY <1>1, <1>3, <1>4, <1>5 DEF ToSet

\* What was done to a variable is a list of accesses, and so is a store.
LEMMA StoreFacts ==
  /\ \A s \in Stores : DOMAIN s \subseteq Variables /\ \A v \in DOMAIN s : s[v] \in Seq(Accesses)
  /\ \A S \in SUBSET Variables : \A s \in [S -> Seq(Accesses)] : s \in Stores
<1>1. ASSUME NEW s \in Stores
      PROVE  DOMAIN s \subseteq Variables /\ \A v \in DOMAIN s : s[v] \in Seq(Accesses)
  <2>1. PICK S \in SUBSET Variables : s \in [S -> Seq(Accesses)]
    BY DEF Stores
  <2> QED
    BY <2>1
<1> QED
  BY <1>1 DEF Stores

\* The stores when q has been executed on v at c.
Done(st, c, v, q) == [st EXCEPT ![c][v] = Append(@, q)]

\* A variable that is here is executed on here, and one access more has been
\* executed on it and on no other.
LEMMA Executing ==
  ASSUME NEW st \in [Clps -> Stores], NEW lk, GoodLinks(lk), Placed(st, lk),
         NEW c \in Clps, NEW v \in DOMAIN st[c], NEW q \in Accesses,
         NEW st2, st2 = Done(st, c, v, q)
  PROVE  /\ st2 \in [Clps -> Stores]
         /\ \A w : HostsIn(st2, w) = HostsIn(st, w)
         /\ Placed(st2, lk)
         /\ ContentsOf(st, lk, v) \in Seq(Accesses)
         /\ ContentsOf(st2, lk, v) = Append(ContentsOf(st, lk, v), q)
         /\ \A w \in Variables : w # v => ContentsOf(st2, lk, w) = ContentsOf(st, lk, w)
         /\ ExecutedIn(st2, lk) = ExecutedIn(st, lk) \union {q}
<1>1. st[c] \in Stores /\ v \in Variables /\ st[c][v] \in Seq(Accesses)
  BY StoreFacts
<1>2. /\ DOMAIN st2 = Clps
      /\ \A d \in Clps : d # c => st2[d] = st[d]
      /\ st2[c] = [st[c] EXCEPT ![v] = Append(st[c][v], q)]
  BY DEF Done
<1>3. /\ DOMAIN st2[c] = DOMAIN st[c]
      /\ st2[c][v] = Append(st[c][v], q) /\ st2[c][v] \in Seq(Accesses)
      /\ \A w \in DOMAIN st[c] : w # v => st2[c][w] = st[c][w]
  BY <1>1, <1>2
<1>4. st2 \in [Clps -> Stores]
  <2>1. st2[c] \in [DOMAIN st[c] -> Seq(Accesses)]
    BY <1>1, <1>2, <1>3, StoreFacts
  <2>2. st2[c] \in Stores
    BY <1>1, <2>1, StoreFacts
  <2>3. st2 = [d \in Clps |-> st2[d]]
    BY DEF Done
  <2> QED
    BY <1>2, <2>2, <2>3
<1>5. \A w : HostsIn(st2, w) = HostsIn(st, w)
  BY <1>2, <1>3 DEF HostsIn
<1>6. Placed(st2, lk)
  BY <1>5 DEF Placed
<1>7. \A w \in Variables : lk \in [Neighbours -> Seq(Messages)] /\ OneAtMost(lk, <<"variable", w>>)
  BY ThingFacts DEF GoodLinks, TypedLinks
<1>8. ContentsOf(st, lk, v) = st[c][v]
  <2>1. Holds(st, lk, v, st[c][v])
    BY DEF Holds, HostsIn
  <2> QED
    BY <1>1, <1>7, <2>1, ContentsIs
<1>9. ContentsOf(st2, lk, v) = Append(st[c][v], q)
  <2>1. Holds(st2, lk, v, Append(st[c][v], q))
    BY <1>3 DEF Holds, HostsIn
  <2> QED
    BY <1>1, <1>6, <1>7, <2>1, ContentsIs
<1>10. ASSUME NEW w \in Variables, w # v
       PROVE  ContentsOf(st2, lk, w) = ContentsOf(st, lk, w)
  <2>1. Holds(st, lk, w, ContentsOf(st, lk, w))
    BY <1>7, ContentsIs
  <2>2. Holds(st2, lk, w, ContentsOf(st, lk, w))
    BY <1>2, <1>3, <1>10, <2>1 DEF Holds, HostsIn
  <2> QED
    BY <1>6, <1>7, <2>2, ContentsIs
<1>11. ExecutedIn(st2, lk) = ExecutedIn(st, lk) \union {q}
  <2>1. ToSet(ContentsOf(st2, lk, v)) = ToSet(ContentsOf(st, lk, v)) \union {q}
    BY <1>1, <1>8, <1>9, ToSetAppend
  <2>2. \A w \in Variables : w # v => ToSet(ContentsOf(st2, lk, w)) = ToSet(ContentsOf(st, lk, w))
    BY <1>10
  <2> QED
    BY <1>1, <2>1, <2>2 DEF ExecutedIn
<1> QED
  BY <1>1, <1>4, <1>5, <1>6, <1>8, <1>9, <1>10, <1>11

\* What Execute does to the links: the access leaves, and its response enters.
LEMMA ExecuteLinks ==
  ASSUME IInv, NEW pair \in IntoClp, Execute(pair[1], pair[2])
  PROVE  LET q == link[pair][1].access
         IN /\ pair \in Neighbours /\ link[pair][1].hops \in Nat
            /\ q \in Accesses /\ q \in Sent /\ q \notin ExecutedIn(store, link)
            /\ q.var \in Variables /\ q.var \in DOMAIN store[pair[2]]
            /\ PortToAlp(pair[2], AlpOf[q.agent]) \in PortsOf(pair[2])
            /\ GoodLinks(link') /\ SameFlights(link, link')
            /\ \A x \in Accesses :
                 In(link', <<"access", x>>) # {} <=> x # q /\ In(link, <<"access", x>>) # {}
            /\ \A x \in Requests :
                 In(link', <<"response", x>>) # {} <=> x = q \/ In(link, <<"response", x>>) # {}
<1> DEFINE x == pair[1]
           c == pair[2]
           m == link[pair][1]
           q == m.access
           port == PortToAlp(c, AlpOf[q.agent])
           r == <<c, RankOf(c, port)>>
           mid == Without(link, pair, 1)
<1>1. /\ pair \in Neighbours /\ c \in Clps /\ pair = <<x, c>>
      /\ First(x, c) = 1 /\ 1 \in 1 .. Len(link[pair]) /\ m.kind = "access"
  BY NextMessage DEF Execute
<1>2. GoodLinks(link) /\ Conserved(ExecutedIn(store, link), link, Sent, answered)
  BY DEF IInv
<1>3. /\ GoodLinks(mid) /\ SameFlights(link, mid)
      /\ m \in Messages
      /\ In(link, <<m.kind, m.access>>) = {pair}
      /\ \A a \in Accesses : In(mid, <<"access", a>>) =
           IF m.kind = "access" /\ m.access = a THEN {} ELSE In(link, <<"access", a>>)
      /\ \A a \in Requests : In(mid, <<"response", a>>) =
           IF m.kind = "response" /\ m.access = a THEN {} ELSE In(link, <<"response", a>>)
  BY <1>1, <1>2, Taking
<1>4. q \in Accesses /\ m.hops \in Nat
  BY <1>1, <1>3, ThingFacts
<1>5. q.var \in Variables /\ q.agent \in Agents /\ (q \in Requests <=> q.type = "request")
  BY <1>4 DEF Accesses, Requests, Antis
<1>6. /\ q.var \in DOMAIN store[c]
      /\ link' = IF q.type = "request" THEN Passed(x, c, RankOf(c, port), Response(q)) ELSE Taken(x, c)
  BY <1>1 DEF Execute
<1>7. port \in PortsOf(c) /\ r \in Neighbours
  BY <1>1, <1>5, PortToAlpIsPort, PortRank, RoutingAssumption
<1>8. q \in Sent /\ q \notin ExecutedIn(store, link)
  BY <1>1, <1>2, <1>3, <1>4 DEF Conserved
<1>9. link' = IF q.type = "request" THEN With(mid, r, Response(q)) ELSE mid
  BY <1>1, <1>6 DEF Passed, Taken, With, Without
<1>10. /\ GoodLinks(link') /\ SameFlights(link, link')
       /\ \A a \in Accesses :
            In(link', <<"access", a>>) # {} <=> a # q /\ In(link, <<"access", a>>) # {}
       /\ \A a \in Requests :
            In(link', <<"response", a>>) # {} <=> a = q \/ In(link, <<"response", a>>) # {}
  <2> HIDE DEF mid, q, m, r
  <2>1. CASE q.type # "request"
    BY <1>1, <1>3, <1>4, <1>5, <1>9, <2>1 DEF q
  <2>2. CASE q.type = "request"
    <3> DEFINE resp == Response(q)
    <3>1. /\ resp \in Messages /\ resp.kind = "response" /\ resp.access = q
          /\ q \in Requests /\ Allowed(r, resp)
      BY <1>5, <2>2, ThingFacts DEF Response, Allowed
    <3>2. In(mid, <<resp.kind, resp.access>>) = {}
      BY <1>1, <1>2, <1>3, <1>4, <1>8, <3>1 DEF Conserved
    <3> HIDE DEF resp
    <3>3. /\ GoodLinks(With(mid, r, resp)) /\ SameFlights(mid, With(mid, r, resp))
          /\ \A a : In(With(mid, r, resp), <<"access", a>>) =
               IF resp.kind = "access" /\ resp.access = a THEN {r} ELSE In(mid, <<"access", a>>)
          /\ \A a : In(With(mid, r, resp), <<"response", a>>) =
               IF resp.kind = "response" /\ resp.access = a THEN {r} ELSE In(mid, <<"response", a>>)
      BY <1>3, <1>7, <3>1, <3>2, Sending
    <3>4. SameFlights(link, With(mid, r, resp))
      BY <1>3, <3>3, SameFlightsTwice
    <3>5. link' = With(mid, r, resp)
      BY <1>9, <2>2 DEF resp
    <3> QED
      BY <1>1, <1>3, <1>4, <3>1, <3>3, <3>4, <3>5 DEF q
  <2> QED
    BY <2>1, <2>2
<1> HIDE DEF r, mid
<1> QED
  BY <1>1, <1>4, <1>5, <1>6, <1>7, <1>8, <1>10

\* What Execute does to the variables: to one there is one access more.
LEMMA ExecuteContents ==
  ASSUME IInv, NEW pair \in IntoClp, Execute(pair[1], pair[2])
  PROVE  LET q == link[pair][1].access
         IN /\ store' \in [Clps -> Stores]
            /\ \A w : HostsIn(store', w) = HostsIn(store, w)
            /\ pair[2] \in HostsIn(store, q.var)
            /\ Placed(store', link') /\ Directed(direction, store', link')
            /\ ContentsOf(store', link', q.var) = Append(ContentsOf(store, link, q.var), q)
            /\ \A w \in Variables : w # q.var =>
                 ContentsOf(store', link', w) = ContentsOf(store, link, w)
            /\ ExecutedIn(store', link') = ExecutedIn(store, link) \union {q}
<1> DEFINE x == pair[1]
           c == pair[2]
           q == link[pair][1].access
<1>1. /\ pair \in Neighbours /\ c \in Clps /\ pair = <<x, c>> /\ First(x, c) = 1
  BY NextMessage DEF Execute
<1>2. /\ q \in Accesses /\ q.var \in Variables /\ q.var \in DOMAIN store[c]
      /\ GoodLinks(link') /\ SameFlights(link, link')
  BY ExecuteLinks
<1>3. store' = Done(store, c, q.var, q)
  BY <1>1 DEF Execute, Done
<1>4. /\ GoodLinks(link) /\ Placed(store, link) /\ Directed(direction, store, link)
      /\ store \in [Clps -> Stores]
  BY DEF IInv, TypedClps
<1> HIDE DEF q
<1>5. /\ Placed(store, link') /\ Directed(direction, store, link')
      /\ \A v \in Variables : ContentsOf(store, link', v) = ContentsOf(store, link, v)
      /\ ExecutedIn(store, link') = ExecutedIn(store, link)
  BY <1>2, <1>4, Undisturbed, ContentsKept
<1>6. /\ store' \in [Clps -> Stores]
      /\ \A w : HostsIn(store', w) = HostsIn(store, w)
      /\ Placed(store', link')
      /\ ContentsOf(store', link', q.var) = Append(ContentsOf(store, link', q.var), q)
      /\ \A w \in Variables : w # q.var => ContentsOf(store', link', w) = ContentsOf(store, link', w)
      /\ ExecutedIn(store', link') = ExecutedIn(store, link') \union {q}
  BY <1>1, <1>2, <1>3, <1>4, <1>5, Executing
<1>7. Directed(direction, store', link')
  BY <1>5, <1>6 DEF Directed
<1>8. c \in HostsIn(store, q.var)
  BY <1>1, <1>2 DEF HostsIn
<1> QED
  BY <1>2, <1>5, <1>6, <1>7, <1>8 DEF q

\* Execute keeps the invariant.
LEMMA ExecuteKeeps ==
  ASSUME IInv, NEW pair \in IntoClp, Execute(pair[1], pair[2])
  PROVE  IInv'
<1> DEFINE x == pair[1]
           c == pair[2]
           m == link[pair][1]
           q == m.access
           port == PortToAlp(c, AlpOf[q.agent])
           h == m.hops + 1
<1>1. /\ pair \in Neighbours /\ c \in Clps /\ pair = <<x, c>> /\ First(x, c) = 1
  BY NextMessage DEF Execute
<1>2. /\ m.hops \in Nat /\ q \in Accesses /\ q \in Sent /\ q \notin ExecutedIn(store, link)
      /\ q.var \in Variables /\ port \in PortsOf(c)
      /\ GoodLinks(link')
      /\ \A a \in Accesses :
           In(link', <<"access", a>>) # {} <=> a # q /\ In(link, <<"access", a>>) # {}
      /\ \A a \in Requests :
           In(link', <<"response", a>>) # {} <=> a = q \/ In(link, <<"response", a>>) # {}
  BY ExecuteLinks
<1>3. /\ store' \in [Clps -> Stores]
      /\ \A w : HostsIn(store', w) = HostsIn(store, w)
      /\ c \in HostsIn(store, q.var)
      /\ Placed(store', link') /\ Directed(direction, store', link')
      /\ ExecutedIn(store', link') = ExecutedIn(store, link) \union {q}
  BY ExecuteContents
<1>4. /\ accesses' = [accesses EXCEPT ![q.var][port] = @ + 1]
      /\ hops' = [hops EXCEPT ![q.var][port] = @ + h]
      /\ load' = [load EXCEPT ![c] = @ + h]
      /\ UNCHANGED <<direction, agentVars, histVars>>
  BY <1>1 DEF Execute
<1> HIDE DEF q, m
<1>5. TypedClps'
  <2>1. TypedClps /\ port \in Ports
    BY <1>1, <1>2, PortRank DEF IInv
  <2>2. accesses' \in [Variables -> [Ports -> Nat]]
    BY <1>2, <1>4, <2>1 DEF TypedClps
  <2>3. hops' \in [Variables -> [Ports -> Nat]]
    BY <1>2, <1>4, <2>1 DEF TypedClps
  <2>4. load' \in [Clps -> Nat]
    BY <1>1, <1>2, <1>4, <2>1 DEF TypedClps
  <2> QED
    BY <1>3, <1>4, <2>1, <2>2, <2>3, <2>4 DEF TypedClps, histVars
<1>6. TypedAgents'
  BY <1>4 DEF IInv, TypedAgents, agentVars, histVars
<1>7. Counted(accesses', store')
  <2>1. /\ Counted(accesses, store) /\ AtMostOne(HostsIn(store, q.var))
        /\ accesses \in [Variables -> [Ports -> Nat]]
    BY <1>2 DEF IInv, Placed, TypedClps
  <2>2. \A v \in Variables : v # q.var => accesses'[v] = accesses[v]
    BY <1>4, <2>1
  <2>3. \A p \in Ports : p # port => accesses'[q.var][p] = accesses[q.var][p]
    BY <1>2, <1>4, <2>1
  <2> HIDE DEF port
  <2>4. SUFFICES ASSUME NEW v \in Variables
                 PROVE  /\ \A k \in HostsIn(store, v) : \A p \in Ports \ PortsOf(k) : accesses'[v][p] = 0
                        /\ HostsIn(store, v) = {} => accesses'[v] = NoAccess
    BY <1>3 DEF Counted
  <2>5. CASE v # q.var
    BY <2>1, <2>2, <2>5 DEF Counted
  <2>6. CASE v = q.var
    <3>1. \A k \in HostsIn(store, v) : k = c
      BY <1>3, <2>1, <2>6 DEF AtMostOne
    <3> QED
      BY <1>2, <1>3, <2>1, <2>3, <2>6, <3>1 DEF Counted
  <2> QED
    BY <2>5, <2>6
<1>8. Sent' = Sent /\ answered' = answered
  BY <1>4, SentKept DEF histVars
<1>9. Conserved(ExecutedIn(store', link'), link', Sent, answered)
  <2>1. Conserved(ExecutedIn(store, link), link, Sent, answered)
    BY DEF IInv
  <2> QED
    BY <1>2, <1>3, <2>1 DEF Conserved
<1> QED
  BY <1>2, <1>3, <1>4, <1>5, <1>6, <1>7, <1>8, <1>9 DEF IInv

\* Links are extended by links with other things.
LEMMA Joining ==
  ASSUME NEW f, NEW ms, GoodLinks(f), GoodLinks(ms),
         \A t \in Things : In(f, t) = {} \/ In(ms, t) = {}
  PROVE  /\ GoodLinks(Extended(f, ms))
         /\ \A t : In(Extended(f, ms), t) = In(f, t) \union In(ms, t)
<1>1. f \in [Neighbours -> Seq(Messages)] /\ ms \in [Neighbours -> Seq(Messages)]
  BY DEF GoodLinks, TypedLinks
<1>2. ASSUME NEW t
      PROVE  /\ Extended(f, ms) \in [Neighbours -> Seq(Messages)]
             /\ In(Extended(f, ms), t) = In(f, t) \union In(ms, t)
             /\ OneAtMost(f, t) /\ In(ms, t) = {} => OneAtMost(Extended(f, ms), t)
             /\ OneAtMost(ms, t) /\ In(f, t) = {} => OneAtMost(Extended(f, ms), t)
  BY <1>1, ExtendLinks
<1>3. \A t \in Things : OneAtMost(f, t) /\ OneAtMost(ms, t)
  BY DEF GoodLinks
<1>4. \A t \in Things : OneAtMost(Extended(f, ms), t)
  BY <1>2, <1>3
<1>5. ASSUME NEW pair \in Neighbours, NEW k \in 1 .. Len(Extended(f, ms)[pair])
      PROVE  Allowed(pair, Extended(f, ms)[pair][k])
  <2>1. f[pair] \in Seq(Messages) /\ ms[pair] \in Seq(Messages)
    BY <1>1
  <2> DEFINE s == f[pair]
             u == ms[pair]
  <2>2. Extended(f, ms)[pair] = s \o u
    BY DEF Extended
  <2>3. /\ \A j \in 1 .. Len(s) : Allowed(pair, s[j])
        /\ \A j \in 1 .. Len(u) : Allowed(pair, u[j])
    BY DEF GoodLinks, TypedLinks
  <2> HIDE DEF s, u
  <2>4. /\ Len(s \o u) = Len(s) + Len(u) /\ Len(s) \in Nat /\ Len(u) \in Nat
        /\ \A j \in 1 .. Len(s) + Len(u) : (s \o u)[j] = IF j <= Len(s) THEN s[j] ELSE u[j - Len(s)]
    BY ZenonT(60), <2>1, ConcatProperties, LenProperties DEF s, u
  <2>5. CASE k <= Len(s)
    BY <2>2, <2>3, <2>4, <2>5
  <2>6. CASE ~(k <= Len(s))
    <3>1. k - Len(s) \in 1 .. Len(u) /\ (s \o u)[k] = u[k - Len(s)]
      BY <2>2, <2>4, <2>6
    <3> QED
      BY <2>2, <2>3, <3>1
  <2> QED
    BY <2>5, <2>6
<1> QED
  BY <1>1, <1>2, <1>4, <1>5 DEF GoodLinks, TypedLinks

-----------------------------------------------------------------------------
(* Migration.                                                              *)

\* The variables that c sends by a port, in all, and to y; and the messages
\* with them.
Leaving(c, p) == {v \in Variables : LeavesBy(c, v, p)}
AllLeaving(c) == UNION {Leaving(c, p) : p \in Ports}
LeavingTo(c, y) == UNION {Leaving(c, p) : p \in {q \in PortsOf(c) : RankOf(c, q) = y}}
PortFrom(c, v) == CHOOSE p \in Ports : v \in Leaving(c, p)

Movers(c) ==
  [pair \in Neighbours |->
     IF pair[1] = c /\ LeavingTo(c, pair[2]) # {}
     THEN <<Migration(GetCopy(c, LeavingTo(c, pair[2])))>> ELSE <<>>]

\* A variable is here and leaves by one port, which the CLP has, to another CLP.
LEMMA LeavingFacts ==
  ASSUME IInv, NEW c \in Clps, NEW v \in AllLeaving(c)
  PROVE  /\ v \in Variables /\ c \in HostsIn(store, v)
         /\ PortFrom(c, v) \in PortsOf(c)
         /\ \A p \in Ports : v \in Leaving(c, p) <=> p = PortFrom(c, v)
         /\ RankOf(c, PortFrom(c, v)) \in Clps
         /\ <<c, RankOf(c, PortFrom(c, v))>> \in Neighbours
         /\ PortTo(c, RankOf(c, PortFrom(c, v))) = PortFrom(c, v)
<1> DEFINE p == PortFrom(c, v)
           f == accesses[v]
<1>1. p \in Ports /\ v \in Leaving(c, p)
  BY DEF AllLeaving, PortFrom
<1>2. /\ v \in Variables /\ v \in DOMAIN store[c] /\ c \in HostsIn(store, v)
      /\ IsParentClp(c) => p = "UP"
  BY <1>1 DEF Leaving, LeavesBy, HostsIn
<1>3. f \in [Ports -> Nat]
  BY <1>2 DEF IInv, TypedClps
<1>4. ASSUME NEW q \in Ports, v \in Leaving(c, q)
      PROVE  f[q] > 2 * (f["UP"] + f["LEFT"] + f["RIGHT"] - f[q])
  <2>1. LeavesBy(c, v, q)
    BY <1>4 DEF Leaving
  <2>2. f[q] > 2 * (Total(f) - f[q])
    BY <2>1 DEF LeavesBy
  <2> HIDE DEF f
  <2>3. Total(f) = f["UP"] + f["LEFT"] + f["RIGHT"]
    BY DEF Total
  <2>4. f[q] \in Nat /\ f["UP"] \in Nat /\ f["LEFT"] \in Nat /\ f["RIGHT"] \in Nat
    BY <1>3 DEF Ports
  <2> QED
    BY <2>2, <2>3, <2>4
<1> HIDE DEF p, f
<1>5. f[p] > 2 * (f["UP"] + f["LEFT"] + f["RIGHT"] - f[p])
  BY <1>1, <1>4
<1>6. f["UP"] \in Nat /\ f["LEFT"] \in Nat /\ f["RIGHT"] \in Nat
  BY <1>3 DEF Ports
<1>7. f[p] # 0
  BY <1>1, <1>5, <1>6 DEF Ports
<1>8. p \in PortsOf(c)
  BY <1>1, <1>2, <1>7 DEF IInv, Counted, f
<1>9. ASSUME NEW q \in Ports, v \in Leaving(c, q) PROVE q = p
  <2>1. f[q] > 2 * (f["UP"] + f["LEFT"] + f["RIGHT"] - f[q])
    BY <1>4, <1>9
  <2> QED
    BY <1>1, <1>5, <1>6, <2>1 DEF Ports
<1>10. /\ <<c, RankOf(c, p)>> \in Neighbours
       /\ PortTo(c, RankOf(c, p)) = p
       /\ RankOf(c, p) \in Clps
  BY <1>2, <1>8, PortRank
<1> QED
  BY <1>1, <1>2, <1>8, <1>9, <1>10 DEF p

\* Who is sent to y.
LEMMA LeavingToFacts ==
  ASSUME IInv, NEW c \in Clps, NEW y
  PROVE  LeavingTo(c, y) = {v \in AllLeaving(c) : RankOf(c, PortFrom(c, v)) = y}
<1>1. ASSUME NEW v \in LeavingTo(c, y)
      PROVE  v \in AllLeaving(c) /\ RankOf(c, PortFrom(c, v)) = y
  <2>1. PICK p \in PortsOf(c) : RankOf(c, p) = y /\ v \in Leaving(c, p)
    BY DEF LeavingTo
  <2>2. p \in Ports
    BY <2>1 DEF PortsOf
  <2>3. v \in AllLeaving(c)
    BY <2>1, <2>2 DEF AllLeaving
  <2> QED
    BY <2>1, <2>2, <2>3, LeavingFacts
<1>2. ASSUME NEW v \in AllLeaving(c), RankOf(c, PortFrom(c, v)) = y
      PROVE  v \in LeavingTo(c, y)
  <2>1. PortFrom(c, v) \in PortsOf(c) /\ PortFrom(c, v) \in Ports
    BY LeavingFacts DEF PortsOf
  <2>2. v \in Leaving(c, PortFrom(c, v))
    BY <2>1, LeavingFacts
  <2> QED
    BY <1>2, <2>1, <2>2 DEF LeavingTo
<1> QED
  BY <1>1, <1>2

\* The messages that c sends: one to each CLP that a variable leaves to.
LEMMA MoverFacts ==
  ASSUME IInv, NEW c \in Clps
  PROVE  /\ GoodLinks(Movers(c))
         /\ \A m : In(Movers(c), <<"access", m>>) = {} /\ In(Movers(c), <<"response", m>>) = {}
         /\ \A v : v \notin AllLeaving(c) =>
              /\ In(Movers(c), <<"variable", v>>) = {}
              /\ \A val : In(Movers(c), <<"value", v, val>>) = {}
         /\ \A v \in AllLeaving(c) :
              /\ In(Movers(c), <<"variable", v>>) = {<<c, RankOf(c, PortFrom(c, v))>>}
              /\ In(Movers(c), <<"value", v, store[c][v]>>) # {}
<1> DEFINE ms == Movers(c)
           vals(y) == GetCopy(c, LeavingTo(c, y))
<1>1. ASSUME NEW pair \in Neighbours
      PROVE  /\ ms[pair] = IF pair[1] = c /\ LeavingTo(c, pair[2]) # {}
                           THEN <<Migration(vals(pair[2]))>> ELSE <<>>
             /\ ms[pair] \in Seq(Messages)
             /\ \A k \in 1 .. Len(ms[pair]) : Allowed(pair, ms[pair][k])
  <2>1. ms[pair] = IF pair[1] = c /\ LeavingTo(c, pair[2]) # {}
                   THEN <<Migration(vals(pair[2]))>> ELSE <<>>
    BY DEF Movers
  <2>2. CASE ~(pair[1] = c /\ LeavingTo(c, pair[2]) # {})
    BY <2>1, <2>2
  <2>3. CASE pair[1] = c /\ LeavingTo(c, pair[2]) # {}
    <3> DEFINE L == LeavingTo(c, pair[2])
    <3>1. L = {v \in AllLeaving(c) : RankOf(c, PortFrom(c, v)) = pair[2]}
      BY LeavingToFacts
    <3>2. L \in SUBSET Variables /\ L \subseteq DOMAIN store[c] /\ pair[2] \in Clps
      <4>1. \A v \in L : v \in Variables /\ c \in HostsIn(store, v) /\ pair[2] \in Clps
        BY <3>1, LeavingFacts
      <4>2. L # {}
        BY <2>3
      <4> QED
        BY <4>1, <4>2 DEF HostsIn
    <3>3. \A v \in DOMAIN store[c] : store[c][v] \in Seq(Accesses)
      BY StoreFacts DEF IInv, TypedClps
    <3> HIDE DEF L
    <3>4. GetCopy(c, L) \in [L -> Seq(Accesses)]
      BY <3>2, <3>3 DEF GetCopy, Restrict
    <3>5. Migration(GetCopy(c, L)) \in Messages
      BY <3>2, <3>4, StoreFacts, ThingFacts
    <3>6. Migration(GetCopy(c, L)).kind = "migration"
      BY DEF Migration
    <3>7. pair \in Clps \X Clps
      BY <2>3, <3>2, NeighbourPair
    <3>8. Allowed(pair, Migration(GetCopy(c, L)))
      BY <3>6, <3>7 DEF Allowed
    <3>9. ms[pair] = <<Migration(GetCopy(c, L))>>
      BY <2>1, <2>3 DEF L
    <3> QED
      BY <2>1, <3>5, <3>8, <3>9
  <2> QED
    BY <2>2, <2>3
<1>2. TypedLinks(ms)
  <2>1. ms = [pair \in Neighbours |-> ms[pair]]
    BY DEF Movers
  <2> HIDE DEF ms
  <2>2. ms \in [Neighbours -> Seq(Messages)]
    BY <1>1, <2>1
  <2> QED
    BY <1>1, <2>2 DEF TypedLinks
<1> HIDE DEF ms
<1>3. ASSUME NEW pair \in Neighbours, NEW t
      PROVE  Pos(ms[pair], t) = IF /\ pair[1] = c /\ LeavingTo(c, pair[2]) # {}
                                   /\ Carries(Migration(vals(pair[2])), t) THEN {1} ELSE {}
  <2> HIDE DEF vals
  <2>1. CASE ~(pair[1] = c /\ LeavingTo(c, pair[2]) # {})
    <3>1. ms[pair] = <<>>
      BY <1>1, <2>1
    <3> QED
      BY <2>1, <3>1 DEF Pos
  <2>2. CASE pair[1] = c /\ LeavingTo(c, pair[2]) # {}
    <3> DEFINE m == Migration(vals(pair[2]))
    <3>1. ms[pair] = <<m>>
      BY <1>1, <2>2
    <3> HIDE DEF m
    <3>2. Pos(ms[pair], t) = IF Carries(m, t) THEN {1} ELSE {}
      BY <3>1 DEF Pos
    <3> QED
      BY <2>2, <3>2 DEF m
  <2> QED
    BY <2>1, <2>2
<1>4. \A y : /\ Migration(vals(y)).kind = "migration"
             /\ DOMAIN Migration(vals(y)).variables = LeavingTo(c, y)
             /\ \A v \in LeavingTo(c, y) : Migration(vals(y)).variables[v] = store[c][v]
  BY DEF Migration, GetCopy, Restrict
<1> HIDE DEF vals
<1>5. \A m : In(ms, <<"access", m>>) = {} /\ In(ms, <<"response", m>>) = {}
  <2> TAKE m
  <2>1. ASSUME NEW y
        PROVE  /\ ~Carries(Migration(vals(y)), <<"access", m>>)
               /\ ~Carries(Migration(vals(y)), <<"response", m>>)
    BY <1>4, CarriesFacts
  <2>2. \A pair \in Neighbours : /\ Pos(ms[pair], <<"access", m>>) = {}
                                 /\ Pos(ms[pair], <<"response", m>>) = {}
    BY <1>3, <2>1
  <2> QED
    BY <2>2 DEF In
<1>6. ASSUME NEW pair \in Neighbours, NEW v
      PROVE  /\ pair \in In(ms, <<"variable", v>>) <=>
                  v \in AllLeaving(c) /\ pair = <<c, RankOf(c, PortFrom(c, v))>>
             /\ v \in AllLeaving(c) /\ pair = <<c, RankOf(c, PortFrom(c, v))>> =>
                  pair \in In(ms, <<"value", v, store[c][v]>>)
  <2>1. pair = <<pair[1], pair[2]>>
    BY NeighbourPair
  <2>2. v \in LeavingTo(c, pair[2]) <=> v \in AllLeaving(c) /\ RankOf(c, PortFrom(c, v)) = pair[2]
    BY LeavingToFacts
  <2>3. Carries(Migration(vals(pair[2])), <<"variable", v>>) <=> v \in LeavingTo(c, pair[2])
    BY <1>4, CarriesFacts
  <2>4. v \in LeavingTo(c, pair[2]) =>
          Carries(Migration(vals(pair[2])), <<"value", v, store[c][v]>>)
    BY <1>4, CarriesFacts
  <2>5. pair \in In(ms, <<"variable", v>>) <=> pair[1] = c /\ v \in LeavingTo(c, pair[2])
    BY <1>3, <2>3 DEF In
  <2>6. pair[1] = c /\ v \in LeavingTo(c, pair[2]) => pair \in In(ms, <<"value", v, store[c][v]>>)
    BY <1>3, <2>4 DEF In
  <2> QED
    BY <2>1, <2>2, <2>5, <2>6
<1>7. ASSUME NEW v, v \notin AllLeaving(c)
      PROVE  In(ms, <<"variable", v>>) = {} /\ \A val : In(ms, <<"value", v, val>>) = {}
  <2>1. In(ms, <<"variable", v>>) = {}
    BY <1>6, <1>7 DEF In
  <2>2. \A pair \in Neighbours : AtMostOne(Pos(ms[pair], <<"variable", v>>))
    BY <1>3 DEF AtMostOne
  <2>3. OneAtMost(ms, <<"variable", v>>)
    BY <2>1, <2>2 DEF OneAtMost, AtMostOne
  <2> QED
    BY <2>1, <2>3, ValueOnce
<1>8. ASSUME NEW v \in AllLeaving(c)
      PROVE  /\ In(ms, <<"variable", v>>) = {<<c, RankOf(c, PortFrom(c, v))>>}
             /\ In(ms, <<"value", v, store[c][v]>>) # {}
  <2>1. <<c, RankOf(c, PortFrom(c, v))>> \in Neighbours
    BY LeavingFacts
  <2> QED
    BY <1>6, <2>1 DEF In
<1>9. \A t \in Things : OneAtMost(ms, t)
  <2> SUFFICES ASSUME NEW t \in Things PROVE OneAtMost(ms, t)
    OBVIOUS
  <2>1. \A pair \in Neighbours : AtMostOne(Pos(ms[pair], t))
    BY <1>3 DEF AtMostOne
  <2>2. AtMostOne(In(ms, t))
    <3>1. CASE \E m : t = <<"access", m>> \/ t = <<"response", m>>
      BY <1>5, <3>1 DEF AtMostOne
    <3>2. CASE \E v \in AllLeaving(c) : t = <<"variable", v>>
      <4>1. PICK v \in AllLeaving(c) : t = <<"variable", v>>
        BY <3>2
      <4>2. \E p : In(ms, t) = {p}
        BY <1>8, <4>1
      <4> QED
        BY <4>2 DEF AtMostOne
    <3>3. CASE \E v : v \notin AllLeaving(c) /\ t = <<"variable", v>>
      BY <1>7, <3>3 DEF AtMostOne
    <3> QED
      BY <3>1, <3>2, <3>3 DEF Things
  <2> QED
    BY <2>1, <2>2 DEF OneAtMost
<1> QED
  BY <1>2, <1>5, <1>7, <1>8, <1>9 DEF GoodLinks, ms

\* What Migrate does.
LEMMA MigrateFacts ==
  ASSUME IInv, NEW c \in Clps, Migrate(c)
  PROVE  /\ link' = Extended(link, Movers(c))
         /\ direction' \in [Clps -> [Variables -> Ports \union {"HERE"}]]
         /\ \A d \in Clps : \A v \in Variables :
              direction'[d][v] = IF d = c /\ v \in AllLeaving(c) THEN PortFrom(c, v) ELSE direction[d][v]
         /\ store' \in [Clps -> Stores]
         /\ \A d \in Clps : DOMAIN store'[d] = IF d = c THEN DOMAIN store[d] \ AllLeaving(c)
                                                        ELSE DOMAIN store[d]
         /\ \A d \in Clps : \A v \in DOMAIN store'[d] : store'[d][v] = store[d][v]
         /\ accesses' \in [Variables -> [Ports -> Nat]]
         /\ \A v \in Variables : accesses'[v] = IF v \in AllLeaving(c) THEN NoAccess ELSE accesses[v]
         /\ hops' \in [Variables -> [Ports -> Nat]]
<1> DEFINE leaving == AllLeaving(c)
           new == [v \in leaving |-> PortFrom(c, v)]
           none == [v \in leaving |-> NoAccess]
<1>1. /\ link' = [pair \in Neighbours |->
                    IF pair[1] = c /\ LeavingTo(c, pair[2]) # {}
                    THEN Append(link[pair], Migration(GetCopy(c, LeavingTo(c, pair[2]))))
                    ELSE link[pair]]
      /\ direction' = SetSsvIdDirection(c, new)
      /\ store' = [store EXCEPT ![c] = Delete(c, leaving)]
      /\ accesses' = Updated(accesses, none)
      /\ hops' = Updated(hops, none)
  BY DEF Migrate, Leaving, AllLeaving, LeavingTo, PortFrom
<1>2. /\ TypedClps
      /\ \A pair \in Neighbours : link[pair] \in Seq(Messages)
  BY DEF IInv, GoodLinks, TypedLinks
<1>3. leaving \in SUBSET Variables /\ \A v \in leaving : PortFrom(c, v) \in Ports
  BY LeavingFacts DEF PortsOf
<1>4. link' = Extended(link, Movers(c))
  <2> SUFFICES ASSUME NEW pair \in Neighbours
               PROVE  (IF pair[1] = c /\ LeavingTo(c, pair[2]) # {}
                       THEN Append(link[pair], Migration(GetCopy(c, LeavingTo(c, pair[2]))))
                       ELSE link[pair]) = link[pair] \o Movers(c)[pair]
    BY <1>1 DEF Extended
  <2> DEFINE m == Migration(GetCopy(c, LeavingTo(c, pair[2])))
  <2>1. link[pair] \o <<m>> = Append(link[pair], m)
    <3> HIDE DEF m
    <3> QED
      BY <1>2, AppendIsConcat
  <2>2. link[pair] \o <<>> = link[pair]
    BY <1>2, ConcatEmptySeq
  <2> QED
    BY <2>1, <2>2 DEF Movers
<1> HIDE DEF leaving
<1>5. /\ direction' \in [Clps -> [Variables -> Ports \union {"HERE"}]]
      /\ \A d \in Clps : \A v \in Variables :
           direction'[d][v] = IF d = c /\ v \in leaving THEN PortFrom(c, v) ELSE direction[d][v]
  <2>1. direction[c] \in [Variables -> Ports \union {"HERE"}]
    BY <1>2 DEF TypedClps
  <2>2. \A v \in leaving : new[v] = PortFrom(c, v)
    OBVIOUS
  <2>3. new \in [leaving -> Ports \union {"HERE"}]
    BY <1>3
  <2> HIDE DEF new
  <2>4. /\ Updated(direction[c], new) \in [Variables -> Ports \union {"HERE"}]
        /\ \A v \in Variables : Updated(direction[c], new)[v] = IF v \in leaving THEN new[v] ELSE direction[c][v]
    BY <1>3, <2>1, <2>3, SMT DEF Updated
  <2>5. direction' = [direction EXCEPT ![c] = Updated(direction[c], new)]
    BY <1>1 DEF SetSsvIdDirection
  <2> QED
    BY <1>2, <2>2, <2>4, <2>5 DEF TypedClps
<1>6. /\ store' \in [Clps -> Stores]
      /\ \A d \in Clps : DOMAIN store'[d] = IF d = c THEN DOMAIN store[d] \ leaving ELSE DOMAIN store[d]
      /\ \A d \in Clps : \A v \in DOMAIN store'[d] : store'[d][v] = store[d][v]
  <2>1. /\ DOMAIN Delete(c, leaving) = DOMAIN store[c] \ leaving
        /\ \A v \in DOMAIN store[c] \ leaving : Delete(c, leaving)[v] = store[c][v]
        /\ Delete(c, leaving) = [v \in DOMAIN store[c] \ leaving |-> store[c][v]]
    BY DEF Delete, Restrict
  <2>2. store[c] \in Stores
    BY <1>2 DEF TypedClps
  <2>3. Delete(c, leaving) \in [DOMAIN store[c] \ leaving -> Seq(Accesses)]
    BY <2>1, <2>2, StoreFacts
  <2>4. Delete(c, leaving) \in Stores
    <3>1. DOMAIN store[c] \ leaving \in SUBSET Variables
      BY <2>2, StoreFacts
    <3> QED
      BY <2>3, <3>1, StoreFacts
  <2>5. store' \in [Clps -> Stores]
    BY <1>1, <1>2, <2>4 DEF TypedClps
  <2>6. store'[c] = Delete(c, leaving) /\ \A d \in Clps : d # c => store'[d] = store[d]
    BY <1>1, <1>2 DEF TypedClps
  <2> QED
    BY <2>1, <2>5, <2>6
<1>7. /\ accesses' \in [Variables -> [Ports -> Nat]]
      /\ \A v \in Variables : accesses'[v] = IF v \in leaving THEN NoAccess ELSE accesses[v]
      /\ hops' \in [Variables -> [Ports -> Nat]]
  <2>1. /\ \A v \in leaving : none[v] = NoAccess
        /\ none \in [leaving -> [Ports -> Nat]]
    BY DEF NoAccess
  <2>2. accesses \in [Variables -> [Ports -> Nat]] /\ hops \in [Variables -> [Ports -> Nat]]
    BY <1>2 DEF TypedClps
  <2> HIDE DEF none
  <2>3. /\ Updated(accesses, none) \in [Variables -> [Ports -> Nat]]
        /\ \A v \in Variables : Updated(accesses, none)[v] = IF v \in leaving THEN none[v] ELSE accesses[v]
    BY <1>3, <2>1, <2>2, SMT DEF Updated
  <2>4. Updated(hops, none) \in [Variables -> [Ports -> Nat]]
    BY <1>3, <2>1, <2>2, SMT DEF Updated
  <2> QED
    BY <1>1, <2>1, <2>3, <2>4
<1> QED
  BY <1>4, <1>5, <1>6, <1>7 DEF leaving

\* What Migrate does to the variables: those that leave are now in links, as
\* they were, and the tables lead there; the others are where they were.
LEMMA MigrateMoves ==
  ASSUME IInv, NEW c \in Clps, Migrate(c)
  PROVE  /\ GoodLinks(link')
         /\ \A m : /\ In(link', <<"access", m>>) = In(link, <<"access", m>>)
                   /\ In(link', <<"response", m>>) = In(link, <<"response", m>>)
         /\ Placed(store', link') /\ Directed(direction', store', link')
         /\ Counted(accesses', store')
         /\ \A v \in Variables : ContentsOf(store', link', v) = ContentsOf(store, link, v)
         /\ \A v : v \notin AllLeaving(c) =>
              /\ HostsIn(store', v) = HostsIn(store, v)
              /\ In(link', <<"variable", v>>) = In(link, <<"variable", v>>)
         /\ \A v \in AllLeaving(c) :
              /\ HostsIn(store, v) = {c} /\ HostsIn(store', v) = {}
              /\ In(link', <<"variable", v>>) = {<<c, RankOf(c, PortFrom(c, v))>>}
<1> DEFINE ms == Movers(c)
<1>1. /\ link' = Extended(link, ms)
      /\ \A d \in Clps : \A v \in Variables :
           direction'[d][v] = IF d = c /\ v \in AllLeaving(c) THEN PortFrom(c, v) ELSE direction[d][v]
      /\ \A d \in Clps : DOMAIN store'[d] = IF d = c THEN DOMAIN store[d] \ AllLeaving(c)
                                                     ELSE DOMAIN store[d]
      /\ \A d \in Clps : \A v \in DOMAIN store'[d] : store'[d][v] = store[d][v]
      /\ \A v \in Variables : accesses'[v] = IF v \in AllLeaving(c) THEN NoAccess ELSE accesses[v]
  BY MigrateFacts
<1>2. /\ GoodLinks(link) /\ Placed(store, link) /\ Directed(direction, store, link)
      /\ Counted(accesses, store)
  BY DEF IInv
<1>3. ASSUME NEW v \in AllLeaving(c)
      PROVE  /\ v \in Variables /\ HostsIn(store, v) = {c} /\ HostsIn(store', v) = {}
             /\ In(link, <<"variable", v>>) = {}
  <2>1. v \in Variables /\ c \in HostsIn(store, v)
    BY LeavingFacts
  <2>2. HostsIn(store, v) = {c} /\ In(link, <<"variable", v>>) = {}
    BY <1>2, <2>1 DEF Placed, AtMostOne
  <2>3. HostsIn(store', v) = {}
    BY <1>1, <2>2 DEF HostsIn
  <2> QED
    BY <2>1, <2>2, <2>3
<1>4. ASSUME NEW v, v \notin AllLeaving(c)
      PROVE  HostsIn(store', v) = HostsIn(store, v)
  BY <1>1, <1>4 DEF HostsIn
<1>5. /\ GoodLinks(ms)
      /\ \A m : In(ms, <<"access", m>>) = {} /\ In(ms, <<"response", m>>) = {}
      /\ \A v : v \notin AllLeaving(c) =>
           /\ In(ms, <<"variable", v>>) = {}
           /\ \A val : In(ms, <<"value", v, val>>) = {}
      /\ \A v \in AllLeaving(c) :
           /\ In(ms, <<"variable", v>>) = {<<c, RankOf(c, PortFrom(c, v))>>}
           /\ In(ms, <<"value", v, store[c][v]>>) # {}
  BY MoverFacts
<1> HIDE DEF ms
<1>6. /\ GoodLinks(link')
      /\ \A t : In(link', t) = In(link, t) \union In(ms, t)
  <2>1. ASSUME NEW t \in Things PROVE In(link, t) = {} \/ In(ms, t) = {}
    BY <1>3, <1>5 DEF Things
  <2> QED
    BY <1>1, <1>2, <1>5, <2>1, Joining
<1>7. \A m : /\ In(link', <<"access", m>>) = In(link, <<"access", m>>)
             /\ In(link', <<"response", m>>) = In(link, <<"response", m>>)
  BY <1>5, <1>6
<1>8. ASSUME NEW v, v \notin AllLeaving(c)
      PROVE  /\ In(link', <<"variable", v>>) = In(link, <<"variable", v>>)
             /\ \A val : In(link', <<"value", v, val>>) = In(link, <<"value", v, val>>)
  BY <1>5, <1>6, <1>8
<1>9. ASSUME NEW v \in AllLeaving(c)
      PROVE  In(link', <<"variable", v>>) = {<<c, RankOf(c, PortFrom(c, v))>>}
  BY <1>3, <1>5, <1>6
<1>10. Placed(store', link')
  <2> SUFFICES ASSUME NEW v \in Variables
               PROVE  /\ AtMostOne(HostsIn(store', v))
                      /\ HostsIn(store', v) = {} <=> In(link', <<"variable", v>>) # {}
    BY DEF Placed
  <2>1. CASE v \in AllLeaving(c)
    BY <1>3, <1>9, <2>1 DEF AtMostOne
  <2>2. CASE v \notin AllLeaving(c)
    BY <1>2, <1>4, <1>8, <2>2 DEF Placed
  <2> QED
    BY <2>1, <2>2
<1>11. Directed(direction', store', link')
  <2> SUFFICES ASSUME NEW v \in Variables, NEW d \in Clps
               PROVE  /\ \A h \in HostsIn(store', v) :
                           direction'[d][v] = IF d = h THEN "HERE" ELSE PortTo(d, NextClp(d, h))
                      /\ \A pair \in In(link', <<"variable", v>>) :
                           direction'[d][v] =
                             PortTo(d, IF d = pair[1] THEN pair[2] ELSE NextClp(d, pair[1]))
    BY DEF Directed
  <2>1. CASE v \in AllLeaving(c)
    <3>1. d # c => direction[d][v] = PortTo(d, NextClp(d, c))
      <4>1. c \in HostsIn(store, v)
        BY <1>3, <2>1
      <4> QED
        BY ZenonT(60), <1>2, <4>1 DEF Directed
    <3>2. PortTo(c, RankOf(c, PortFrom(c, v))) = PortFrom(c, v)
      BY <2>1, LeavingFacts
    <3>3. \A pair \in In(link', <<"variable", v>>) : pair[1] = c /\ pair[2] = RankOf(c, PortFrom(c, v))
      BY <1>9, <2>1
    <3> QED
      BY <1>1, <1>3, <2>1, <3>1, <3>2, <3>3
  <2>2. CASE v \notin AllLeaving(c)
    BY <1>1, <1>2, <1>4, <1>8, <2>2 DEF Directed
  <2> QED
    BY <2>1, <2>2
<1>12. Counted(accesses', store')
  <2> SUFFICES ASSUME NEW v \in Variables
               PROVE  /\ \A h \in HostsIn(store', v) : \A p \in Ports \ PortsOf(h) : accesses'[v][p] = 0
                      /\ HostsIn(store', v) = {} => accesses'[v] = NoAccess
    BY DEF Counted
  <2>1. CASE v \in AllLeaving(c)
    BY <1>1, <1>3, <2>1
  <2>2. CASE v \notin AllLeaving(c)
    BY <1>1, <1>2, <1>4, <2>2 DEF Counted
  <2> QED
    BY <2>1, <2>2
<1>13. ASSUME NEW v \in Variables
       PROVE  ContentsOf(store', link', v) = ContentsOf(store, link, v)
  <2>1. /\ link \in [Neighbours -> Seq(Messages)] /\ OneAtMost(link, <<"variable", v>>)
        /\ link' \in [Neighbours -> Seq(Messages)] /\ OneAtMost(link', <<"variable", v>>)
    BY <1>2, <1>6, ThingFacts DEF GoodLinks, TypedLinks
  <2>2. Holds(store, link, v, ContentsOf(store, link, v))
    BY <1>2, <2>1, ContentsIs
  <2> DEFINE val == ContentsOf(store, link, v)
  <2> HIDE DEF val
  <2>3. Holds(store', link', v, val)
    <3>1. Holds(store, link, v, val)
      BY <2>2 DEF val
    <3>2. CASE v \in AllLeaving(c)
      <4>1. In(link, <<"value", v, val>>) = {}
        BY <1>3, <2>1, <3>2, ValueOnce
      <4>2. val = store[c][v]
        BY <1>3, <3>1, <3>2, <4>1 DEF Holds
      <4> QED
        BY <1>5, <1>6, <3>2, <4>2 DEF Holds
    <3>3. CASE v \notin AllLeaving(c)
      BY <1>1, <1>4, <1>8, <3>1, <3>3 DEF Holds, HostsIn
    <3> QED
      BY <3>2, <3>3
  <2> QED
    BY <1>10, <2>1, <2>3, ContentsIs DEF val
<1> QED
  BY <1>3, <1>4, <1>6, <1>7, <1>8, <1>9, <1>10, <1>11, <1>12, <1>13

\* SetGvt keeps the invariant.
LEMMA SetGvtKeeps ==
  ASSUME IInv, NEW c \in Clps, SetGvt(c)
  PROVE  IInv' /\ ContentsStay
<1>1. /\ load' = [load EXCEPT ![c] = 0]
      /\ UNCHANGED <<agentVars, histVars>>
      /\ Migrate(c) \/ UNCHANGED <<direction, store, accesses, hops, link>>
  BY DEF SetGvt
<1>2. load' \in [Clps -> Nat]
  BY <1>1 DEF IInv, TypedClps
<1>3. TypedAgents' /\ Sent' = Sent /\ answered' = answered /\ moves' = moves
  BY <1>1, SentKept DEF IInv, TypedAgents, agentVars, histVars
<1>4. CASE UNCHANGED <<direction, store, accesses, hops, link>>
  BY <1>2, <1>3, <1>4 DEF IInv, TypedClps, ContentsStay
<1>5. CASE Migrate(c)
  <2>1. TypedClps'
    BY <1>2, <1>3, <1>5, MigrateFacts DEF IInv, TypedClps
  <2>2. /\ GoodLinks(link')
        /\ \A m : /\ In(link', <<"access", m>>) = In(link, <<"access", m>>)
                  /\ In(link', <<"response", m>>) = In(link, <<"response", m>>)
        /\ Placed(store', link') /\ Directed(direction', store', link')
        /\ Counted(accesses', store')
        /\ \A v \in Variables : ContentsOf(store', link', v) = ContentsOf(store, link, v)
    BY <1>5, MigrateMoves
  <2>3. ExecutedIn(store', link') = ExecutedIn(store, link)
    BY <2>2 DEF ExecutedIn
  <2>4. Conserved(ExecutedIn(store', link'), link', Sent', answered')
    BY <1>3, <2>2, <2>3 DEF IInv, Conserved
  <2> QED
    BY <1>3, <2>1, <2>2, <2>4 DEF IInv, ContentsStay
<1> QED
  BY <1>1, <1>4, <1>5

\* Where Receive takes its message.
FirstMigration(pair) == SelectInSeq(link[pair], LAMBDA m : m.kind = "migration")
Arriving(pair) == link[pair][FirstMigration(pair)].variables

\* What Receive does.
LEMMA ReceiveFacts ==
  ASSUME IInv, NEW pair \in IntoClp, Receive(pair[1], pair[2])
  PROVE  /\ pair \in Neighbours /\ pair = <<pair[1], pair[2]>>
         /\ pair[1] \in Clps /\ pair[2] \in Clps
         /\ FirstMigration(pair) \in 1 .. Len(link[pair])
         /\ link[pair][FirstMigration(pair)].kind = "migration"
         /\ Arriving(pair) \in Stores
         /\ link' = Without(link, pair, FirstMigration(pair))
         /\ direction' \in [Clps -> [Variables -> Ports \union {"HERE"}]]
         /\ \A d \in Clps : \A v \in Variables :
              direction'[d][v] = IF d = pair[2] /\ v \in DOMAIN Arriving(pair) THEN "HERE"
                                                                              ELSE direction[d][v]
         /\ store' \in [Clps -> Stores]
         /\ \A d \in Clps : DOMAIN store'[d] =
              IF d = pair[2] THEN DOMAIN store[d] \union DOMAIN Arriving(pair) ELSE DOMAIN store[d]
         /\ \A d \in Clps : \A v \in DOMAIN store'[d] :
              store'[d][v] = IF d = pair[2] /\ v \in DOMAIN Arriving(pair) THEN Arriving(pair)[v]
                                                                          ELSE store[d][v]
         /\ moves' \in [Variables -> Nat]
         /\ \A v \in Variables : moves'[v] = IF v \in DOMAIN Arriving(pair) THEN moves[v] + 1 ELSE moves[v]
         /\ UNCHANGED <<accesses, hops, load, agentVars, answered>>
<1> DEFINE x == pair[1]
           c == pair[2]
           i == FirstMigration(pair)
           arriving == Arriving(pair)
           here == [v \in DOMAIN arriving |-> "HERE"]
           more == [v \in DOMAIN arriving |-> moves[v] + 1]
<1>1. pair \in Neighbours /\ c \in Clps /\ pair = <<x, c>>
  BY NeighbourPair DEF IntoClp
<1>2. /\ i # 0
      /\ store' = [store EXCEPT ![c] = Updated(store[c], arriving)]
      /\ direction' = [direction EXCEPT ![c] = Updated(direction[c], here)]
      /\ moves' = Updated(moves, more)
      /\ link' = Without(link, pair, i)
      /\ UNCHANGED <<accesses, hops, load, agentVars, answered>>
  BY <1>1 DEF Receive, FirstMigration, Arriving, SetSsvIdDirection, Without
<1>3. TypedClps /\ TypedLinks(link) /\ link[pair] \in Seq(Messages)
  BY <1>1 DEF IInv, GoodLinks, TypedLinks
<1>4. i \in 1 .. Len(link[pair]) /\ link[pair][i].kind = "migration"
  <2> DEFINE I == {k \in 1 .. Len(link[pair]) : link[pair][k].kind = "migration"}
  <2>1. i = IF I # {} THEN Min(I) ELSE 0
    BY DEF FirstMigration, SelectInSeq
  <2>2. I \in SUBSET Nat
    BY <1>3, LenProperties
  <2>3. i \in I
    <3> HIDE DEF I
    <3> QED
      BY <1>2, <2>1, <2>2, MinOfSet
  <2> QED
    BY <2>3
<1> HIDE DEF i
<1>5. x \in Clps /\ arriving \in Stores
  <2>1. link[pair][i] \in Messages /\ Allowed(pair, link[pair][i])
    BY <1>1, <1>3, <1>4, ElementOfSeq DEF TypedLinks
  <2>2. pair \in Clps \X Clps
    BY <1>4, <2>1 DEF Allowed
  <2>3. arriving = link[pair][i].variables
    BY DEF Arriving, i
  <2> HIDE DEF arriving
  <2> QED
    BY <1>4, <2>1, <2>2, <2>3, ThingFacts
<1> HIDE DEF arriving
<1>6. DOMAIN arriving \in SUBSET Variables /\ arriving \in [DOMAIN arriving -> Seq(Accesses)]
  <2>1. PICK S \in SUBSET Variables : arriving \in [S -> Seq(Accesses)]
    BY <1>5 DEF Stores
  <2> QED
    BY <2>1
<1>7. /\ direction' \in [Clps -> [Variables -> Ports \union {"HERE"}]]
      /\ \A d \in Clps : \A v \in Variables :
           direction'[d][v] = IF d = c /\ v \in DOMAIN arriving THEN "HERE" ELSE direction[d][v]
  <2>1. direction[c] \in [Variables -> Ports \union {"HERE"}]
    BY <1>1, <1>3 DEF TypedClps
  <2>2. /\ Updated(direction[c], here) \in [Variables -> Ports \union {"HERE"}]
        /\ \A v \in Variables : Updated(direction[c], here)[v] =
             IF v \in DOMAIN arriving THEN "HERE" ELSE direction[c][v]
    BY <1>6, <2>1, SMT DEF Updated
  <2> HIDE DEF here
  <2> QED
    BY <1>1, <1>2, <1>3, <2>2 DEF TypedClps
<1>8. /\ store' \in [Clps -> Stores]
      /\ \A d \in Clps : DOMAIN store'[d] =
           IF d = c THEN DOMAIN store[d] \union DOMAIN arriving ELSE DOMAIN store[d]
      /\ \A d \in Clps : \A v \in DOMAIN store'[d] :
           store'[d][v] = IF d = c /\ v \in DOMAIN arriving THEN arriving[v] ELSE store[d][v]
  <2>1. /\ store[c] \in Stores /\ DOMAIN store[c] \in SUBSET Variables
        /\ \A v \in DOMAIN store[c] : store[c][v] \in Seq(Accesses)
    BY <1>1, <1>3, StoreFacts DEF TypedClps
  <2> DEFINE upd == Updated(store[c], arriving)
             D == DOMAIN store[c] \union DOMAIN arriving
  <2>2. /\ DOMAIN upd = D
        /\ \A v \in D : upd[v] = IF v \in DOMAIN arriving THEN arriving[v] ELSE store[c][v]
        /\ upd = [v \in D |-> upd[v]]
    BY DEF Updated
  <2> HIDE DEF upd
  <2>3. \A v \in D : upd[v] \in Seq(Accesses)
    BY <1>6, <2>1, <2>2
  <2>4. upd \in [D -> Seq(Accesses)] /\ D \in SUBSET Variables
    <3> HIDE DEF D
    <3>1. upd \in [D -> Seq(Accesses)]
      BY <2>2, <2>3
    <3> QED
      BY <1>6, <2>1, <3>1 DEF D
  <2>5. upd \in Stores
    BY <2>4, StoreFacts
  <2>6. store' = [store EXCEPT ![c] = upd]
    BY <1>2 DEF upd
  <2>7. store' \in [Clps -> Stores]
    BY <1>1, <1>3, <2>5, <2>6 DEF TypedClps
  <2>8. store'[c] = upd /\ \A d \in Clps : d # c => store'[d] = store[d]
    BY <1>1, <1>3, <2>6 DEF TypedClps
  <2> QED
    BY <2>2, <2>7, <2>8
<1>9. /\ moves' \in [Variables -> Nat]
      /\ \A v \in Variables : moves'[v] = IF v \in DOMAIN arriving THEN moves[v] + 1 ELSE moves[v]
  <2>1. moves \in [Variables -> Nat]
    BY <1>3 DEF TypedClps
  <2>2. /\ Updated(moves, more) \in [Variables -> Nat]
        /\ \A v \in Variables : Updated(moves, more)[v] =
             IF v \in DOMAIN arriving THEN moves[v] + 1 ELSE moves[v]
    BY <1>6, <2>1, SMT DEF Updated
  <2> QED
    BY <1>2, <2>2
<1> QED
  BY <1>1, <1>2, <1>4, <1>5, <1>7, <1>8, <1>9 DEF arriving, i

\* What Receive does to the variables: those that arrive are here, as they
\* were, and the tables lead here; the others are where they were.
LEMMA ReceiveMoves ==
  ASSUME IInv, NEW pair \in IntoClp, Receive(pair[1], pair[2])
  PROVE  /\ GoodLinks(link')
         /\ \A m \in Accesses : In(link', <<"access", m>>) = In(link, <<"access", m>>)
         /\ \A m \in Requests : In(link', <<"response", m>>) = In(link, <<"response", m>>)
         /\ Placed(store', link') /\ Directed(direction', store', link')
         /\ Counted(accesses, store')
         /\ \A v \in Variables : ContentsOf(store', link', v) = ContentsOf(store, link, v)
         /\ \A v \in Variables : v \notin DOMAIN Arriving(pair) =>
              /\ HostsIn(store', v) = HostsIn(store, v)
              /\ In(link', <<"variable", v>>) = In(link, <<"variable", v>>)
         /\ \A v \in DOMAIN Arriving(pair) :
              /\ In(link, <<"variable", v>>) = {pair} /\ HostsIn(store', v) = {pair[2]}
              /\ In(link', <<"variable", v>>) = {}
<1> DEFINE x == pair[1]
           c == pair[2]
           i == FirstMigration(pair)
           m == link[pair][i]
           A == DOMAIN Arriving(pair)
<1>1. /\ pair \in Neighbours /\ pair = <<x, c>> /\ x \in Clps /\ c \in Clps
      /\ i \in 1 .. Len(link[pair]) /\ m.kind = "migration" /\ m.variables = Arriving(pair)
      /\ Arriving(pair) \in Stores
      /\ link' = Without(link, pair, i)
      /\ \A d \in Clps : \A v \in Variables :
           direction'[d][v] = IF d = c /\ v \in A THEN "HERE" ELSE direction[d][v]
      /\ \A d \in Clps : DOMAIN store'[d] =
           IF d = c THEN DOMAIN store[d] \union A ELSE DOMAIN store[d]
      /\ \A d \in Clps : \A v \in DOMAIN store'[d] :
           store'[d][v] = IF d = c /\ v \in A THEN Arriving(pair)[v] ELSE store[d][v]
  BY ReceiveFacts DEF Arriving
<1> HIDE DEF i, m
<1>2. /\ GoodLinks(link) /\ Placed(store, link) /\ Directed(direction, store, link)
      /\ Counted(accesses, store)
  BY DEF IInv
<1>3. /\ GoodLinks(link')
      /\ \A t : OneAtMost(link, t) =>
           /\ Carries(m, t) => In(link, t) = {pair} /\ In(link', t) = {}
           /\ ~Carries(m, t) => In(link', t) = In(link, t)
  BY <1>1, <1>2, TakingAny DEF m
<1>4. \A t \in Things : OneAtMost(link, t)
  BY <1>2 DEF GoodLinks
<1>5. A \subseteq Variables
  BY <1>1, StoreFacts
<1>6. ASSUME NEW v \in A
      PROVE  /\ v \in Variables /\ In(link, <<"variable", v>>) = {pair} /\ In(link', <<"variable", v>>) = {}
             /\ HostsIn(store, v) = {} /\ HostsIn(store', v) = {c}
  <2>1. v \in Variables /\ <<"variable", v>> \in Things
    BY <1>5, ThingFacts
  <2>2. Carries(m, <<"variable", v>>)
    BY <1>1, CarriesFacts
  <2>3. In(link, <<"variable", v>>) = {pair} /\ In(link', <<"variable", v>>) = {}
    BY <1>3, <1>4, <2>1, <2>2
  <2>4. HostsIn(store, v) = {}
    BY <1>2, <2>1, <2>3 DEF Placed
  <2>5. HostsIn(store', v) = {c}
    BY ZenonT(60), <1>1, <2>4 DEF HostsIn
  <2> QED
    BY <2>1, <2>3, <2>4, <2>5
<1>7. ASSUME NEW v \in Variables, v \notin A
      PROVE  /\ HostsIn(store', v) = HostsIn(store, v)
             /\ In(link', <<"variable", v>>) = In(link, <<"variable", v>>)
             /\ \A val : In(link', <<"value", v, val>>) = In(link, <<"value", v, val>>)
  <2>1. OneAtMost(link, <<"variable", v>>) /\ \A val : OneAtMost(link, <<"value", v, val>>)
    BY <1>4, ThingFacts, ValueOnce
  <2>2. ~Carries(m, <<"variable", v>>) /\ \A val : ~Carries(m, <<"value", v, val>>)
    BY <1>1, <1>7, CarriesFacts
  <2>3. HostsIn(store', v) = HostsIn(store, v)
    BY <1>1, <1>7 DEF HostsIn
  <2> QED
    BY <1>3, <2>1, <2>2, <2>3
<1>8. /\ \A q \in Accesses : In(link', <<"access", q>>) = In(link, <<"access", q>>)
      /\ \A q \in Requests : In(link', <<"response", q>>) = In(link, <<"response", q>>)
  <2>1. \A q : ~Carries(m, <<"access", q>>) /\ ~Carries(m, <<"response", q>>)
    BY <1>1, CarriesFacts
  <2> QED
    BY <1>3, <1>4, <2>1, ThingFacts
<1>9. Placed(store', link')
  <2> SUFFICES ASSUME NEW v \in Variables
               PROVE  /\ AtMostOne(HostsIn(store', v))
                      /\ HostsIn(store', v) = {} <=> In(link', <<"variable", v>>) # {}
    BY DEF Placed
  <2>1. CASE v \in A
    BY <1>6, <2>1 DEF AtMostOne
  <2>2. CASE v \notin A
    BY <1>2, <1>7, <2>2 DEF Placed
  <2> QED
    BY <2>1, <2>2
<1>10. Directed(direction', store', link')
  <2> SUFFICES ASSUME NEW v \in Variables, NEW d \in Clps
               PROVE  /\ \A h \in HostsIn(store', v) :
                           direction'[d][v] = IF d = h THEN "HERE" ELSE PortTo(d, NextClp(d, h))
                      /\ \A p \in In(link', <<"variable", v>>) :
                           direction'[d][v] =
                             PortTo(d, IF d = p[1] THEN p[2] ELSE NextClp(d, p[1]))
    BY DEF Directed
  <2>1. CASE v \in A
    <3>1. direction[d][v] = PortTo(d, IF d = x THEN c ELSE NextClp(d, x))
      <4>1. v \in Variables /\ pair \in In(link, <<"variable", v>>)
        BY <1>6, <2>1
      <4> QED
        BY <1>2, <4>1 DEF Directed
    <3>2. d # c => (IF d = x THEN c ELSE NextClp(d, x)) = NextClp(d, c)
      BY <1>1, NextToNeighbour, NextAlike
    <3>3. direction'[d][v] = IF d = c THEN "HERE" ELSE direction[d][v]
      BY <1>1, <2>1
    <3> QED
      BY <1>6, <2>1, <3>1, <3>2, <3>3
  <2>2. CASE v \notin A
    <3>1. direction'[d][v] = direction[d][v]
      BY <1>1, <2>2
    <3> QED
      BY <1>2, <1>7, <2>2, <3>1 DEF Directed
  <2> QED
    BY <2>1, <2>2
<1>11. Counted(accesses, store')
  <2> SUFFICES ASSUME NEW v \in Variables
               PROVE  /\ \A h \in HostsIn(store', v) : \A p \in Ports \ PortsOf(h) : accesses[v][p] = 0
                      /\ HostsIn(store', v) = {} => accesses[v] = NoAccess
    BY DEF Counted
  <2>1. CASE v \in A
    <3>1. accesses[v] = NoAccess
      BY <1>2, <1>6, <2>1 DEF Counted
    <3> QED
      BY <1>6, <2>1, <3>1 DEF NoAccess
  <2>2. CASE v \notin A
    BY <1>2, <1>7, <2>2 DEF Counted
  <2> QED
    BY <2>1, <2>2
<1>12. ASSUME NEW v \in Variables
       PROVE  ContentsOf(store', link', v) = ContentsOf(store, link, v)
  <2>1. /\ link \in [Neighbours -> Seq(Messages)] /\ OneAtMost(link, <<"variable", v>>)
        /\ link' \in [Neighbours -> Seq(Messages)] /\ OneAtMost(link', <<"variable", v>>)
    BY <1>2, <1>3, ThingFacts DEF GoodLinks, TypedLinks
  <2>2. CASE v \in A
    <3> DEFINE val == Arriving(pair)[v]
    <3>1. Carries(m, <<"value", v, val>>)
      BY <1>1, <2>2, CarriesFacts
    <3>2. OneAtMost(link, <<"value", v, val>>)
      BY <2>1, ValueOnce
    <3>3. In(link, <<"value", v, val>>) # {}
      <4> HIDE DEF val
      <4> QED
        BY <1>3, <3>1, <3>2
    <3>4. Holds(store', link', v, val)
      BY <1>1, <1>6, <2>2 DEF Holds
    <3> HIDE DEF val
    <3>5. Holds(store, link, v, val)
      BY <3>3 DEF Holds
    <3> QED
      BY <1>2, <1>9, <2>1, <3>4, <3>5, ContentsIs
  <2>3. CASE v \notin A
    <3> DEFINE val == ContentsOf(store, link, v)
    <3>1. Holds(store, link, v, val)
      BY <1>2, <2>1, ContentsIs
    <3> HIDE DEF val
    <3>2. Holds(store', link', v, val)
      <4>1. CASE In(link, <<"value", v, val>>) # {}
        BY <1>7, <2>3, <4>1 DEF Holds
      <4>2. CASE \E d \in HostsIn(store, v) : store[d][v] = val
        <5>1. PICK d \in HostsIn(store, v) : store[d][v] = val
          BY <4>2
        <5>2. d \in HostsIn(store', v) /\ d \in Clps /\ v \in DOMAIN store'[d]
          BY <1>7, <2>3 DEF HostsIn
        <5>3. store'[d][v] = val
          BY <1>1, <2>3, <5>1, <5>2
        <5> QED
          BY <5>2, <5>3 DEF Holds
      <4> QED
        BY <3>1, <4>1, <4>2 DEF Holds
    <3> QED
      BY <1>9, <2>1, <3>2, ContentsIs DEF val
  <2> QED
    BY <2>2, <2>3
<1> QED
  BY <1>3, <1>6, <1>7, <1>8, <1>9, <1>10, <1>11, <1>12

\* Receive keeps the invariant.
LEMMA ReceiveKeeps ==
  ASSUME IInv, NEW pair \in IntoClp, Receive(pair[1], pair[2])
  PROVE  IInv' /\ ContentsStay
<1>1. UNCHANGED <<accesses, hops, load, agentVars, answered>>
  BY ReceiveFacts
<1>2. TypedClps'
  BY <1>1, ReceiveFacts DEF IInv, TypedClps
<1>3. TypedAgents' /\ Sent' = Sent
  BY <1>1, SentKept DEF IInv, TypedAgents, agentVars
<1>4. /\ GoodLinks(link')
      /\ \A m \in Accesses : In(link', <<"access", m>>) = In(link, <<"access", m>>)
      /\ \A m \in Requests : In(link', <<"response", m>>) = In(link, <<"response", m>>)
      /\ Placed(store', link') /\ Directed(direction', store', link')
      /\ Counted(accesses, store')
      /\ \A v \in Variables : ContentsOf(store', link', v) = ContentsOf(store, link, v)
  BY ReceiveMoves
<1>5. ExecutedIn(store', link') = ExecutedIn(store, link)
  BY <1>4 DEF ExecutedIn
<1>6. Conserved(ExecutedIn(store', link'), link', Sent', answered')
  BY <1>1, <1>3, <1>4, <1>5 DEF IInv, Conserved
<1> QED
  BY <1>1, <1>2, <1>3, <1>4, <1>6 DEF IInv, ContentsStay

-----------------------------------------------------------------------------
(* The agents and their ALPs.                                              *)

\* A list without its first element.
LEMMA TailIsRemoval ==
  ASSUME NEW S, NEW s \in Seq(S), s # <<>>
  PROVE  Tail(s) = RemoveAt(s, 1) /\ Head(s) = s[1] /\ 1 \in 1 .. Len(s)
<1>1. Len(s) \in Nat /\ Len(s) # 0
  BY EmptySeq, LenProperties
<1>2. /\ Tail(s) \in Seq(S) /\ Len(Tail(s)) = Len(s) - 1 /\ Head(s) = s[1]
      /\ \A k \in 1 .. Len(s) - 1 : Tail(s)[k] = s[k + 1]
  BY HeadTailProperties
<1>3. /\ RemoveAt(s, 1) \in Seq(S) /\ Len(RemoveAt(s, 1)) = Len(s) - 1
      /\ \A k \in 1 .. Len(s) - 1 : RemoveAt(s, 1)[k] = s[k + 1]
  BY <1>1, RemoveAtSeq
<1>4. Tail(s) = RemoveAt(s, 1)
  BY <1>2, <1>3, SeqEqual
<1> QED
  BY <1>1, <1>2, <1>4

\* What AlpReceive does: a response leaves the link, and the request is answered.
LEMMA AlpReceiveFacts ==
  ASSUME IInv, NEW r \in Alps, AlpReceive(r)
  PROVE  \E m \in Requests :
           /\ m \in ExecutedIn(store, link) /\ m \in Sent /\ m \notin answered
           /\ answered' = answered \union {m}
           /\ waitingFor' = [waitingFor EXCEPT ![m.agent] = IF @ = m.n THEN 0 ELSE @]
           /\ GoodLinks(link') /\ SameFlights(link, link')
           /\ \A x \in Accesses : In(link', <<"access", x>>) = In(link, <<"access", x>>)
           /\ \A x \in Requests : In(link', <<"response", x>>) =
                                    IF x = m THEN {} ELSE In(link, <<"response", x>>)
           /\ In(link, <<"response", m>>) # {}
           /\ \E p \in Neighbours : /\ 1 \in 1 .. Len(link[p]) /\ link[p][1].kind = "response"
                                    /\ link' = Without(link, p, 1)
           /\ UNCHANGED <<clpVars, asked, sendList, moves>>
<1> DEFINE in == <<AlpToClp[r], r>>
           msg == link[in][1]
           m == msg.access
<1>1. in \in Neighbours /\ in[2] = r /\ r \notin Clps
  BY ClpTreeAssumption DEF Neighbours
<1> HIDE DEF in
<1>2. GoodLinks(link) /\ link[in] \in Seq(Messages)
  BY <1>1 DEF IInv, GoodLinks, TypedLinks
<1>3. /\ link[in] # <<>>
      /\ answered' = answered \union {Head(link[in]).access}
      /\ waitingFor' = [waitingFor EXCEPT ![Head(link[in]).access.agent] =
                          IF @ = Head(link[in]).access.n THEN 0 ELSE @]
      /\ link' = [link EXCEPT ![in] = Tail(@)]
      /\ UNCHANGED <<clpVars, asked, sendList, moves>>
  BY DEF AlpReceive, in
<1>4. /\ Tail(link[in]) = RemoveAt(link[in], 1) /\ Head(link[in]) = msg
      /\ 1 \in 1 .. Len(link[in])
  BY <1>2, <1>3, TailIsRemoval
<1>5. link' = Without(link, in, 1)
  BY <1>3, <1>4 DEF Without
<1>6. msg \in Messages /\ Allowed(in, msg)
  BY <1>1, <1>2, <1>4, ElementOfSeq DEF GoodLinks, TypedLinks
<1>7. msg.kind = "response" /\ m \in Requests
  <2>1. msg.kind # "access" /\ msg.kind # "migration"
    <3> HIDE DEF msg
    <3>1. in \in Clps \X Clps => in[2] \in Clps
      OBVIOUS
    <3> QED
      BY <1>1, <1>6, <3>1 DEF Allowed
  <2> HIDE DEF msg
  <2> QED
    BY <1>6, <2>1, ThingFacts
<1>8. /\ GoodLinks(link') /\ SameFlights(link, link')
      /\ In(link, <<msg.kind, msg.access>>) = {in}
      /\ \A x \in Accesses : In(link', <<"access", x>>) =
           IF msg.kind = "access" /\ msg.access = x THEN {} ELSE In(link, <<"access", x>>)
      /\ \A x \in Requests : In(link', <<"response", x>>) =
           IF msg.kind = "response" /\ msg.access = x THEN {} ELSE In(link, <<"response", x>>)
  BY <1>1, <1>2, <1>4, <1>5, <1>7, Taking
<1>9. m \in ExecutedIn(store, link) /\ m \in Sent /\ m \notin answered
  <2>1. Conserved(ExecutedIn(store, link), link, Sent, answered)
    BY DEF IInv
  <2>2. m \in Requests /\ m \in Accesses /\ In(link, <<"response", m>>) = {in}
    BY <1>7, <1>8, ThingFacts
  <2> HIDE DEF msg
  <2> QED
    BY <2>1, <2>2 DEF Conserved
<1>10. \E p \in Neighbours : /\ 1 \in 1 .. Len(link[p]) /\ link[p][1].kind = "response"
                             /\ link' = Without(link, p, 1)
  BY <1>1, <1>4, <1>5, <1>7
<1> HIDE DEF msg
<1> QED
  BY <1>3, <1>4, <1>7, <1>8, <1>9, <1>10

\* AlpReceive keeps the invariant.
LEMMA AlpReceiveKeeps ==
  ASSUME IInv, NEW r \in Alps, AlpReceive(r)
  PROVE  IInv' /\ ContentsStay
<1>1. PICK m \in Requests :
           /\ m \in ExecutedIn(store, link) /\ m \in Sent /\ m \notin answered
           /\ answered' = answered \union {m}
           /\ waitingFor' = [waitingFor EXCEPT ![m.agent] = IF @ = m.n THEN 0 ELSE @]
           /\ GoodLinks(link') /\ SameFlights(link, link')
           /\ \A x \in Accesses : In(link', <<"access", x>>) = In(link, <<"access", x>>)
           /\ \A x \in Requests : In(link', <<"response", x>>) =
                                    IF x = m THEN {} ELSE In(link, <<"response", x>>)
           /\ In(link, <<"response", m>>) # {}
           /\ UNCHANGED <<clpVars, asked, sendList, moves>>
  BY AlpReceiveFacts
<1>2. /\ GoodLinks(link) /\ Placed(store, link) /\ Directed(direction, store, link)
      /\ Counted(accesses, store) /\ Conserved(ExecutedIn(store, link), link, Sent, answered)
      /\ TypedClps /\ TypedAgents
  BY DEF IInv
<1>3. TypedClps' /\ store' = store /\ direction' = direction /\ accesses' = accesses
  BY <1>1, <1>2 DEF TypedClps, clpVars
<1>4. TypedAgents'
  <2>1. waitingFor' \in [Agents -> Numbers \union {0}]
    <3>1. waitingFor \in [Agents -> Numbers \union {0}]
      BY <1>2 DEF TypedAgents
    <3>2. waitingFor' = [waitingFor EXCEPT ![m.agent] = IF @ = m.n THEN 0 ELSE @]
      BY <1>1
    <3> QED
      BY <3>1, <3>2
  <2>2. answered' \in SUBSET Requests
    BY <1>1, <1>2 DEF TypedAgents
  <2> QED
    BY <1>1, <1>2, <2>1, <2>2 DEF TypedAgents
<1>5. Sent' = Sent
  BY <1>1 DEF Sent, SentRequests, Cancelled
<1>6. Placed(store, link') /\ Directed(direction, store, link')
  BY <1>1, <1>2, Undisturbed
<1>7. ExecutedIn(store, link') = ExecutedIn(store, link) /\ ContentsStay
  BY <1>1, <1>2, <1>3, ContentsKept DEF ContentsStay
<1>8. Conserved(ExecutedIn(store, link), link', Sent, answered')
  BY <1>1, <1>2 DEF Conserved
<1> QED
  BY <1>1, <1>2, <1>3, <1>4, <1>5, <1>6, <1>7, <1>8 DEF IInv

\* The anti-message of a request.
AntiOf(q) == [q EXCEPT !.type = "anti"]

\* Different requests have different anti-messages, which are not requests.
LEMMA AntiFacts ==
  /\ \A q \in Requests : AntiOf(q) \in Antis
  /\ \A q, r \in Requests : AntiOf(q) = AntiOf(r) => q = r
  /\ Requests \intersect Antis = {} /\ Accesses = Requests \union Antis
BY DEF Requests, Antis, Accesses, AntiOf

\* The requests issued, those cancelled, and all messages sent.
SentBy(ask) == UNION {{Access("request", a, n, ask[a][n].var) : n \in DOMAIN ask[a]} : a \in Agents}
CancelledFrom(ask, lists) == {q \in SentBy(ask) : q \notin ToSet(lists[q.agent])}
SentIn(ask, lists) == SentBy(ask) \union {AntiOf(q) : q \in CancelledFrom(ask, lists)}

\* These are what Routing calls the messages sent.
LEMMA SentIs == Sent = SentIn(asked, sendList) /\ Sent' = SentIn(asked', sendList')
BY DEF Sent, SentRequests, Cancelled, SentIn, SentBy, CancelledFrom, AntiOf

\* What a request issued looks like.
LEMMA SentByFacts ==
  ASSUME NEW ask
  PROVE  \A q : q \in SentBy(ask) <=>
           \E a \in Agents : \E n \in DOMAIN ask[a] : q = Access("request", a, n, ask[a][n].var)
<1> TAKE q
<1>1. ASSUME q \in SentBy(ask)
      PROVE  \E a \in Agents : \E n \in DOMAIN ask[a] : q = Access("request", a, n, ask[a][n].var)
  <2>1. PICK a \in Agents : q \in {Access("request", a, n, ask[a][n].var) : n \in DOMAIN ask[a]}
    BY <1>1, Zenon DEF SentBy
  <2> QED
    BY <2>1
<1>2. ASSUME NEW a \in Agents, NEW n \in DOMAIN ask[a], q = Access("request", a, n, ask[a][n].var)
      PROVE  q \in SentBy(ask)
  <2>1. q \in {Access("request", a, k, ask[a][k].var) : k \in DOMAIN ask[a]}
    BY <1>2
  <2> QED
    BY <2>1, Zenon DEF SentBy
<1> QED
  BY <1>1, <1>2

\* What Issue does: there is one more request, which is on its way, on the send
\* list, and has not been sent before.
LEMMA IssueFacts ==
  ASSUME IInv, NEW a \in Agents, NEW v \in Variables, Issue(a, v)
  PROVE  \E q \in Requests :
           /\ q = Access("request", a, Len(asked[a]) + 1, v)
           /\ asked' = [asked EXCEPT ![a] = Append(@, [var |-> v, era |-> moves[v]])]
           /\ q \notin Sent /\ Sent' = Sent \union {q}
           /\ link' = With(link, ToParent(a), Carried(q, 0))
           /\ TypedAgents'
           /\ UNCHANGED <<clpVars, histVars>>
<1> DEFINE n == Len(asked[a]) + 1
           q == Access("request", a, n, v)
           entry == [var |-> v, era |-> moves[v]]
<1>1. TypedAgents /\ moves \in [Variables -> Nat] /\ TypedLinks(link)
  BY DEF IInv, TypedClps, GoodLinks
<1>2. /\ n <= MaxRequests[a]
      /\ asked' = [asked EXCEPT ![a] = Append(asked[a], entry)]
      /\ waitingFor' = [waitingFor EXCEPT ![a] = n]
      /\ sendList' = [sendList EXCEPT ![a] = Append(sendList[a], q)]
      /\ link' = Queue(a, <<Carried(q, 0)>>)
      /\ UNCHANGED <<clpVars, histVars>>
  BY DEF Issue
<1>3. /\ asked[a] \in Seq([var : Variables, era : Nat]) /\ entry \in [var : Variables, era : Nat]
      /\ sendList[a] \in Seq(Requests)
  BY <1>1 DEF TypedAgents
<1>4. n \in Numbers /\ n \in Nat /\ Len(asked[a]) \in Nat
  <2>1. Len(asked[a]) \in Nat /\ MaxRequests[a] \in Nat
    BY <1>3, LenProperties, RoutingAssumption
  <2>2. n \in 1 .. MaxRequests[a]
    BY <1>2, <2>1
  <2> QED
    BY <2>1, <2>2 DEF Numbers
<1>5. q \in Requests /\ q.agent = a /\ q.n = n /\ q.var = v /\ q.type = "request"
  BY <1>4 DEF Access, Requests
<1> HIDE DEF entry
<1>6. /\ asked'[a] \in Seq([var : Variables, era : Nat]) /\ Len(asked'[a]) = n
      /\ DOMAIN asked'[a] = 1 .. n /\ DOMAIN asked[a] = 1 .. n - 1
      /\ \A k \in 1 .. n - 1 : asked'[a][k] = asked[a][k]
      /\ asked'[a][n].var = v
      /\ \A b \in Agents : b # a => asked'[b] = asked[b]
      /\ asked' \in [Agents -> Seq([var : Variables, era : Nat])]
  <2> DEFINE s == Append(asked[a], entry)
  <2>1. /\ s \in Seq([var : Variables, era : Nat]) /\ Len(s) = n
        /\ \A k \in 1 .. Len(asked[a]) : s[k] = asked[a][k]
        /\ s[n] = entry
    BY <1>3, AppendProperties
  <2>2. /\ asked'[a] = s /\ \A b \in Agents : b # a => asked'[b] = asked[b]
        /\ asked' \in [Agents -> Seq([var : Variables, era : Nat])]
    BY <1>1, <1>2, <2>1 DEF TypedAgents
  <2> HIDE DEF s
  <2>3. DOMAIN s = 1 .. n /\ DOMAIN asked[a] = 1 .. n - 1 /\ 1 .. Len(asked[a]) = 1 .. n - 1
    BY <1>3, <1>4, <2>1, LenProperties
  <2>4. entry.var = v
    BY DEF entry
  <2> QED
    BY <2>1, <2>2, <2>3, <2>4
<1>7. /\ sendList'[a] = Append(sendList[a], q) /\ \A b \in Agents : b # a => sendList'[b] = sendList[b]
      /\ Append(sendList[a], q) \in Seq(Requests)
      /\ Len(Append(sendList[a], q)) = Len(sendList[a]) + 1 /\ Len(sendList[a]) \in Nat
      /\ \A k \in 1 .. Len(sendList[a]) : Append(sendList[a], q)[k] = sendList[a][k]
      /\ Append(sendList[a], q)[Len(sendList[a]) + 1] = q
      /\ sendList' \in [Agents -> Seq(Requests)]
      /\ ToSet(sendList'[a]) = ToSet(sendList[a]) \union {q}
  <2> HIDE DEF q
  <2>1. /\ Append(sendList[a], q) \in Seq(Requests)
        /\ Len(Append(sendList[a], q)) = Len(sendList[a]) + 1 /\ Len(sendList[a]) \in Nat
        /\ \A k \in 1 .. Len(sendList[a]) : Append(sendList[a], q)[k] = sendList[a][k]
        /\ Append(sendList[a], q)[Len(sendList[a]) + 1] = q
        /\ ToSet(Append(sendList[a], q)) = ToSet(sendList[a]) \union {q}
    BY <1>3, <1>5, AppendProperties, LenProperties, ToSetAppend
  <2>2. /\ sendList'[a] = Append(sendList[a], q) /\ \A b \in Agents : b # a => sendList'[b] = sendList[b]
        /\ sendList' \in [Agents -> Seq(Requests)]
    BY <1>1, <1>2, <2>1 DEF TypedAgents
  <2> QED
    BY <2>1, <2>2
<1> HIDE DEF q
<1>8. SentBy(asked') = SentBy(asked) \union {q}
  <2>1. \A x : x \in SentBy(asked) => x \in SentBy(asked')
    <3> TAKE x
    <3> HAVE x \in SentBy(asked)
    <3>a. PICK b \in Agents : \E k \in DOMAIN asked[b] : x = Access("request", b, k, asked[b][k].var)
      BY SentByFacts
    <3>1. PICK k \in DOMAIN asked[b] : x = Access("request", b, k, asked[b][k].var)
      BY <3>a
    <3>2. k \in DOMAIN asked'[b] /\ asked'[b][k] = asked[b][k]
      <4>1. CASE b = a
        <5>1. k \in 1 .. n - 1 /\ n \in Nat /\ DOMAIN asked'[a] = 1 .. n
          BY <1>4, <1>6, <4>1
        <5>2. k \in 1 .. n
          BY <5>1
        <5> QED
          BY <1>6, <4>1, <5>1, <5>2
      <4>2. CASE b # a
        <5>1. asked'[b] = asked[b]
          BY <1>6, <4>2
        <5> QED
          BY <3>1, <5>1
      <4> QED
        BY <4>1, <4>2
    <3> QED
      BY <3>1, <3>2, SentByFacts
  <2>2. q \in SentBy(asked')
    <3>1. n \in DOMAIN asked'[a] /\ q = Access("request", a, n, asked'[a][n].var)
      BY <1>4, <1>6 DEF q
    <3> QED
      BY <3>1, SentByFacts
  <2>3. \A x : x \in SentBy(asked') => x = q \/ x \in SentBy(asked)
    <3> TAKE x
    <3> HAVE x \in SentBy(asked')
    <3>a. PICK b \in Agents : \E k \in DOMAIN asked'[b] : x = Access("request", b, k, asked'[b][k].var)
      BY SentByFacts
    <3>1. PICK k \in DOMAIN asked'[b] : x = Access("request", b, k, asked'[b][k].var)
      BY <3>a
    <3>2. CASE b = a /\ k = n
      BY <1>6, <3>1, <3>2 DEF q
    <3>3. CASE ~(b = a /\ k = n)
      <4>1. k \in DOMAIN asked[b] /\ asked'[b][k] = asked[b][k]
        BY <1>4, <1>6, <3>1, <3>3
      <4> QED
        BY <3>1, <4>1, SentByFacts
    <3> QED
      BY <3>2, <3>3
  <2> QED
    BY <2>1, <2>2, <2>3
<1>9. q \notin SentBy(asked)
  <2> SUFFICES ASSUME q \in SentBy(asked) PROVE FALSE
    OBVIOUS
  <2>a. PICK b \in Agents : \E k \in DOMAIN asked[b] : q = Access("request", b, k, asked[b][k].var)
    BY SentByFacts
  <2>1. PICK k \in DOMAIN asked[b] : q = Access("request", b, k, asked[b][k].var)
    BY <2>a
  <2>2. q.agent = b /\ q.n = k
    BY <2>1 DEF Access
  <2> QED
    BY <1>4, <1>5, <1>6, <2>1, <2>2
<1>10. \A x \in SentBy(asked) : x.agent \in Agents
  <2> TAKE x \in SentBy(asked)
  <2>a. PICK b \in Agents : \E k \in DOMAIN asked[b] : x = Access("request", b, k, asked[b][k].var)
    BY SentByFacts
  <2>1. PICK k \in DOMAIN asked[b] : x = Access("request", b, k, asked[b][k].var)
    BY <2>a
  <2> QED
    BY <2>1 DEF Access
<1>11. CancelledFrom(asked', sendList') = CancelledFrom(asked, sendList)
  <2>1. \A x \in SentBy(asked) : x \in ToSet(sendList'[x.agent]) <=> x \in ToSet(sendList[x.agent])
    BY <1>7, <1>9, <1>10
  <2>2. q \in ToSet(sendList'[q.agent])
    BY <1>5, <1>7
  <2> QED
    BY <1>8, <2>1, <2>2 DEF CancelledFrom
<1>12. Sent' = Sent \union {q}
  BY <1>8, <1>11, SentIs DEF SentIn
<1>13. q \notin Sent
  <2>1. \A x \in CancelledFrom(asked, sendList) : AntiOf(x) # q
    <3> TAKE x \in CancelledFrom(asked, sendList)
    <3>a. PICK b \in Agents : \E k \in DOMAIN asked[b] : x = Access("request", b, k, asked[b][k].var)
      BY SentByFacts DEF CancelledFrom
    <3>1. PICK k \in DOMAIN asked[b] : x = Access("request", b, k, asked[b][k].var)
      BY <3>a
    <3>2. AntiOf(x).type = "anti"
      BY <3>1 DEF AntiOf, Access
    <3> QED
      BY <1>5, <3>2
  <2> QED
    BY <1>9, <2>1, SentIs DEF SentIn
<1>14. link' = With(link, ToParent(a), Carried(q, 0))
  <2>1. ToParent(a) \in Neighbours
    BY RoutingAssumption DEF ToParent, Neighbours
  <2>2. link[ToParent(a)] \in Seq(Messages)
    BY <1>1, <2>1 DEF TypedLinks
  <2>3. Append(link[ToParent(a)], Carried(q, 0)) = link[ToParent(a)] \o <<Carried(q, 0)>>
    BY <2>2, AppendIsConcat
  <2> QED
    BY <1>2, <2>3 DEF Queue, With
<1>15. TypedAgents'
  <2>1. waitingFor' \in [Agents -> Numbers \union {0}]
    <3>1. waitingFor \in [Agents -> Numbers \union {0}]
      BY <1>1 DEF TypedAgents
    <3> HIDE DEF n
    <3> QED
      BY <1>2, <1>4, <3>1
  <2>2. answered' \in SUBSET Requests
    BY <1>1, <1>2 DEF TypedAgents, histVars
  <2>3. ASSUME NEW b \in Agents
        PROVE  GoodList(b, asked'[b], sendList'[b])
    <3>1. CASE b # a
      <4>1. asked'[b] = asked[b] /\ sendList'[b] = sendList[b]
        BY <1>6, <1>7, <3>1
      <4> QED
        BY <1>1, <4>1 DEF TypedAgents
    <3>2. CASE b = a
      <4>1. GoodList(a, asked[a], sendList[a])
        BY <1>1 DEF TypedAgents
      <4> DEFINE s == sendList[a]
                 t == sendList'[a]
      <4>2. /\ Len(t) = Len(s) + 1 /\ Len(s) \in Nat /\ t[Len(s) + 1] = q
            /\ \A k \in 1 .. Len(s) : t[k] = s[k]
        BY <1>7
      <4>3. /\ Len(asked'[a]) = n /\ n <= MaxRequests[a] /\ Len(asked[a]) = n - 1
            /\ \A k \in 1 .. n - 1 : asked'[a][k] = asked[a][k]
            /\ asked'[a][n].var = v /\ n \in Nat
        BY <1>2, <1>4, <1>6
      <4> HIDE DEF s, t, n
      <4>4. /\ \A k \in 1 .. Len(s) : s[k].agent = a /\ s[k].n \in 1 .. n - 1 /\ s[k].var = asked[a][s[k].n].var
            /\ \A k, l \in 1 .. Len(s) : s[k] = s[l] => k = l
        BY <4>1, <4>3 DEF GoodList, s
      <4>5. \A k \in 1 .. Len(t) : (k \in 1 .. Len(s) /\ t[k] = s[k]) \/ (k = Len(s) + 1 /\ t[k] = q)
        BY <4>2
      <4>6. \A k \in 1 .. Len(t) :
              t[k].agent = a /\ t[k].n \in 1 .. n /\ t[k].var = asked'[a][t[k].n].var
        <5> TAKE k \in 1 .. Len(t)
        <5>1. CASE k \in 1 .. Len(s) /\ t[k] = s[k]
          <6>1. s[k].agent = a /\ s[k].n \in 1 .. n - 1 /\ s[k].var = asked[a][s[k].n].var
            BY <4>4, <5>1
          <6>2. asked'[a][s[k].n] = asked[a][s[k].n]
            BY <4>3, <6>1
          <6>3. s[k].n \in 1 .. n
            BY <4>3, <6>1
          <6> QED
            BY <5>1, <6>1, <6>2, <6>3
        <5>2. CASE t[k] = q
          BY <1>5, <4>3, <5>2
        <5> QED
          BY <4>5, <5>1, <5>2
      <4>7. \A k, l \in 1 .. Len(t) : t[k] = t[l] => k = l
        <5>1. \A k \in 1 .. Len(s) : s[k] # q
          BY <1>5, <4>3, <4>4
        <5> QED
          BY <4>4, <4>5, <5>1
      <4> QED
        BY <3>2, <4>3, <4>6, <4>7 DEF GoodList, t
    <3> QED
      BY <3>1, <3>2
  <2> QED
    BY <1>6, <1>7, <2>1, <2>2, <2>3 DEF TypedAgents
<1> QED
  BY <1>2, <1>5, <1>12, <1>13, <1>14, <1>15 DEF q, entry

\* Issue keeps the invariant.
LEMMA IssueKeeps ==
  ASSUME IInv, NEW a \in Agents, NEW v \in Variables, Issue(a, v)
  PROVE  IInv' /\ ContentsStay
<1>1. PICK q \in Requests :
           /\ q \notin Sent /\ Sent' = Sent \union {q}
           /\ link' = With(link, ToParent(a), Carried(q, 0))
           /\ TypedAgents'
           /\ UNCHANGED <<clpVars, histVars>>
  BY IssueFacts
<1>2. /\ GoodLinks(link) /\ Placed(store, link) /\ Directed(direction, store, link)
      /\ Counted(accesses, store) /\ Conserved(ExecutedIn(store, link), link, Sent, answered)
      /\ TypedClps
  BY DEF IInv
<1>3. TypedClps' /\ store' = store /\ direction' = direction /\ accesses' = accesses /\ answered' = answered
  BY <1>1, <1>2 DEF TypedClps, clpVars, histVars
<1> DEFINE m == Carried(q, 0)
           p == ToParent(a)
<1>4. p \in Neighbours /\ p[2] \in Clps
  BY RoutingAssumption, ClpTreeAssumption DEF ToParent, Neighbours
<1>5. /\ q \in Accesses /\ m \in Messages /\ m.kind = "access" /\ m.access = q /\ Allowed(p, m)
  BY <1>4, ThingFacts DEF Carried, Allowed
<1>6. In(link, <<"access", q>>) = {} /\ q \notin ExecutedIn(store, link)
  BY <1>1, <1>2, <1>5 DEF Conserved
<1> HIDE DEF m, p
<1>7. /\ GoodLinks(link') /\ SameFlights(link, link')
      /\ \A x : In(link', <<"access", x>>) =
           IF m.kind = "access" /\ m.access = x THEN {p} ELSE In(link, <<"access", x>>)
      /\ \A x : In(link', <<"response", x>>) =
           IF m.kind = "response" /\ m.access = x THEN {p} ELSE In(link, <<"response", x>>)
  <2>1. link' = With(link, p, m)
    BY <1>1 DEF m, p
  <2>2. m.kind # "migration" /\ In(link, <<m.kind, m.access>>) = {}
    BY <1>5, <1>6
  <2>3. /\ GoodLinks(With(link, p, m)) /\ SameFlights(link, With(link, p, m))
        /\ \A x : In(With(link, p, m), <<"access", x>>) =
             IF m.kind = "access" /\ m.access = x THEN {p} ELSE In(link, <<"access", x>>)
        /\ \A x : In(With(link, p, m), <<"response", x>>) =
             IF m.kind = "response" /\ m.access = x THEN {p} ELSE In(link, <<"response", x>>)
    BY <1>2, <1>4, <1>5, <2>2, Sending, Zenon
  <2> QED
    BY <2>1, <2>3, Zenon
<1>8. Placed(store, link') /\ Directed(direction, store, link')
  BY <1>2, <1>7, Undisturbed
<1>9. ExecutedIn(store, link') = ExecutedIn(store, link) /\ ContentsStay
  BY <1>2, <1>3, <1>7, ContentsKept DEF ContentsStay
<1>10. Conserved(ExecutedIn(store, link), link', Sent', answered)
  BY <1>1, <1>2, <1>5, <1>6, <1>7 DEF Conserved
<1> QED
  BY <1>1, <1>2, <1>3, <1>7, <1>8, <1>9, <1>10 DEF IInv

\* What Cancel does: the requests from the k-th on leave the send list, and an
\* anti-message for each, which has not been sent before, goes to the parent.
CutFrom(a, k) == {sendList[a][j] : j \in k .. Len(sendList[a])}
AntisOf(S)    == {AntiOf(q) : q \in S}
Outgoing(a, k) == [pair \in Neighbours |-> IF pair = ToParent(a) THEN AntisFrom(a, k) ELSE <<>>]

\* The requests of an agent from the k-th on its send list on: they have been
\* sent, and are not among those before the k-th.
LEMMA CutFacts ==
  ASSUME IInv, NEW a \in Agents, NEW k \in 1 .. Len(sendList[a])
  PROVE  /\ SubSeq(sendList[a], 1, k - 1) \in Seq(Requests)
         /\ CutFrom(a, k) \subseteq Requests
         /\ CutFrom(a, k) \subseteq SentBy(asked)
         /\ \A q \in CutFrom(a, k) : q.agent = a
         /\ CutFrom(a, k) \subseteq ToSet(sendList[a])
         /\ ToSet(SubSeq(sendList[a], 1, k - 1)) = ToSet(sendList[a]) \ CutFrom(a, k)
         /\ GoodList(a, asked[a], SubSeq(sendList[a], 1, k - 1))
<1> DEFINE s == sendList[a]
           t == SubSeq(sendList[a], 1, k - 1)
<1>1. /\ s \in Seq(Requests) /\ GoodList(a, asked[a], s) /\ asked[a] \in Seq([var : Variables, era : Nat])
  BY DEF IInv, TypedAgents
<1>2. /\ t \in Seq(Requests) /\ Len(t) = k - 1 /\ Len(s) \in Nat
      /\ \A i \in 1 .. k - 1 : t[i] = s[i]
  <2>1. Len(s) \in Nat
    BY <1>1, LenProperties
  <2>2. 1 \in 1 .. Len(s) + 1 /\ k - 1 \in 0 .. Len(s)
    BY <2>1
  <2> DEFINE e == k - 1
  <2>3. e \in 0 .. Len(s) /\ 1 \in 1 .. Len(s) + 1
    BY <2>2
  <2> HIDE DEF e
  <2>4. /\ SubSeq(s, 1, e) \in Seq(Requests)
        /\ Len(SubSeq(s, 1, e)) = (IF 1 <= e THEN e - 1 + 1 ELSE 0)
        /\ \A i \in 1 .. e - 1 + 1 : SubSeq(s, 1, e)[i] = s[1 + i - 1]
    BY <1>1, <2>3, SubSeqProperties
  <2>5. Len(SubSeq(s, 1, e)) = e /\ \A i \in 1 .. e : SubSeq(s, 1, e)[i] = s[i]
    <3>1. \A i \in 1 .. e : 1 + i - 1 = i /\ i \in 1 .. e - 1 + 1
      BY <2>1, <2>3
    <3>2. e = IF 1 <= e THEN e - 1 + 1 ELSE 0
      BY <2>1, <2>3
    <3> QED
      BY <2>4, <3>1, <3>2
  <2> QED
    BY <2>1, <2>4, <2>5 DEF e
<1>a. k \in 1 .. Len(s)
  OBVIOUS
<1> HIDE DEF t
<1>3. \A j \in 1 .. Len(s) : s[j] \in Requests
  BY <1>1
<1>4. ToSet(s) = {s[i] : i \in 1 .. Len(s)} /\ ToSet(t) = {t[i] : i \in 1 .. Len(t)}
  BY <1>1, <1>2, LenProperties DEF ToSet
<1>5. \A j \in k .. Len(s) : j \in 1 .. Len(s)
  BY <1>2
<1> HIDE DEF s
<1>6. CutFrom(a, k) = {s[j] : j \in k .. Len(s)}
  BY DEF CutFrom, s
<1>7. CutFrom(a, k) \subseteq Requests
  BY <1>3, <1>5, <1>6
<1>8. ASSUME NEW q \in CutFrom(a, k) PROVE q.agent = a /\ q \in SentBy(asked)
  <2>1. PICK j \in k .. Len(s) : q = s[j]
    BY <1>6
  <2>2. q.agent = a /\ q.n \in 1 .. Len(asked[a]) /\ q.var = asked[a][q.n].var
    BY <1>1, <1>5, <2>1 DEF GoodList
  <2>3. q = Access("request", a, q.n, asked[a][q.n].var)
    <3>1. q \in Requests
      BY <1>7
    <3>2. q = [type |-> "request", agent |-> q.agent, n |-> q.n, var |-> q.var]
      BY <3>1 DEF Requests
    <3> QED
      BY <2>2, <3>2 DEF Access
  <2>4. q.n \in DOMAIN asked[a]
    BY <1>1, <2>2, LenProperties
  <2> QED
    BY <2>2, <2>3, <2>4, SentByFacts
<1>9. CutFrom(a, k) \subseteq ToSet(s)
  BY <1>4, <1>5, <1>6
<1>10. ToSet(t) = ToSet(s) \ CutFrom(a, k)
  <2>1. ASSUME NEW x \in ToSet(t) PROVE x \in ToSet(s) /\ x \notin CutFrom(a, k)
    <3>1. PICK i \in 1 .. k - 1 : x = s[i]
      BY <1>2, <1>4
    <3>2. i \in 1 .. Len(s)
      BY <1>2, <1>a, <3>1
    <3>3. \A j \in k .. Len(s) : s[j] # s[i]
      <4> TAKE j \in k .. Len(s)
      <4>1. j # i /\ j \in 1 .. Len(s)
        BY <1>2, <1>5
      <4> QED
        BY <1>1, <3>2, <4>1 DEF GoodList
    <3> QED
      BY <1>4, <1>6, <3>1, <3>2, <3>3
  <2>2. ASSUME NEW x \in ToSet(s), x \notin CutFrom(a, k) PROVE x \in ToSet(t)
    <3>1. PICK i \in 1 .. Len(s) : x = s[i]
      BY <1>4
    <3>2. i \notin k .. Len(s)
      BY <1>6, <2>2, <3>1
    <3>3. i \in 1 .. k - 1
      BY <1>2, <3>1, <3>2
    <3> QED
      BY <1>2, <1>4, <3>1, <3>3
  <2> QED
    BY <2>1, <2>2
<1>11. GoodList(a, asked[a], t)
  <2>1. \A i \in 1 .. Len(t) : i \in 1 .. Len(s) /\ t[i] = s[i]
    BY <1>2, <1>a
  <2> QED
    BY <1>1, <2>1 DEF GoodList
<1> QED
  BY <1>2, <1>7, <1>8, <1>9, <1>10, <1>11 DEF s, t

\* What Cancel does to the requests and anti-messages sent.
LEMMA CancelSends ==
  ASSUME IInv, NEW a \in Agents, NEW k \in Numbers, Cancel(a, k)
  PROVE  /\ k \in 1 .. Len(sendList[a])
         /\ AntisOf(CutFrom(a, k)) \subseteq Antis
         /\ AntisOf(CutFrom(a, k)) \intersect Sent = {}
         /\ Sent' = Sent \union AntisOf(CutFrom(a, k))
         /\ TypedAgents'
<1> DEFINE cut == CutFrom(a, k)
<1>1. /\ k \in 1 .. Len(sendList[a])
      /\ waitingFor' = [waitingFor EXCEPT ![a] = 0]
      /\ sendList'   = [sendList EXCEPT ![a] = SubSeq(sendList[a], 1, k - 1)]
      /\ asked' = asked /\ answered' = answered
  BY DEF Cancel, histVars
<1>2. TypedAgents
  BY DEF IInv
<1>3. /\ SubSeq(sendList[a], 1, k - 1) \in Seq(Requests)
      /\ cut \subseteq Requests /\ cut \subseteq SentBy(asked)
      /\ \A q \in cut : q.agent = a
      /\ cut \subseteq ToSet(sendList[a])
      /\ ToSet(SubSeq(sendList[a], 1, k - 1)) = ToSet(sendList[a]) \ cut
      /\ GoodList(a, asked[a], SubSeq(sendList[a], 1, k - 1))
  BY <1>1, CutFacts
<1>4. /\ sendList'[a] = SubSeq(sendList[a], 1, k - 1)
      /\ \A b \in Agents : b # a => sendList'[b] = sendList[b]
  BY <1>1, <1>2 DEF TypedAgents
<1> HIDE DEF cut
<1>5. TypedAgents'
  <2>1. sendList' \in [Agents -> Seq(Requests)] /\ waitingFor' \in [Agents -> Numbers \union {0}]
    BY <1>1, <1>2, <1>3 DEF TypedAgents
  <2>2. \A b \in Agents : GoodList(b, asked'[b], sendList'[b])
    BY <1>1, <1>2, <1>3, <1>4 DEF TypedAgents
  <2> QED
    BY <1>1, <1>2, <2>1, <2>2 DEF TypedAgents
<1>6. SentBy(asked') = SentBy(asked)
  BY <1>1
<1>7. \A q \in SentBy(asked) : q.agent \in Agents /\ q.type = "request"
  <2> TAKE q \in SentBy(asked)
  <2>1. PICK b \in Agents : \E n \in DOMAIN asked[b] : q = Access("request", b, n, asked[b][n].var)
    BY SentByFacts
  <2> QED
    BY <2>1 DEF Access
<1>8. CancelledFrom(asked', sendList') = CancelledFrom(asked, sendList) \union cut
  <2>1. \A q \in SentBy(asked) :
          q \notin ToSet(sendList'[q.agent]) <=> q \notin ToSet(sendList[q.agent]) \/ q \in cut
    BY <1>3, <1>4, <1>7
  <2> QED
    BY <1>3, <1>6, <2>1 DEF CancelledFrom
<1>9. Sent' = Sent \union AntisOf(cut)
  BY <1>6, <1>8, SentIs DEF SentIn, AntisOf
<1>10. AntisOf(cut) \subseteq Antis
  BY <1>3, AntiFacts DEF AntisOf
<1>11. ASSUME NEW x \in AntisOf(cut) PROVE x \notin Sent
  <2>1. PICK q \in cut : x = AntiOf(q)
    BY DEF AntisOf
  <2>2. x.type = "anti"
    BY <1>10 DEF Antis
  <2>3. x \notin SentBy(asked)
    BY <1>7, <2>2
  <2>4. ASSUME NEW r \in CancelledFrom(asked, sendList), x = AntiOf(r) PROVE FALSE
    <3>1. r \in SentBy(asked) /\ r \notin ToSet(sendList[r.agent])
      BY DEF CancelledFrom
    <3>2. r \in Requests
      <4>1. PICK b \in Agents : \E n \in DOMAIN asked[b] : r = Access("request", b, n, asked[b][n].var)
        BY <3>1, SentByFacts
      <4>2. PICK n \in DOMAIN asked[b] : r = Access("request", b, n, asked[b][n].var)
        BY <4>1
      <4>3. asked[b] \in Seq([var : Variables, era : Nat]) /\ Len(asked[b]) <= MaxRequests[b]
        BY <1>2 DEF TypedAgents, GoodList
      <4>4. n \in 1 .. MaxRequests[b]
        <5>1. n \in 1 .. Len(asked[b]) /\ Len(asked[b]) \in Nat /\ MaxRequests[b] \in Nat
          BY <4>2, <4>3, LenProperties, RoutingAssumption
        <5> QED
          BY <4>3, <5>1
      <4>5. n \in Numbers
        BY <4>4 DEF Numbers
      <4>6. asked[b][n].var \in Variables
        <5>1. n \in 1 .. Len(asked[b])
          BY <4>2, <4>3, LenProperties
        <5>2. asked[b][n] \in [var : Variables, era : Nat]
          BY <4>3, <5>1, ElementOfSeq
        <5> QED
          BY <5>2
      <4> QED
        BY <4>2, <4>5, <4>6 DEF Access, Requests
    <3>3. r = q
      BY <1>3, <2>1, <2>4, <3>2, AntiFacts
    <3> QED
      BY <1>3, <3>1, <3>3
  <2> QED
    BY <2>3, <2>4, SentIs DEF SentIn
<1> QED
  BY <1>1, <1>5, <1>9, <1>10, <1>11 DEF cut

\* The messages Cancel puts into the link to the parent.
LEMMA CancelLinks ==
  ASSUME IInv, NEW a \in Agents, NEW k \in Numbers, Cancel(a, k)
  PROVE  /\ link' = Extended(link, Outgoing(a, k))
         /\ GoodLinks(Outgoing(a, k))
         /\ \A p \in Neighbours : \A i \in 1 .. Len(Outgoing(a, k)[p]) :
              p = ToParent(a) /\ \E q \in CutFrom(a, k) : Outgoing(a, k)[p][i] = Carried(AntiOf(q), 0)
         /\ \A x : In(Outgoing(a, k), <<"access", x>>) =
              IF x \in AntisOf(CutFrom(a, k)) THEN {ToParent(a)} ELSE {}
         /\ \A t : t[1] # "access" => In(Outgoing(a, k), t) = {}
<1> DEFINE s == sendList[a]
           L == AntisFrom(a, k)
           p == ToParent(a)
           ms == Outgoing(a, k)
<1>1. /\ k \in 1 .. Len(s) /\ link' = [link EXCEPT ![p] = @ \o L]
  BY DEF Cancel, Queue
<1>2. /\ p \in Neighbours /\ p[2] \in Clps
  BY RoutingAssumption, ClpTreeAssumption DEF ToParent, Neighbours
<1>3. /\ s \in Seq(Requests) /\ GoodList(a, asked[a], s) /\ Len(s) \in Nat
      /\ link \in [Neighbours -> Seq(Messages)]
  BY LenProperties DEF IInv, TypedAgents, GoodLinks, TypedLinks
<1>4. L = [i \in 1 .. Len(s) - k + 1 |-> Carried(AntiOf(s[k + i - 1]), 0)]
  BY DEF AntisFrom, AntiOf
<1>5. \A x : x \in CutFrom(a, k) <=> \E j \in k .. Len(s) : x = s[j]
  BY DEF CutFrom
<1> HIDE DEF s, L, p
<1>6. /\ L \in Seq(Messages) /\ Len(L) = Len(s) - k + 1 /\ Len(L) \in Nat
      /\ \A i \in 1 .. Len(L) : L[i] = Carried(AntiOf(s[k + i - 1]), 0) /\ k + i - 1 \in k .. Len(s)
      /\ \A j \in k .. Len(s) : j - k + 1 \in 1 .. Len(L) /\ L[j - k + 1] = Carried(AntiOf(s[j]), 0)
  <2> DEFINE n == Len(s) - k + 1
  <2>1. n \in Nat /\ \A i \in 1 .. n : k + i - 1 \in k .. Len(s) /\ k + i - 1 \in 1 .. Len(s)
    BY <1>1, <1>3
  <2>2. \A j \in k .. Len(s) : j - k + 1 \in 1 .. n /\ k + (j - k + 1) - 1 = j
    BY <1>1, <1>3
  <2>3. L = [i \in 1 .. n |-> Carried(AntiOf(s[k + i - 1]), 0)]
    BY <1>4
  <2> HIDE DEF n
  <2>4. \A i \in 1 .. n : Carried(AntiOf(s[k + i - 1]), 0) \in Messages
    BY <1>3, <2>1, AntiFacts, ThingFacts DEF Accesses
  <2>5. L \in Seq(Messages) /\ Len(L) = n
    BY <2>1, <2>3, <2>4
  <2>6. \A i \in 1 .. n : L[i] = Carried(AntiOf(s[k + i - 1]), 0)
    BY <2>3
  <2>7. \A j \in k .. Len(s) : L[j - k + 1] = Carried(AntiOf(s[j]), 0)
    BY <2>2, <2>6
  <2> QED
    BY <2>1, <2>2, <2>5, <2>6, <2>7 DEF n
<1>7. /\ \A pair \in Neighbours : ms[pair] = IF pair = p THEN L ELSE <<>>
      /\ ms \in [Neighbours -> Seq(Messages)]
  BY <1>6 DEF Outgoing, L, p
<1> HIDE DEF ms
<1>8. link' = Extended(link, ms)
  <2>1. \A pair \in Neighbours : link[pair] \o <<>> = link[pair]
    BY <1>3, ConcatEmptySeq
  <2>2. \A pair \in Neighbours : link'[pair] = link[pair] \o ms[pair]
    BY <1>1, <1>3, <1>7, <2>1
  <2>3. link' = [pair \in Neighbours |-> link'[pair]]
    BY <1>1, <1>3
  <2> QED
    BY <2>2, <2>3 DEF Extended
<1>9. \A t : Pos(<<>>, t) = {}
  BY DEF Pos
<1>10. \A t : In(ms, t) = IF Pos(L, t) = {} THEN {} ELSE {p}
  BY <1>2, <1>7, <1>9 DEF In
<1>11. \A i \in 1 .. Len(L) : L[i].kind = "access" /\ L[i].access = AntiOf(s[k + i - 1])
  BY <1>6 DEF Carried
<1>12. \A i \in 1 .. Len(L) : \A x : Carries(L[i], <<"access", x>>) <=> x = AntiOf(s[k + i - 1])
  BY <1>11, CarriesFacts
<1>13. \A t : t[1] # "access" => Pos(L, t) = {}
  BY <1>11 DEF Pos, Carries
<1>14. \A x : Pos(L, <<"access", x>>) # {} <=> x \in AntisOf(CutFrom(a, k))
  <2> TAKE x
  <2>1. ASSUME NEW i \in Pos(L, <<"access", x>>) PROVE x \in AntisOf(CutFrom(a, k))
    <3>1. i \in 1 .. Len(L) /\ x = AntiOf(s[k + i - 1])
      BY <1>12 DEF Pos
    <3>2. s[k + i - 1] \in CutFrom(a, k)
      BY <1>5, <1>6, <3>1
    <3> QED
      BY <3>1, <3>2 DEF AntisOf
  <2>2. ASSUME x \in AntisOf(CutFrom(a, k)) PROVE Pos(L, <<"access", x>>) # {}
    <3>1. PICK q \in CutFrom(a, k) : x = AntiOf(q)
      BY <2>2 DEF AntisOf
    <3>2. PICK j \in k .. Len(s) : q = s[j]
      BY <1>5
    <3>3. j - k + 1 \in 1 .. Len(L) /\ L[j - k + 1] = Carried(x, 0)
      BY <1>6, <3>1, <3>2
    <3>4. Carries(L[j - k + 1], <<"access", x>>)
      BY <3>3, CarriesFacts DEF Carried
    <3> QED
      BY <3>3, <3>4 DEF Pos
  <2> QED
    BY <2>1, <2>2
<1>15. \A t : AtMostOne(Pos(L, t)) \/ t \notin Things
  <2> SUFFICES ASSUME NEW t \in Things, NEW i \in Pos(L, t), NEW j \in Pos(L, t) PROVE i = j
    BY DEF AtMostOne
  <2>1. PICK x : t = <<"access", x>>
    BY <1>13 DEF Things
  <2>2. /\ i \in 1 .. Len(L) /\ j \in 1 .. Len(L)
        /\ AntiOf(s[k + i - 1]) = AntiOf(s[k + j - 1])
    BY <1>12, <2>1 DEF Pos
  <2>3. /\ k + i - 1 \in 1 .. Len(s) /\ k + j - 1 \in 1 .. Len(s)
    BY <1>1, <1>3, <1>6, <2>2
  <2>4. s[k + i - 1] = s[k + j - 1]
    BY <1>3, <2>2, <2>3, AntiFacts
  <2>5. k + i - 1 = k + j - 1
    BY <1>3, <2>3, <2>4 DEF GoodList
  <2> QED
    BY <1>1, <1>6, <2>2, <2>5
<1>16. GoodLinks(ms)
  <2>1. ASSUME NEW pair \in Neighbours, NEW i \in 1 .. Len(ms[pair]) PROVE Allowed(pair, ms[pair][i])
    <3>1. pair = p /\ ms[pair] = L
      BY <1>7
    <3> QED
      BY <1>2, <1>11, <3>1 DEF Allowed
  <2>2. TypedLinks(ms)
    BY <1>7, <2>1 DEF TypedLinks
  <2>3. ASSUME NEW t \in Things PROVE OneAtMost(ms, t)
    <3>1. AtMostOne(In(ms, t))
      BY <1>10 DEF AtMostOne
    <3>2. \A pair \in Neighbours : AtMostOne(Pos(ms[pair], t))
      BY <1>7, <1>9, <1>15 DEF AtMostOne
    <3> QED
      BY <3>1, <3>2 DEF OneAtMost
  <2> QED
    BY <2>2, <2>3 DEF GoodLinks
<1>17. \A x : In(ms, <<"access", x>>) = IF x \in AntisOf(CutFrom(a, k)) THEN {p} ELSE {}
  BY <1>10, <1>14
<1>18. \A t : t[1] # "access" => In(ms, t) = {}
  BY <1>10, <1>13
<1>19. \A pair \in Neighbours : \A i \in 1 .. Len(ms[pair]) :
         pair = p /\ \E q \in CutFrom(a, k) : ms[pair][i] = Carried(AntiOf(q), 0)
  <2> SUFFICES ASSUME NEW pair \in Neighbours, NEW i \in 1 .. Len(ms[pair])
               PROVE  pair = p /\ \E q \in CutFrom(a, k) : ms[pair][i] = Carried(AntiOf(q), 0)
    OBVIOUS
  <2>1. pair = p /\ ms[pair] = L /\ i \in 1 .. Len(L)
    BY <1>7
  <2>2. L[i] = Carried(AntiOf(s[k + i - 1]), 0) /\ k + i - 1 \in k .. Len(s)
    BY <1>6, <2>1
  <2>3. s[k + i - 1] \in CutFrom(a, k)
    BY <1>5, <2>2
  <2> QED
    BY <2>1, <2>2, <2>3
<1> QED
  BY <1>8, <1>16, <1>17, <1>18, <1>19 DEF ms, p

\* Cancel keeps the invariant.
LEMMA CancelKeeps ==
  ASSUME IInv, NEW a \in Agents, NEW k \in Numbers, Cancel(a, k)
  PROVE  IInv' /\ ContentsStay /\ SameFlights(link, link')
<1> DEFINE antis == AntisOf(CutFrom(a, k))
           ms == Outgoing(a, k)
<1>1. /\ antis \subseteq Antis /\ antis \intersect Sent = {} /\ Sent' = Sent \union antis
      /\ TypedAgents'
  BY CancelSends
<1>2. /\ link' = Extended(link, ms) /\ GoodLinks(ms)
      /\ \A x : In(ms, <<"access", x>>) = IF x \in antis THEN {ToParent(a)} ELSE {}
      /\ \A t : t[1] # "access" => In(ms, t) = {}
  BY CancelLinks
<1>3. /\ GoodLinks(link) /\ Placed(store, link) /\ Directed(direction, store, link)
      /\ Counted(accesses, store) /\ Conserved(ExecutedIn(store, link), link, Sent, answered)
      /\ TypedClps
  BY DEF IInv
<1>4. UNCHANGED <<clpVars, histVars>>
  BY DEF Cancel
<1>5. TypedClps' /\ store' = store /\ direction' = direction /\ accesses' = accesses /\ answered' = answered
  BY <1>3, <1>4 DEF TypedClps, clpVars, histVars
<1> HIDE DEF antis, ms
<1>6. antis \subseteq Accesses
  BY <1>1 DEF Accesses
<1>7. \A x \in antis : In(link, <<"access", x>>) = {}
  BY <1>1, <1>3, <1>6 DEF Conserved
<1>8. ASSUME NEW t \in Things PROVE In(link, t) = {} \/ In(ms, t) = {}
  <2>1. CASE t[1] # "access"
    BY <1>2, <2>1
  <2>2. CASE t[1] = "access"
    <3>1. PICK x : t = <<"access", x>>
      BY <2>2 DEF Things
    <3>2. CASE x \in antis
      BY <1>7, <3>1, <3>2
    <3>3. CASE x \notin antis
      BY <1>2, <3>1, <3>3
    <3> QED
      BY <3>2, <3>3
  <2> QED
    BY <2>1, <2>2
<1>9. GoodLinks(link') /\ \A t : In(link', t) = In(link, t) \union In(ms, t)
  BY <1>2, <1>3, <1>8, Joining
<1>10. \A t : t[1] # "access" => In(link', t) = In(link, t)
  BY <1>2, <1>9
<1>11. \A x : In(link', <<"access", x>>) # {} <=> In(link, <<"access", x>>) # {} \/ x \in antis
  BY <1>2, <1>9
<1>12. SameFlights(link, link')
  <2>1. \A v, val : <<"variable", v>>[1] # "access" /\ <<"value", v, val>>[1] # "access"
    OBVIOUS
  <2> QED
    BY <1>10, <2>1 DEF SameFlights
<1>13. \A x : In(link', <<"response", x>>) = In(link, <<"response", x>>)
  BY <1>10
<1>14. Placed(store, link') /\ Directed(direction, store, link')
  BY <1>3, <1>12, Undisturbed
<1>15. ExecutedIn(store, link') = ExecutedIn(store, link) /\ ContentsStay
  BY <1>3, <1>5, <1>9, <1>12, ContentsKept DEF ContentsStay
<1>16. Conserved(ExecutedIn(store, link), link', Sent', answered)
  <2> DEFINE E == ExecutedIn(store, link)
  <2>1. /\ E \subseteq Accesses /\ Sent \subseteq Accesses
        /\ \A m \in Accesses : m \in Sent <=> m \in E \/ In(link, <<"access", m>>) # {}
        /\ \A m \in Accesses : m \notin E \/ In(link, <<"access", m>>) = {}
        /\ \A m \in Requests : m \in E <=> m \in answered \/ In(link, <<"response", m>>) # {}
        /\ \A m \in Requests : m \notin answered \/ In(link, <<"response", m>>) = {}
    BY <1>3 DEF Conserved
  <2> HIDE DEF E
  <2>2. \A m \in antis : m \notin E
    BY <1>1, <1>6, <2>1
  <2>3. /\ \A m \in Accesses : m \in Sent' <=> m \in E \/ In(link', <<"access", m>>) # {}
        /\ \A m \in Accesses : m \notin E \/ In(link', <<"access", m>>) = {}
    BY <1>1, <1>6, <1>11, <2>1, <2>2
  <2>4. Conserved(E, link', Sent', answered)
    BY <1>1, <1>6, <1>13, <2>1, <2>3 DEF Conserved
  <2> QED
    BY <2>4 DEF E
<1> QED
  BY <1>1, <1>3, <1>5, <1>9, <1>12, <1>14, <1>15, <1>16 DEF IInv

-----------------------------------------------------------------------------
(* The invariant holds.                                                    *)

\* At first no message is on its way, and each table leads to the CLP that the
\* initialisor gave the variable to.
LEMMA InitKeeps == Init => IInv
<1> SUFFICES ASSUME Init PROVE IInv
  OBVIOUS
<1>1. /\ direction  = [c \in Clps |-> [v \in Variables |-> InitialDirection(c, v)]]
      /\ store      = [c \in Clps |-> [v \in {x \in Variables : InitialClp[x] = c} |-> <<>>]]
      /\ accesses   = [v \in Variables |-> NoAccess]
      /\ hops       = [v \in Variables |-> NoAccess]
      /\ load       = [c \in Clps |-> 0]
      /\ link       = [pair \in Neighbours |-> <<>>]
      /\ asked      = [a \in Agents |-> <<>>]
      /\ waitingFor = [a \in Agents |-> 0]
      /\ sendList   = [a \in Agents |-> <<>>]
      /\ answered   = {}
      /\ moves      = [v \in Variables |-> 0]
  BY DEF Init
<1>2. NoAccess \in [Ports -> Nat] /\ \A p \in Ports : NoAccess[p] = 0
  BY DEF NoAccess
<1>3. /\ \A c \in Clps : store[c] = [v \in {x \in Variables : InitialClp[x] = c} |-> <<>>]
      /\ store \in [Clps -> Stores]
  <2>1. \A c \in Clps : store[c] = [v \in {x \in Variables : InitialClp[x] = c} |-> <<>>]
    BY <1>1
  <2>2. \A S \in SUBSET Variables : [v \in S |-> <<>>] \in Stores
    BY DEF Stores
  <2>3. \A c \in Clps : store[c] \in Stores
    BY <2>1, <2>2
  <2> QED
    BY <1>1, <2>1, <2>3
<1>4. ASSUME NEW v \in Variables
      PROVE  /\ InitialClp[v] \in Clps /\ HostsIn(store, v) = {InitialClp[v]}
             /\ store[InitialClp[v]][v] = <<>>
  <2>1. InitialClp[v] \in Clps
    BY RoutingAssumption
  <2>2. \A c \in Clps : v \in DOMAIN store[c] <=> InitialClp[v] = c
    <3> TAKE c \in Clps
    <3>1. DOMAIN store[c] = {x \in Variables : InitialClp[x] = c}
      BY <1>3
    <3> QED
      BY <3>1
  <2>3. HostsIn(store, v) = {InitialClp[v]}
    BY <2>1, <2>2 DEF HostsIn
  <2>4. store[InitialClp[v]][v] = <<>>
    BY <1>3, <2>1
  <2> QED
    BY <2>1, <2>3, <2>4
<1>5. ASSUME NEW c \in Clps, NEW v \in Variables
      PROVE  InitialDirection(c, v) \in Ports \union {"HERE"}
  <2>1. CASE InitialClp[v] = c
    BY <2>1 DEF InitialDirection
  <2>2. CASE InitialClp[v] # c
    <3>1. <<c, NextClp(c, InitialClp[v])>> \in Neighbours
      BY <1>4, <2>2, NextIsNeighbour
    <3>2. PortTo(c, NextClp(c, InitialClp[v])) \in Ports
      BY <3>1, PortToNeighbour, PortRank
    <3> QED
      BY <2>2, <3>2 DEF InitialDirection
  <2> QED
    BY <2>1, <2>2
<1>6. TypedClps
  <2>1. direction \in [Clps -> [Variables -> Ports \union {"HERE"}]]
    BY <1>1, <1>5
  <2>2. accesses \in [Variables -> [Ports -> Nat]] /\ hops \in [Variables -> [Ports -> Nat]]
    BY <1>1, <1>2
  <2>3. load \in [Clps -> Nat] /\ moves \in [Variables -> Nat]
    BY <1>1
  <2> QED
    BY <1>3, <2>1, <2>2, <2>3 DEF TypedClps
<1>7. TypedAgents
  <2>1. \A a \in Agents : asked[a] = <<>> /\ sendList[a] = <<>> /\ MaxRequests[a] \in Nat
    BY <1>1, RoutingAssumption
  <2>2. \A a \in Agents : GoodList(a, asked[a], sendList[a])
    BY <2>1 DEF GoodList
  <2>3. /\ asked \in [Agents -> Seq([var : Variables, era : Nat])]
        /\ sendList \in [Agents -> Seq(Requests)]
        /\ waitingFor \in [Agents -> Numbers \union {0}]
    BY <1>1
  <2> QED
    BY <1>1, <2>2, <2>3 DEF TypedAgents
<1>8. \A t : In(link, t) = {}
  <2>1. \A pair \in Neighbours : link[pair] = <<>>
    BY <1>1
  <2>2. \A t : Pos(<<>>, t) = {}
    BY DEF Pos
  <2> QED
    BY <2>1, <2>2 DEF In
<1>9. GoodLinks(link)
  <2>1. \A pair \in Neighbours : link[pair] = <<>>
    BY <1>1
  <2>2. \A t : Pos(<<>>, t) = {}
    BY DEF Pos
  <2>3. \A t : OneAtMost(link, t)
    BY <1>8, <2>1, <2>2 DEF OneAtMost, AtMostOne
  <2>4. TypedLinks(link)
    <3>1. link \in [Neighbours -> Seq(Messages)]
      BY <1>1
    <3> QED
      BY <2>1, <3>1 DEF TypedLinks
  <2> QED
    BY <2>3, <2>4 DEF GoodLinks
<1>10. Placed(store, link)
  BY <1>4, <1>8 DEF Placed, AtMostOne
<1>11. Directed(direction, store, link)
  <2>1. \A c \in Clps, v \in Variables : direction[c][v] = InitialDirection(c, v)
    BY <1>1
  <2> QED
    BY <1>4, <1>8, <2>1 DEF Directed, InitialDirection
<1>12. Counted(accesses, store)
  BY <1>1, <1>2, <1>4 DEF Counted
<1>13. ExecutedIn(store, link) = {}
  <2>1. \A v \in Variables : ContentsOf(store, link, v) = <<>>
    BY <1>4 DEF ContentsOf
  <2>2. ToSet(<<>>) = {}
    BY DEF ToSet
  <2> QED
    BY <2>1, <2>2 DEF ExecutedIn
<1>14. Sent = {}
  <2>1. \A a \in Agents : DOMAIN asked[a] = {}
    BY <1>1
  <2>2. SentBy(asked) = {}
    BY <2>1, SentByFacts
  <2> QED
    BY <2>2, SentIs DEF SentIn, CancelledFrom
<1>15. Conserved(ExecutedIn(store, link), link, Sent, answered)
  BY <1>1, <1>8, <1>13, <1>14 DEF Conserved
<1> QED
  BY <1>6, <1>7, <1>9, <1>10, <1>11, <1>12, <1>15 DEF IInv

\* A step that changes nothing keeps the invariant.
LEMMA StutterKeeps ==
  ASSUME IInv, UNCHANGED vars
  PROVE  IInv'
<1>1. UNCHANGED <<direction, store, accesses, hops, load, link, asked, waitingFor, sendList,
                  answered, moves>>
  BY DEF vars, clpVars, agentVars, histVars
<1>2. Sent' = Sent
  BY <1>1, SentIs DEF SentIn, CancelledFrom, SentBy
<1> QED
  BY <1>1, <1>2 DEF IInv, TypedClps, TypedAgents

\* Every step of Routing keeps the invariant.
LEMMA NextKeeps == IInv /\ [Next]_vars => IInv'
<1> SUFFICES ASSUME IInv, [Next]_vars PROVE IInv'
  OBVIOUS
<1>1. ASSUME NEW a \in Agents, NEW v \in Variables, Issue(a, v) PROVE IInv'
  BY <1>1, IssueKeeps
<1>2. ASSUME NEW a \in Agents, NEW k \in Numbers, Cancel(a, k) PROVE IInv'
  BY <1>2, CancelKeeps
<1>3. ASSUME NEW r \in Alps, AlpReceive(r) PROVE IInv'
  BY <1>3, AlpReceiveKeeps
<1>4. ASSUME NEW pair \in IntoClp, ClpReceive(pair[1], pair[2]) PROVE IInv'
  BY <1>4, ForwardKeeps, ForwardResponseKeeps, ExecuteKeeps, ReceiveKeeps DEF ClpReceive
<1>5. ASSUME NEW c \in Clps, SetGvt(c) PROVE IInv'
  BY <1>5, SetGvtKeeps
<1>6. ASSUME UNCHANGED vars PROVE IInv'
  BY <1>6, StutterKeeps
<1> QED
  BY <1>1, <1>2, <1>3, <1>4, <1>5, <1>6 DEF Next

\* Everything is in its place, always.
THEOREM Invariance == Spec => []IInv
BY InitKeeps, NextKeeps, PTL DEF Spec

-----------------------------------------------------------------------------
(* What follows from it.                                                   *)

\* Every variable of the model holds a value of its type.
THEOREM TypeCorrect == Spec => []TypeOK
<1>1. IInv => TypeOK
  <2> SUFFICES ASSUME IInv PROVE TypeOK
    OBVIOUS
  <2>1. TypedClps /\ TypedAgents /\ TypedLinks(link)
    BY DEF IInv, GoodLinks
  <2>2. ASSUME NEW c \in Clps
        PROVE  /\ DOMAIN store[c] \subseteq Variables
               /\ \A v \in DOMAIN store[c] : store[c][v] \in Seq(Accesses)
    BY <2>1, StoreFacts DEF TypedClps
  <2>3. ASSUME NEW pair \in Neighbours, NEW m \in ToSet(link[pair])
        PROVE  \/ m.kind = "access" /\ m.access \in Accesses /\ m.hops \in Nat
               \/ m.kind = "response" /\ m.access \in Requests
               \/ m.kind = "migration" /\ pair \in Clps \X Clps
    <3>1. link[pair] \in Seq(Messages)
      BY <2>1 DEF TypedLinks
    <3>2. PICK k \in 1 .. Len(link[pair]) : m = link[pair][k]
      BY <3>1, LenProperties DEF ToSet
    <3>3. m \in Messages /\ Allowed(pair, m)
      BY <2>1, <3>1, <3>2, ElementOfSeq DEF TypedLinks
    <3> QED
      BY <3>3, ThingFacts DEF Allowed
  <2>4. \A v \in Variables : accesses[v] \in [Ports -> Nat] /\ hops[v] \in [Ports -> Nat]
    BY <2>1 DEF TypedClps
  <2>5. /\ \A a \in Agents : asked[a] \in Seq([var : Variables, era : Nat])
        /\ \A a \in Agents : sendList[a] \in Seq(Requests)
    BY <2>1 DEF TypedAgents
  <2> QED
    BY <2>1, <2>2, <2>3, <2>4, <2>5 DEF TypeOK, TypedClps, TypedAgents
<1> QED
  BY <1>1, Invariance, PTL

\* A variable is at one CLP or in one state migration message, however many
\* CLPs there are and however often it moves.
THEOREM OnePlaceHolds == Spec => []OnePlace
<1>1. IInv => OnePlace
  <2> SUFFICES ASSUME IInv, NEW v \in Variables
               PROVE  Cardinality(Hosts(v)) + Cardinality(Flights(v)) = 1
    BY DEF OnePlace
  <2>1. /\ Placed(store, link) /\ OneAtMost(link, <<"variable", v>>)
        /\ link \in [Neighbours -> Seq(Messages)]
    BY ThingFacts DEF IInv, GoodLinks, TypedLinks
  <2> DEFINE H == HostsIn(store, v)
             F == FlightsIn(link, v)
  <2>2. Hosts(v) = H /\ Flights(v) = F
    BY DEF Hosts, HostsIn, Flights, FlightsIn
  <2>3. /\ AtMostOne(H)
        /\ H = {} <=> In(link, <<"variable", v>>) # {}
    BY <2>1 DEF Placed
  <2>4. /\ \A f \in F : /\ f = <<f[1], f[2]>> /\ f[1] \in Neighbours
                        /\ f[2] \in Pos(link[f[1]], <<"variable", v>>)
        /\ \A pair \in Neighbours : \A i \in Pos(link[pair], <<"variable", v>>) : <<pair, i>> \in F
    BY <2>1, FlightFacts
  <2> HIDE DEF H, F
  <2>5. \A f \in F : f[1] \in In(link, <<"variable", v>>)
    BY <2>4 DEF In
  <2>6. CASE H # {}
    <3>1. PICK h : H = {h}
      <4>1. PICK g : g \in H
        BY <2>6
      <4>2. H = {g}
        BY <2>3, <4>1 DEF AtMostOne
      <4> QED
        BY <4>2
    <3>2. F = {}
      BY <2>3, <2>5, <2>6
    <3>3. Cardinality(H) = 1 /\ Cardinality(F) = 0
      BY <3>1, <3>2, FS_Singleton, FS_EmptySet
    <3> QED
      BY <2>2, <3>3
  <2>7. CASE H = {}
    <3>1. PICK pair \in Neighbours : Pos(link[pair], <<"variable", v>>) # {}
      BY <2>3, <2>7 DEF In
    <3>2. PICK i : i \in Pos(link[pair], <<"variable", v>>)
      BY <3>1
    <3>3. <<pair, i>> \in F
      BY <2>4, <3>2
    <3>4. \A f \in F : f = <<pair, i>>
      <4> TAKE f \in F
      <4>1. pair \in In(link, <<"variable", v>>)
        BY <3>1 DEF In
      <4>2. f[1] = pair
        BY <2>1, <2>5, <4>1 DEF OneAtMost, AtMostOne
      <4>3. f[2] = i
        BY <2>1, <2>4, <3>2, <4>2 DEF OneAtMost, AtMostOne
      <4> QED
        BY <2>4, <4>2, <4>3
    <3>5. F = {<<pair, i>>}
      BY <3>3, <3>4
    <3>6. Cardinality(F) = 1 /\ Cardinality(H) = 0
      BY <2>7, <3>5, FS_Singleton, FS_EmptySet
    <3> QED
      BY <2>2, <3>6
  <2> QED
    BY <2>6, <2>7
<1> QED
  BY <1>1, Invariance, PTL

\* The direction tables of all CLPs lead to every variable, in every tree.
THEOREM DirectionsHold == Spec => []DirectionsLeadHome
<1>1. IInv => DirectionsLeadHome
  <2> SUFFICES ASSUME IInv, NEW v \in Variables
               PROVE  /\ \A h \in Hosts(v) : \A c \in Clps :
                           direction[c][v] = IF c = h THEN "HERE" ELSE PortTo(c, NextClp(c, h))
                      /\ \A f \in Flights(v) : \A c \in Clps :
                           direction[c][v] = PortTo(c, IF c = f[1][1] THEN f[1][2]
                                                       ELSE NextClp(c, f[1][1]))
    BY DEF DirectionsLeadHome
  <2>1. Directed(direction, store, link) /\ link \in [Neighbours -> Seq(Messages)]
    BY DEF IInv, GoodLinks, TypedLinks
  <2>2. Hosts(v) = HostsIn(store, v) /\ Flights(v) = FlightsIn(link, v)
    BY DEF Hosts, HostsIn, Flights, FlightsIn
  <2>3. \A f \in FlightsIn(link, v) : f[1] \in In(link, <<"variable", v>>)
    BY <2>1, FlightFacts DEF In
  <2> QED
    BY <2>1, <2>2, <2>3 DEF Directed
<1> QED
  BY <1>1, Invariance, PTL

\* A message is on its way if a link carries it, and what has been executed is
\* what the variables hold.
LEMMA WayFacts ==
  ASSUME IInv
  PROVE  /\ \A m : OnItsWay("access", m) <=> In(link, <<"access", m>>) # {}
         /\ \A m : OnItsWay("response", m) <=> In(link, <<"response", m>>) # {}
         /\ \A v : Contents(v) = ContentsOf(store, link, v)
         /\ Abstract!Executed = ExecutedIn(store, link)
<1>1. \A pair \in Neighbours : DOMAIN link[pair] = 1 .. Len(link[pair])
  BY LenProperties DEF IInv, GoodLinks, TypedLinks
<1>2. \A m : OnItsWay("access", m) <=> In(link, <<"access", m>>) # {}
  <2> TAKE m
  <2>1. \A pair \in Neighbours : \A i \in 1 .. Len(link[pair]) :
          i \in Pos(link[pair], <<"access", m>>) <=> link[pair][i].kind = "access" /\ link[pair][i].access = m
    BY CarriesFacts DEF Pos
  <2>2. \A pair \in Neighbours : pair \in In(link, <<"access", m>>) <=>
          \E i \in 1 .. Len(link[pair]) : i \in Pos(link[pair], <<"access", m>>)
    BY DEF In, Pos
  <2>3. In(link, <<"access", m>>) \subseteq Neighbours
    BY DEF In
  <2> QED
    BY <1>1, <2>1, <2>2, <2>3 DEF OnItsWay
<1>3. \A m : OnItsWay("response", m) <=> In(link, <<"response", m>>) # {}
  <2> TAKE m
  <2>1. \A pair \in Neighbours : \A i \in 1 .. Len(link[pair]) :
          i \in Pos(link[pair], <<"response", m>>) <=> link[pair][i].kind = "response" /\ link[pair][i].access = m
    BY CarriesFacts DEF Pos
  <2>2. \A pair \in Neighbours : pair \in In(link, <<"response", m>>) <=>
          \E i \in 1 .. Len(link[pair]) : i \in Pos(link[pair], <<"response", m>>)
    BY DEF In, Pos
  <2>3. In(link, <<"response", m>>) \subseteq Neighbours
    BY DEF In
  <2> QED
    BY <1>1, <2>1, <2>2, <2>3 DEF OnItsWay
<1>4. \A v : Contents(v) = ContentsOf(store, link, v)
  BY DEF Contents, ContentsOf, Hosts, HostsIn, Flights, FlightsIn
<1>5. Abstract!Executed = ExecutedIn(store, link)
  <2>1. \A v \in Variables : Abstract!ToSet([w \in Variables |-> Contents(w)][v]) = ToSet(ContentsOf(store, link, v))
    BY <1>4 DEF Abstract!ToSet, ToSet
  <2> QED
    BY <2>1, Zenon DEF Abstract!Executed, ExecutedIn
<1> QED
  BY <1>2, <1>3, <1>4, <1>5

\* No message is lost and none is executed or answered twice.
THEOREM NothingIsLostHolds == Spec => []NothingIsLost
<1>1. IInv => NothingIsLost
  <2> SUFFICES ASSUME IInv PROVE NothingIsLost
    OBVIOUS
  <2>1. Conserved(ExecutedIn(store, link), link, Sent, answered)
    BY DEF IInv
  <2>2. \A m \in Sent : OnItsWay("access", m) <=> m \notin Abstract!Executed
    BY <2>1, WayFacts DEF Conserved
  <2>3. \A m \in Abstract!Executed \intersect Requests : OnItsWay("response", m) <=> m \notin answered
    BY <2>1, WayFacts DEF Conserved
  <2> QED
    BY <2>2, <2>3 DEF NothingIsLost
<1> QED
  BY <1>1, Invariance, PTL

-----------------------------------------------------------------------------
(* The tree implements RemoteAccess.                                       *)

\* What the abstract specification sees of a step, in the terms of this one.
LEMMA AbstractSteps ==
  ASSUME IInv, IInv'
  PROVE  /\ ContentsStay /\ answered' = answered /\ Sent' = Sent
              => UNCHANGED Abstract!remoteVars
         /\ ContentsStay /\ answered' = answered
              => \A S : /\ S \intersect Sent = {} /\ Sent' = Sent \union S
                        /\ S \subseteq Antis \/ \E m \in Requests : S = {m}
                        => Abstract!Next
         /\ ContentsStay /\ Sent' = Sent
              => \A m \in Requests :
                   /\ m \in Sent /\ m \in ExecutedIn(store, link) /\ m \notin answered
                   /\ answered' = answered \union {m}
                   => Abstract!Next
         /\ answered' = answered /\ Sent' = Sent
              => \A q \in Sent :
                   /\ q \notin ExecutedIn(store, link) /\ q.var \in Variables
                   /\ ContentsOf(store', link', q.var) = Append(ContentsOf(store, link, q.var), q)
                   /\ \A w \in Variables : w # q.var =>
                        ContentsOf(store', link', w) = ContentsOf(store, link, w)
                   => Abstract!Next
<1> DEFINE lg  == [v \in Variables |-> Contents(v)]
           lg2 == [v \in Variables |-> Contents(v)']
<1>1. /\ \A v : Contents(v) = ContentsOf(store, link, v)
      /\ Abstract!Executed = ExecutedIn(store, link)
  BY WayFacts
<1>2. \A v : Contents(v)' = ContentsOf(store', link', v)
  BY DEF Contents, ContentsOf, Hosts, HostsIn, Flights, FlightsIn
<1>3. ContentsStay => lg2 = lg
  BY <1>1, <1>2 DEF ContentsStay
<1>4. ContentsStay /\ answered' = answered /\ Sent' = Sent => UNCHANGED Abstract!remoteVars
  BY <1>3 DEF Abstract!remoteVars
<1>5. ASSUME ContentsStay, answered' = answered, NEW S, S \intersect Sent = {}, Sent' = Sent \union S,
             S \subseteq Antis \/ \E m \in Requests : S = {m}
      PROVE  Abstract!Next
  <2>1. Sent' \ Sent = S
    BY <1>5
  <2>2. Abstract!Send(S)
    BY <1>3, <1>5 DEF Abstract!Send
  <2> QED
    BY <1>5, <2>1, <2>2 DEF Abstract!Next
<1>6. ASSUME ContentsStay, Sent' = Sent, NEW m \in Requests, m \in Sent,
             m \in ExecutedIn(store, link), m \notin answered, answered' = answered \union {m}
      PROVE  Abstract!Next
  <2>1. Abstract!Answer(m)
    BY <1>1, <1>3, <1>6 DEF Abstract!Answer
  <2> QED
    BY <1>6, <2>1 DEF Abstract!Next
<1>7. ASSUME answered' = answered, Sent' = Sent, NEW q \in Sent,
             q \notin ExecutedIn(store, link), q.var \in Variables,
             ContentsOf(store', link', q.var) = Append(ContentsOf(store, link, q.var), q),
             \A w \in Variables : w # q.var =>
               ContentsOf(store', link', w) = ContentsOf(store, link, w)
      PROVE  Abstract!Next
  <2>1. lg2 = [lg EXCEPT ![q.var] = Append(@, q)]
    BY <1>1, <1>2, <1>7
  <2>2. Abstract!Execute(q.var, q)
    BY <1>1, <1>7, <2>1 DEF Abstract!Execute
  <2> QED
    BY <1>7, <2>2 DEF Abstract!Next
<1> QED
  BY <1>4, <1>5, <1>6, <1>7

\* Every step is a step of RemoteAccess, or none.
LEMMA StepRefines ==
  IInv /\ IInv' /\ [Next]_vars => [Abstract!Next]_(Abstract!remoteVars)
<1> SUFFICES ASSUME IInv, IInv', [Next]_vars
             PROVE  Abstract!Next \/ UNCHANGED Abstract!remoteVars
  OBVIOUS
<1>1. ASSUME NEW a \in Agents, NEW v \in Variables, Issue(a, v)
      PROVE  Abstract!Next
  <2>1. PICK q \in Requests : q \notin Sent /\ Sent' = Sent \union {q} /\ UNCHANGED <<clpVars, histVars>>
    BY <1>1, IssueFacts
  <2>2. ContentsStay /\ answered' = answered
    BY <1>1, <2>1, IssueKeeps DEF histVars
  <2>3. {q} \intersect Sent = {} /\ Sent' = Sent \union {q} /\ \E m \in Requests : {q} = {m}
    BY <2>1
  <2> QED
    BY <2>2, <2>3, AbstractSteps, Zenon
<1>2. ASSUME NEW a \in Agents, NEW k \in Numbers, Cancel(a, k)
      PROVE  Abstract!Next
  <2> DEFINE S == AntisOf(CutFrom(a, k))
  <2>1. S \subseteq Antis /\ S \intersect Sent = {} /\ Sent' = Sent \union S
    BY <1>2, CancelSends
  <2>2. ContentsStay /\ answered' = answered
    BY <1>2, CancelKeeps DEF Cancel, histVars
  <2> HIDE DEF S
  <2> QED
    BY <2>1, <2>2, AbstractSteps, Zenon
<1>3. ASSUME NEW r \in Alps, AlpReceive(r)
      PROVE  Abstract!Next
  <2>1. PICK m \in Requests :
          /\ m \in ExecutedIn(store, link) /\ m \in Sent /\ m \notin answered
          /\ answered' = answered \union {m}
          /\ UNCHANGED <<clpVars, asked, sendList, moves>>
    BY <1>3, AlpReceiveFacts
  <2>2. ContentsStay
    BY <1>3, AlpReceiveKeeps
  <2>3. Sent' = Sent
    BY <2>1 DEF Sent, SentRequests, Cancelled
  <2> QED
    BY <2>1, <2>2, <2>3, AbstractSteps, Zenon
<1>4. ASSUME NEW pair \in IntoClp, ClpReceive(pair[1], pair[2])
      PROVE  Abstract!Next \/ UNCHANGED Abstract!remoteVars
  <2>1. CASE Execute(pair[1], pair[2])
    <3> DEFINE q == link[pair][1].access
    <3>1. q \in Sent /\ q \notin ExecutedIn(store, link) /\ q.var \in Variables
      BY <2>1, ExecuteLinks
    <3>2. /\ ContentsOf(store', link', q.var) = Append(ContentsOf(store, link, q.var), q)
          /\ \A w \in Variables : w # q.var =>
               ContentsOf(store', link', w) = ContentsOf(store, link, w)
      BY <2>1, ExecuteContents
    <3>3. answered' = answered /\ Sent' = Sent
      BY <2>1, SentKept DEF Execute, histVars
    <3> HIDE DEF q
    <3> QED
      BY <3>1, <3>2, <3>3, AbstractSteps, Zenon
  <2>2. CASE Forward(pair[1], pair[2]) \/ ForwardResponse(pair[1], pair[2])
    <3>1. ContentsStay
      BY <2>2, ForwardKeeps, ForwardResponseKeeps
    <3>2. answered' = answered /\ Sent' = Sent
      BY <2>2, SentKept DEF Forward, ForwardResponse, histVars
    <3> QED
      BY <3>1, <3>2, AbstractSteps, Zenon
  <2>3. CASE Receive(pair[1], pair[2])
    <3>1. ContentsStay
      BY <2>3, ReceiveKeeps
    <3>2. answered' = answered /\ Sent' = Sent
      BY <2>3, SentKept DEF Receive
    <3> QED
      BY <3>1, <3>2, AbstractSteps, Zenon
  <2> QED
    BY <1>4, <2>1, <2>2, <2>3 DEF ClpReceive
<1>5. ASSUME NEW c \in Clps, SetGvt(c)
      PROVE  UNCHANGED Abstract!remoteVars
  <2>1. ContentsStay
    BY <1>5, SetGvtKeeps
  <2>2. answered' = answered /\ Sent' = Sent
    BY <1>5, SentKept DEF SetGvt, histVars
  <2> QED
    BY <2>1, <2>2, AbstractSteps, Zenon
<1>6. ASSUME UNCHANGED vars
      PROVE  UNCHANGED Abstract!remoteVars
  <2>1. store' = store /\ link' = link /\ answered' = answered /\ UNCHANGED agentVars
    BY <1>6 DEF vars, clpVars, histVars
  <2>2. ContentsStay /\ Sent' = Sent
    BY <2>1, SentKept DEF ContentsStay
  <2> QED
    BY <2>1, <2>2, AbstractSteps, Zenon
<1> QED
  BY <1>1, <1>2, <1>3, <1>4, <1>5, <1>6 DEF Next

\* At first nothing has been sent, done or answered.
LEMMA InitRefines == Init /\ IInv => Abstract!Init
<1> SUFFICES ASSUME Init, IInv PROVE Abstract!Init
  OBVIOUS
<1>1. asked = [a \in Agents |-> <<>>] /\ answered = {} /\ link = [pair \in Neighbours |-> <<>>]
      /\ store = [c \in Clps |-> [v \in {x \in Variables : InitialClp[x] = c} |-> <<>>]]
  BY DEF Init
<1>2. Sent = {}
  <2>1. \A a \in Agents : DOMAIN asked[a] = {}
    BY <1>1
  <2>2. SentBy(asked) = {}
    BY <2>1, SentByFacts
  <2> QED
    BY <2>2, SentIs DEF SentIn, CancelledFrom
<1>3. ASSUME NEW v \in Variables PROVE Contents(v) = <<>>
  <2>1. \A c \in Hosts(v) : store[c][v] = <<>>
    BY <1>1 DEF Hosts
  <2>2. Hosts(v) # {}
    <3>1. InitialClp[v] \in Clps
      BY RoutingAssumption
    <3>2. v \in DOMAIN store[InitialClp[v]]
      BY <1>1, <3>1
    <3> QED
      BY <3>1, <3>2 DEF Hosts
  <2> QED
    BY <2>1, <2>2 DEF Contents
<1> QED
  BY <1>1, <1>2, <1>3 DEF Abstract!Init

\* The tree implements what RemoteAccess promises (fairness apart): each message
\* is executed once and each request answered once, however variables move.
THEOREM Refinement == Spec => Abstract!Safety
<1>1. Spec => []IInv
  BY Invariance
<1>2. Init /\ IInv => Abstract!Init
  BY InitRefines
<1>3. IInv /\ IInv' /\ [Next]_vars => [Abstract!Next]_(Abstract!remoteVars)
  BY StepRefines
<1> QED
  BY <1>1, <1>2, <1>3, PTL DEF Spec, Abstract!Safety

-----------------------------------------------------------------------------
(* The order of messages in links.                                         *)

\* t is in list s before place k.
Ahead(s, t, k) == \E j \in Pos(s, t) : j < k

Gone(gone, t) == \E g \in gone : Carries(g, t)

\* List r of link p comes from list s: what gone carries may have been taken, what
\* stays keeps its order, and what is new in p, which is among new, is behind it.
Succeeds(p, s, r, gone, new) ==
  /\ \A t : Pos(s, t) # {} /\ ~Gone(gone, t) => Pos(r, t) # {}
  /\ \A k \in 1 .. Len(r) :
       \/ \E l \in 1 .. Len(s) :
            /\ r[k] = s[l]
            /\ \A t : Ahead(s, t, l) /\ ~Gone(gone, t) => Ahead(r, t, k)
       \/ /\ <<p, r[k]>> \in new
          /\ \A t : Pos(s, t) # {} /\ ~Gone(gone, t) => Ahead(r, t, k)

Steps(lk, lk2, gone, new) == \A p \in Neighbours : Succeeds(p, lk[p], lk2[p], gone, new)

\* A list from which a message is taken.
LEMMA SucceedsRemove ==
  ASSUME NEW S, NEW s \in Seq(S), NEW i \in 1 .. Len(s), NEW p
  PROVE  Succeeds(p, s, RemoveAt(s, i), {s[i]}, {})
<1> DEFINE r == RemoveAt(s, i)
           Old(k) == IF k < i THEN k ELSE k + 1
           New(k) == IF k < i THEN k ELSE k - 1
<1>1. /\ r \in Seq(S) /\ Len(r) = Len(s) - 1 /\ Len(s) \in Nat
      /\ \A k \in 1 .. Len(s) - 1 : r[k] = IF k < i THEN s[k] ELSE s[k + 1]
  BY RemoveAtSeq, LenProperties
<1> HIDE DEF r
<1>2. ASSUME NEW t, ~Gone({s[i]}, t), NEW j \in Pos(s, t)
      PROVE  j \in 1 .. Len(s) /\ j # i /\ New(j) \in Pos(r, t)
  <2>1. j \in 1 .. Len(s) /\ Carries(s[j], t) /\ j # i
    BY <1>2 DEF Pos, Gone
  <2>2. New(j) \in 1 .. Len(s) - 1 /\ r[New(j)] = s[j]
    BY <1>1, <2>1
  <2> QED
    BY <1>1, <2>1, <2>2 DEF Pos
<1>3. ASSUME NEW k \in 1 .. Len(r)
      PROVE  /\ Old(k) \in 1 .. Len(s) /\ r[k] = s[Old(k)]
             /\ \A t : Ahead(s, t, Old(k)) /\ ~Gone({s[i]}, t) => Ahead(r, t, k)
  <2>1. k \in 1 .. Len(s) - 1 /\ Old(k) \in 1 .. Len(s) /\ r[k] = s[Old(k)]
    BY <1>1
  <2>2. ASSUME NEW t, Ahead(s, t, Old(k)), ~Gone({s[i]}, t) PROVE Ahead(r, t, k)
    <3>1. PICK j \in Pos(s, t) : j < Old(k)
      BY <2>2 DEF Ahead
    <3>2. j \in 1 .. Len(s) /\ j # i /\ New(j) \in Pos(r, t)
      BY <1>2, <2>2, <3>1
    <3>3. New(j) < k
      BY <1>1, <2>1, <3>1, <3>2
    <3> QED
      BY <3>2, <3>3 DEF Ahead
  <2> QED
    BY <2>1, <2>2
<1> HIDE DEF Old, New
<1>4. \A t : Pos(s, t) # {} /\ ~Gone({s[i]}, t) => Pos(r, t) # {}
  BY <1>2
<1>5. Succeeds(p, s, r, {s[i]}, {})
  BY <1>3, <1>4 DEF Succeeds
<1> QED
  BY <1>5 DEF r

\* A list to which messages are appended.
LEMMA SucceedsConcat ==
  ASSUME NEW S, NEW s \in Seq(S), NEW m \in Seq(S), NEW p, NEW new,
         \A j \in 1 .. Len(m) : <<p, m[j]>> \in new
  PROVE  Succeeds(p, s, s \o m, {}, new)
<1> DEFINE c == s \o m
<1>1. /\ c \in Seq(S) /\ Len(c) = Len(s) + Len(m) /\ Len(s) \in Nat /\ Len(m) \in Nat
      /\ \A k \in 1 .. Len(s) + Len(m) : c[k] = IF k <= Len(s) THEN s[k] ELSE m[k - Len(s)]
  BY ConcatProperties, LenProperties
<1> HIDE DEF c
<1>2. \A t : \A j \in Pos(s, t) : j \in Pos(c, t) /\ j \in 1 .. Len(s)
  BY <1>1 DEF Pos
<1>3. \A t : Pos(s, t) # {} => Pos(c, t) # {}
  BY <1>2
<1>4. ASSUME NEW k \in 1 .. Len(c), k <= Len(s)
      PROVE  k \in 1 .. Len(s) /\ c[k] = s[k] /\ \A t : Ahead(s, t, k) => Ahead(c, t, k)
  BY <1>1, <1>2, <1>4 DEF Ahead
<1>5. ASSUME NEW k \in 1 .. Len(c), ~(k <= Len(s))
      PROVE  <<p, c[k]>> \in new /\ \A t : Pos(s, t) # {} => Ahead(c, t, k)
  <2>1. k - Len(s) \in 1 .. Len(m) /\ c[k] = m[k - Len(s)]
    BY <1>1, <1>5
  <2>2. \A t : Pos(s, t) # {} => Ahead(c, t, k)
    BY <1>1, <1>2, <1>5 DEF Ahead
  <2> QED
    BY <2>1, <2>2
<1>6. Succeeds(p, s, c, {}, new)
  BY <1>3, <1>4, <1>5 DEF Succeeds
<1> QED
  BY <1>6 DEF c

\* One message more.
LEMMA SucceedsAppend ==
  ASSUME NEW S, NEW s \in Seq(S), NEW m \in S, NEW p, NEW new, <<p, m>> \in new
  PROVE  Succeeds(p, s, Append(s, m), {}, new)
<1> DEFINE c == Append(s, m)
<1>1. /\ c \in Seq(S) /\ Len(c) = Len(s) + 1 /\ Len(s) \in Nat
      /\ \A k \in 1 .. Len(s) : c[k] = s[k]
      /\ c[Len(s) + 1] = m
  BY AppendProperties, LenProperties
<1> HIDE DEF c
<1>2. \A t : \A j \in Pos(s, t) : j \in Pos(c, t) /\ j \in 1 .. Len(s)
  BY <1>1 DEF Pos
<1>3. \A t : Pos(s, t) # {} => Pos(c, t) # {}
  BY <1>2
<1>4. ASSUME NEW k \in 1 .. Len(c), k <= Len(s)
      PROVE  k \in 1 .. Len(s) /\ c[k] = s[k] /\ \A t : Ahead(s, t, k) => Ahead(c, t, k)
  BY <1>1, <1>2, <1>4 DEF Ahead
<1>5. ASSUME NEW k \in 1 .. Len(c), ~(k <= Len(s))
      PROVE  <<p, c[k]>> \in new /\ \A t : Pos(s, t) # {} => Ahead(c, t, k)
  <2>1. k = Len(s) + 1
    BY <1>1, <1>5
  <2>2. \A t : Pos(s, t) # {} => Ahead(c, t, k)
    BY <1>1, <1>2, <1>5 DEF Ahead
  <2> QED
    BY <1>1, <2>1, <2>2
<1>6. Succeeds(p, s, c, {}, new)
  BY <1>3, <1>4, <1>5 DEF Succeeds
<1> QED
  BY <1>6 DEF c

\* A list that stays as it is, and one that changes twice.
LEMMA SucceedsSame ==
  ASSUME NEW p, NEW s, NEW gone, NEW new
  PROVE  Succeeds(p, s, s, gone, new)
BY DEF Succeeds

\* Two such changes one after the other.
LEMMA SucceedsTwice ==
  ASSUME NEW p, NEW s, NEW r, NEW u, NEW gone, NEW new,
         Succeeds(p, s, r, gone, {}), Succeeds(p, r, u, {}, new)
  PROVE  Succeeds(p, s, u, gone, new)
<1>1. \A t : ~Gone({}, t)
  BY DEF Gone
<1>2. \A t : Pos(s, t) # {} /\ ~Gone(gone, t) => Pos(r, t) # {}
  BY DEF Succeeds
<1>3. \A t : Pos(r, t) # {} => Pos(u, t) # {}
  BY <1>1 DEF Succeeds
<1>4. ASSUME NEW k \in 1 .. Len(u)
      PROVE  \/ \E l \in 1 .. Len(s) :
                  /\ u[k] = s[l]
                  /\ \A t : Ahead(s, t, l) /\ ~Gone(gone, t) => Ahead(u, t, k)
             \/ /\ <<p, u[k]>> \in new
                /\ \A t : Pos(s, t) # {} /\ ~Gone(gone, t) => Ahead(u, t, k)
  <2>1. CASE <<p, u[k]>> \in new /\ \A t : Pos(r, t) # {} => Ahead(u, t, k)
    BY <1>2, <2>1
  <2>2. ASSUME NEW l \in 1 .. Len(r), u[k] = r[l], \A t : Ahead(r, t, l) => Ahead(u, t, k)
        PROVE  \E n \in 1 .. Len(s) :
                 /\ u[k] = s[n]
                 /\ \A t : Ahead(s, t, n) /\ ~Gone(gone, t) => Ahead(u, t, k)
    <3>1. PICK n \in 1 .. Len(s) :
            /\ r[l] = s[n]
            /\ \A t : Ahead(s, t, n) /\ ~Gone(gone, t) => Ahead(r, t, l)
      BY DEF Succeeds
    <3> QED
      BY <2>2, <3>1
  <2> QED
    BY <1>1, <2>1, <2>2 DEF Succeeds
<1> QED
  BY <1>2, <1>3, <1>4 DEF Succeeds

\* The links when a message is taken, put, taken and another put, and when
\* messages are put into several.
LEMMA StepsTake ==
  ASSUME NEW S, NEW lk \in [Neighbours -> Seq(S)], NEW p \in Neighbours, NEW i \in 1 .. Len(lk[p])
  PROVE  Steps(lk, Without(lk, p, i), {lk[p][i]}, {})
<1> SUFFICES ASSUME NEW r \in Neighbours
             PROVE  Succeeds(r, lk[r], Without(lk, p, i)[r], {lk[p][i]}, {})
  BY DEF Steps
<1>1. CASE r = p
  <2>1. Without(lk, p, i)[r] = RemoveAt(lk[p], i) /\ lk[p] \in Seq(S)
    BY <1>1 DEF Without
  <2> QED
    BY <1>1, <2>1, SucceedsRemove
<1>2. CASE r # p
  <2>1. Without(lk, p, i)[r] = lk[r]
    BY <1>2 DEF Without
  <2> QED
    BY <2>1, SucceedsSame
<1> QED
  BY <1>1, <1>2

\* Links with one message more.
LEMMA StepsPut ==
  ASSUME NEW S, NEW lk \in [Neighbours -> Seq(S)], NEW p \in Neighbours, NEW m \in S
  PROVE  Steps(lk, With(lk, p, m), {}, {<<p, m>>})
<1> SUFFICES ASSUME NEW r \in Neighbours
             PROVE  Succeeds(r, lk[r], With(lk, p, m)[r], {}, {<<p, m>>})
  BY DEF Steps
<1>1. CASE r = p
  <2>1. With(lk, p, m)[r] = Append(lk[p], m) /\ lk[p] \in Seq(S) /\ <<p, m>> \in {<<p, m>>}
    BY <1>1 DEF With
  <2> QED
    BY <1>1, <2>1, SucceedsAppend
<1>2. CASE r # p
  <2>1. With(lk, p, m)[r] = lk[r]
    BY <1>2 DEF With
  <2> QED
    BY <2>1, SucceedsSame
<1> QED
  BY <1>1, <1>2

\* Links where a message moved from one to another.
LEMMA StepsPass ==
  ASSUME NEW S, NEW lk \in [Neighbours -> Seq(S)], NEW p \in Neighbours, NEW i \in 1 .. Len(lk[p]),
         NEW r \in Neighbours, NEW m \in S
  PROVE  Steps(lk, With(Without(lk, p, i), r, m), {lk[p][i]}, {<<r, m>>})
<1> DEFINE mid == Without(lk, p, i)
<1>1. Steps(lk, mid, {lk[p][i]}, {})
  BY StepsTake
<1>2. mid \in [Neighbours -> Seq(S)]
  BY RemoveAtSeq DEF Without
<1> HIDE DEF mid
<1>3. Steps(mid, With(mid, r, m), {}, {<<r, m>>})
  BY <1>2, StepsPut
<1>4. Steps(lk, With(mid, r, m), {lk[p][i]}, {<<r, m>>})
  BY <1>1, <1>3, SucceedsTwice DEF Steps
<1> QED
  BY <1>4 DEF mid

\* Links with some messages more.
LEMMA StepsExtend ==
  ASSUME NEW S, NEW lk \in [Neighbours -> Seq(S)], NEW ms \in [Neighbours -> Seq(S)], NEW new,
         \A p \in Neighbours : \A j \in 1 .. Len(ms[p]) : <<p, ms[p][j]>> \in new
  PROVE  Steps(lk, Extended(lk, ms), {}, new)
<1> SUFFICES ASSUME NEW r \in Neighbours
             PROVE  Succeeds(r, lk[r], Extended(lk, ms)[r], {}, new)
  BY DEF Steps
<1>1. Extended(lk, ms)[r] = lk[r] \o ms[r] /\ lk[r] \in Seq(S) /\ ms[r] \in Seq(S)
  BY DEF Extended
<1> QED
  BY <1>1, SucceedsConcat

-----------------------------------------------------------------------------
(* Detours.                                                                *)

EraIn(ask, x) == ask[x.agent][x.n].era

\* The steps that message m may still make, with asked and moves as given.
Slack(ask, mv, m) == LongestWay - 1 + 2 * (mv[m.access.var] - EraIn(ask, m.access)) - m.hops

\* From the k-th place of link p it is not further to variable v than s steps;
\* behind a migration that v is in, one step more may have been made already.
Close(lk, st, p, k, v, s) ==
  /\ \A h \in HostsIn(st, v) : Distance(p[2], h) <= s
  /\ \A f \in In(lk, <<"variable", v>>) :
       IF p = f /\ Ahead(lk[p], <<"variable", v>>, k) THEN -1 <= s ELSE Distance(p[2], f[1]) <= s

Bounded(lk, st, ask, mv) ==
  \A p \in Neighbours : \A k \in 1 .. Len(lk[p]) :
    lk[p][k].kind = "access" =>
      Close(lk, st, p, k, lk[p][k].access.var, Slack(ask, mv, lk[p][k]))

\* No request is from the future.
Dated(ask, mv) ==
  \A a \in Agents : \A n \in DOMAIN ask[a] : ask[a][n].era <= mv[ask[a][n].var]

DetourInv == Dated(asked, moves) /\ Bounded(link, store, asked, moves)

\* The longest way is as long as every other, and a step.
LEMMA LongestWayFacts ==
  /\ LongestWay \in Int
  /\ \A c, d \in Clps : Distance(c, d) \in Nat /\ Distance(c, d) <= LongestWay - 1
<1> DEFINE S == {Distance(c, d) : c \in Clps, d \in Clps}
<1>1. NumberOfClps \in Nat /\ 0 \in Clps
  BY ClpTreeAssumption DEF Clps
<1>2. \A c, d \in Clps : Distance(c, d) \in Nat /\ Distance(c, d) <= NumberOfClps
  BY ApartIsFinite
<1>3. \A c, d \in Clps : Distance(c, d) \in S
  OBVIOUS
<1>4. S \in SUBSET (0 .. NumberOfClps) /\ S # {}
  <2>1. \A y \in S : \E c \in Clps : \E d \in Clps : y = Distance(c, d)
    OBVIOUS
  <2> HIDE DEF S
  <2>2. \A y \in S : y \in Nat /\ y <= NumberOfClps
    BY <1>2, <2>1
  <2>3. S # {}
    BY <1>1, <1>3
  <2> QED
    BY <1>1, <2>2, <2>3
<1>5. LongestWay = 1 + Max(S)
  BY DEF LongestWay
<1> HIDE DEF S
<1>6. Max(S) \in S /\ \A y \in S : y <= Max(S)
  BY <1>1, <1>4, MaxOfSet
<1>7. Max(S) \in Int
  <2>1. Max(S) \in 0 .. NumberOfClps
    BY <1>4, <1>6
  <2> QED
    BY <2>1
<1> QED
  BY <1>2, <1>3, <1>5, <1>6, <1>7

\* What is known of a message that has been sent.
LEMMA SentAccess ==
  ASSUME IInv, NEW x \in Sent
  PROVE  /\ x \in Accesses /\ x.agent \in Agents /\ x.var \in Variables
         /\ x.n \in DOMAIN asked[x.agent] /\ asked[x.agent][x.n].var = x.var
         /\ EraIn(asked, x) \in Nat /\ moves[x.var] \in Nat
<1>1. x \in Accesses
  BY DEF IInv, Conserved
<1>2. \E q \in SentBy(asked) : x = q \/ x = AntiOf(q)
  BY SentIs DEF SentIn, CancelledFrom
<1>3. PICK q \in SentBy(asked) : x = q \/ x = AntiOf(q)
  BY <1>2
<1>4. PICK a \in Agents : \E n \in DOMAIN asked[a] : q = Access("request", a, n, asked[a][n].var)
  BY SentByFacts
<1>5. PICK n \in DOMAIN asked[a] : q = Access("request", a, n, asked[a][n].var)
  BY <1>4
<1>6. x.agent = a /\ x.n = n /\ x.var = asked[a][n].var
  BY <1>3, <1>5 DEF Access, AntiOf
<1>7. asked[a] \in Seq([var : Variables, era : Nat])
  BY DEF IInv, TypedAgents
<1>8. asked[a][n] \in [var : Variables, era : Nat]
  BY <1>7, LenProperties, ElementOfSeq
<1>9. moves \in [Variables -> Nat]
  BY DEF IInv, TypedClps
<1> QED
  BY <1>1, <1>5, <1>6, <1>8, <1>9 DEF EraIn

\* What is known of an access on its way.
LEMMA LinkAccess ==
  ASSUME IInv, NEW p \in Neighbours, NEW k \in 1 .. Len(link[p]), link[p][k].kind = "access"
  PROVE  LET m == link[p][k]
         IN /\ m.access \in Sent /\ m.access \in Accesses /\ m.hops \in Nat
            /\ p[2] \in Clps /\ k \in Pos(link[p], <<"access", m.access>>)
            /\ In(link, <<"access", m.access>>) = {p}
            /\ Slack(asked, moves, m) \in Int
<1> DEFINE m == link[p][k]
<1>1. link[p] \in Seq(Messages) /\ Allowed(p, m)
  BY DEF IInv, GoodLinks, TypedLinks
<1>2. m \in Messages
  BY <1>1, ElementOfSeq
<1>3. m.access \in Accesses /\ m.hops \in Nat
  BY <1>2, ThingFacts
<1>4. p[2] \in Clps
  BY <1>1 DEF Allowed
<1>5. k \in Pos(link[p], <<"access", m.access>>)
  BY CarriesFacts DEF Pos
<1>6. p \in In(link, <<"access", m.access>>)
  BY <1>5 DEF In
<1>7. OneAtMost(link, <<"access", m.access>>)
  BY <1>3, ThingFacts DEF IInv, GoodLinks
<1>8. In(link, <<"access", m.access>>) = {p}
  BY <1>6, <1>7 DEF OneAtMost, AtMostOne
<1>9. m.access \in Sent
  BY <1>3, <1>8 DEF IInv, Conserved
<1>10. EraIn(asked, m.access) \in Nat /\ moves[m.access.var] \in Nat
  BY <1>9, SentAccess
<1> HIDE DEF m
<1>11. Slack(asked, moves, m) \in Int
  BY <1>3, <1>10, LongestWayFacts DEF Slack
<1> QED
  BY <1>3, <1>4, <1>5, <1>8, <1>9, <1>11 DEF m

\* A variable on its way is between two CLPs, and at none.
LEMMA FlightPair ==
  ASSUME IInv, NEW v \in Variables, NEW f \in In(link, <<"variable", v>>)
  PROVE  /\ f \in Neighbours /\ f[1] \in Clps /\ f[2] \in Clps /\ f = <<f[1], f[2]>>
         /\ HostsIn(store, v) = {} /\ In(link, <<"variable", v>>) = {f}
<1>1. f \in Neighbours /\ Pos(link[f], <<"variable", v>>) # {}
  BY DEF In
<1>2. PICK j \in 1 .. Len(link[f]) : Carries(link[f][j], <<"variable", v>>)
  BY <1>1 DEF Pos
<1>3. link[f][j].kind = "migration"
  BY <1>2, CarriesFacts
<1>4. f \in Clps \X Clps
  BY <1>1, <1>3 DEF IInv, GoodLinks, TypedLinks, Allowed
<1>5. HostsIn(store, v) = {}
  BY DEF IInv, Placed
<1>6. OneAtMost(link, <<"variable", v>>)
  BY ThingFacts DEF IInv, GoodLinks
<1> QED
  BY <1>1, <1>4, <1>5, <1>6 DEF OneAtMost, AtMostOne

\* A message that goes into link p with s steps left.
Fits(lk, st, p, v, s) ==
  /\ \A h \in HostsIn(st, v) : Distance(p[2], h) <= s
  /\ \A f \in In(lk, <<"variable", v>>) : IF p = f THEN -1 <= s ELSE Distance(p[2], f[1]) <= s

SameHosts(st, st2) == \A w : HostsIn(st2, w) = HostsIn(st, w)

SameSlack(lk, ask, mv, ask2, mv2) ==
  \A p \in Neighbours : \A k \in 1 .. Len(lk[p]) :
    lk[p][k].kind = "access" => Slack(ask2, mv2, lk[p][k]) = Slack(ask, mv, lk[p][k])

\* What is new in a link, and when it may go there.
NewFit(lk, st, ask, mv, new) ==
  \A p \in Neighbours : \A m : <<p, m>> \in new /\ m.kind = "access" =>
    Fits(lk, st, p, m.access.var, Slack(ask, mv, m))

\* It is not further to a variable that stays where it is.
LEMMA CloseKept ==
  ASSUME IInv, NEW lk2, NEW st2, NEW v \in Variables, NEW p \in Neighbours, p[2] \in Clps, NEW k, NEW l,
         In(lk2, <<"variable", v>>) = In(link, <<"variable", v>>),
         HostsIn(st2, v) = HostsIn(store, v),
         Ahead(link[p], <<"variable", v>>, l) => Ahead(lk2[p], <<"variable", v>>, k),
         NEW s \in Int, Close(link, store, p, l, v, s)
  PROVE  Close(lk2, st2, p, k, v, s)
<1> DEFINE t == <<"variable", v>>
<1>1. \A f \in In(link, t) : Distance(p[2], f[1]) <= s => -1 <= s
  <2> TAKE f \in In(link, t)
  <2>1. f[1] \in Clps
    BY FlightPair
  <2>2. Distance(p[2], f[1]) \in Nat
    BY <2>1, LongestWayFacts
  <2> QED
    BY <2>2
<1> HIDE DEF t
<1>2. \A f \in In(lk2, t) :
        IF p = f /\ Ahead(lk2[p], t, k) THEN -1 <= s ELSE Distance(p[2], f[1]) <= s
  BY <1>1 DEF Close, t
<1> QED
  BY <1>2 DEF Close, t

\* It is not far to a variable for a message that fits.
LEMMA CloseNew ==
  ASSUME NEW lk2, NEW st2, NEW v \in Variables, NEW p \in Neighbours, NEW k,
         In(lk2, <<"variable", v>>) = In(link, <<"variable", v>>),
         HostsIn(st2, v) = HostsIn(store, v),
         Pos(link[p], <<"variable", v>>) # {} => Ahead(lk2[p], <<"variable", v>>, k),
         NEW s, Fits(link, store, p, v, s)
  PROVE  Close(lk2, st2, p, k, v, s)
<1> DEFINE t == <<"variable", v>>
<1> HIDE DEF t
<1>1. \A f \in In(lk2, t) :
        IF p = f /\ Ahead(lk2[p], t, k) THEN -1 <= s ELSE Distance(p[2], f[1]) <= s
  BY DEF Fits, t, In
<1> QED
  BY <1>1 DEF Close, Fits, t

\* Steps that take messages from links and put new ones there, variables apart.
LEMMA BoundedStays ==
  ASSUME IInv, NEW lk2, NEW st2, NEW ask2, NEW mv2, NEW gone, NEW new,
         Steps(link, lk2, gone, new), SameFlights(link, lk2), SameHosts(store, st2),
         \A g \in gone : g.kind # "migration",
         \A p \in Neighbours : \A m : <<p, m>> \in new /\ m.kind = "access" => m.access.var \in Variables,
         SameSlack(link, asked, moves, ask2, mv2),
         NewFit(link, store, ask2, mv2, new),
         Bounded(link, store, asked, moves)
  PROVE  Bounded(lk2, st2, ask2, mv2)
<1> SUFFICES ASSUME NEW p \in Neighbours, NEW k \in 1 .. Len(lk2[p]), lk2[p][k].kind = "access"
             PROVE  Close(lk2, st2, p, k, lk2[p][k].access.var, Slack(ask2, mv2, lk2[p][k]))
  BY DEF Bounded
<1> DEFINE m == lk2[p][k]
           v == m.access.var
           s == Slack(ask2, mv2, m)
           t == <<"variable", v>>
<1>1. ~Gone(gone, t)
  BY CarriesFacts DEF Gone
<1>2. Succeeds(p, link[p], lk2[p], gone, new)
  BY DEF Steps
<1>3. HostsIn(st2, v) = HostsIn(store, v)
  BY DEF SameHosts
<1>4. ASSUME NEW l \in 1 .. Len(link[p]), m = link[p][l],
             Ahead(link[p], t, l) => Ahead(lk2[p], t, k)
      PROVE  Close(lk2, st2, p, k, v, s)
  <2>1. /\ Close(link, store, p, l, v, s)
        /\ v \in Variables /\ p[2] \in Clps /\ s \in Int
    <3>1. link[p][l].kind = "access"
      BY <1>4
    <3>2. s = Slack(asked, moves, m)
      BY <1>4, <3>1 DEF SameSlack
    <3>3. link[p][l].access \in Sent /\ p[2] \in Clps /\ Slack(asked, moves, link[p][l]) \in Int
      BY <3>1, LinkAccess
    <3>4. v \in Variables
      BY <1>4, <3>3, SentAccess
    <3> QED
      BY <1>4, <3>1, <3>2, <3>3, <3>4 DEF Bounded
  <2>2. In(lk2, t) = In(link, t)
    BY <2>1 DEF SameFlights
  <2> HIDE DEF m, v, s
  <2> QED
    BY <1>3, <1>4, <2>1, <2>2, CloseKept
<1>5. ASSUME <<p, m>> \in new, Pos(link[p], t) # {} => Ahead(lk2[p], t, k)
      PROVE  Close(lk2, st2, p, k, v, s)
  <2>1. Fits(link, store, p, v, s) /\ v \in Variables
    BY <1>5 DEF NewFit
  <2>2. In(lk2, t) = In(link, t)
    BY <2>1 DEF SameFlights
  <2> HIDE DEF m, v, s
  <2> QED
    BY <1>3, <1>5, <2>1, <2>2, CloseNew
<1> HIDE DEF m, v, s
<1>6. \/ \E l \in 1 .. Len(link[p]) : m = link[p][l] /\ (Ahead(link[p], t, l) => Ahead(lk2[p], t, k))
      \/ <<p, m>> \in new /\ (Pos(link[p], t) # {} => Ahead(lk2[p], t, k))
  <2> HIDE DEF t
  <2> QED
    BY <1>1, <1>2 DEF Succeeds, m
<1> QED
  BY <1>4, <1>5, <1>6 DEF m, v, s

-----------------------------------------------------------------------------
(* What the steps do to the order.                                         *)

\* The next step of an access that its variable is not here for.
LEMMA WayOn ==
  ASSUME IInv, NEW c \in Clps, NEW v \in Variables, direction[c][v] # "HERE"
  PROVE  LET n == RankOf(c, direction[c][v])
         IN /\ <<c, n>> \in Neighbours /\ n \in Clps
            /\ \A h \in HostsIn(store, v) : h # c /\ n = NextClp(c, h)
            /\ \A f \in In(link, <<"variable", v>>) :
                 n = IF c = f[1] THEN f[2] ELSE NextClp(c, f[1])
<1> DEFINE n == RankOf(c, direction[c][v])
<1>1. GoodLinks(link) /\ Placed(store, link) /\ Directed(direction, store, link)
  BY DEF IInv
<1>2. <<c, n>> \in Neighbours /\ n \in Clps /\ c \notin HostsIn(store, v)
  BY <1>1, Way
<1>3. ASSUME NEW h \in HostsIn(store, v) PROVE h # c /\ n = NextClp(c, h)
  <2>a. h \in Clps
    BY <1>3 DEF HostsIn
  <2>1. h \in Clps /\ h # c /\ direction[c][v] = PortTo(c, NextClp(c, h))
    BY ZenonT(60), <1>1, <1>2, <1>3, <2>a DEF Directed
  <2>2. <<c, NextClp(c, h)>> \in Neighbours
    BY <2>1, NextIsNeighbour
  <2> QED
    BY <2>1, <2>2, PortToNeighbour
<1>4. ASSUME NEW f \in In(link, <<"variable", v>>)
      PROVE  n = IF c = f[1] THEN f[2] ELSE NextClp(c, f[1])
  <2> DEFINE y == IF c = f[1] THEN f[2] ELSE NextClp(c, f[1])
  <2>1. direction[c][v] = PortTo(c, y)
    BY <1>1, <1>4 DEF Directed
  <2>2. f \in Neighbours /\ f[1] \in Clps /\ f[2] \in Clps /\ f = <<f[1], f[2]>>
    BY <1>4, FlightPair
  <2>3. <<c, y>> \in Neighbours
    BY <2>2, NextIsNeighbour
  <2> HIDE DEF y
  <2>4. n = y
    BY <2>1, <2>3, PortToNeighbour
  <2> QED
    BY <2>4 DEF y
<1> QED
  BY <1>2, <1>3, <1>4

\* What is passed on is in the link it is put into.
LEMMA PassedIsIn ==
  ASSUME NEW S, NEW lk \in [Neighbours -> Seq(S)], NEW p \in Neighbours, NEW i \in 1 .. Len(lk[p]),
         NEW r \in Neighbours, NEW m \in S, NEW t, Carries(m, t)
  PROVE  r \in In(With(Without(lk, p, i), r, m), t)
<1> DEFINE mid == Without(lk, p, i)
<1>1. mid \in [Neighbours -> Seq(S)]
  BY RemoveAtSeq DEF Without
<1> HIDE DEF mid
<1> DEFINE lk2 == With(mid, r, m)
<1>2. /\ lk2 \in [Neighbours -> Seq(S)]
      /\ Carries(m, t) => In(lk2, t) = In(mid, t) \union {r}
      /\ ~Carries(m, t) => In(lk2, t) = In(mid, t)
      /\ OneAtMost(mid, t) /\ (Carries(m, t) => In(mid, t) = {}) => OneAtMost(lk2, t)
  BY <1>1, PutLink
<1>3. r \in In(With(mid, r, m), t)
  BY <1>2
<1> QED
  BY <1>3 DEF mid

\* Forward takes an access and puts it, with one hop more, where the table says.
LEMMA ForwardSteps ==
  ASSUME IInv, NEW pair \in IntoClp, Forward(pair[1], pair[2])
  PROVE  LET m == link[pair][1]
             c == pair[2]
             r == <<c, RankOf(c, direction[c][m.access.var])>>
         IN /\ pair \in Neighbours /\ 1 \in 1 .. Len(link[pair]) /\ m.kind = "access" /\ c \in Clps
            /\ direction[c][m.access.var] # "HERE" /\ r \in Neighbours
            /\ Steps(link, link', {m}, {<<r, Carried(m.access, m.hops + 1)>>})
            /\ SameFlights(link, link') /\ UNCHANGED <<clpVars, agentVars, histVars>>
            /\ r \in In(link', <<"access", m.access>>)
<1> DEFINE x == pair[1]
           c == pair[2]
           m == link[pair][1]
           d == direction[c][m.access.var]
           r == <<c, RankOf(c, d)>>
           new == Carried(m.access, m.hops + 1)
<1>1. /\ pair \in Neighbours /\ c \in Clps /\ pair = <<x, c>>
      /\ First(x, c) = 1 /\ 1 \in 1 .. Len(link[pair]) /\ m.kind = "access"
  BY NextMessage DEF Forward
<1>2. m.access \in Sent /\ m.access \in Accesses /\ m.hops \in Nat
  BY <1>1, LinkAccess
<1>3. m.access.var \in Variables
  BY <1>2, SentAccess
<1>4. /\ d # "HERE" /\ link' = Passed(x, c, RankOf(c, d), new)
      /\ UNCHANGED <<clpVars, agentVars, histVars>>
  BY <1>1 DEF Forward
<1>5. r \in Neighbours /\ RankOf(c, d) \in Clps
  BY <1>1, <1>3, <1>4, WayOn
<1>6. /\ new \in Messages /\ new.kind = "access" /\ new.access = m.access
      /\ Allowed(r, new)
  BY <1>2, <1>5, ThingFacts DEF Carried, Allowed
<1>7. link' = With(Without(link, pair, 1), r, new)
  BY <1>1, <1>4 DEF Passed, Taken, With, Without
<1>8. GoodLinks(link) /\ link \in [Neighbours -> Seq(Messages)]
  BY DEF IInv, GoodLinks, TypedLinks
<1> HIDE DEF new, r, m
<1>9. Steps(link, link', {m}, {<<r, new>>})
  BY <1>1, <1>5, <1>6, <1>7, <1>8, StepsPass DEF m
<1>10. SameFlights(link, link')
  BY <1>1, <1>5, <1>6, <1>7, <1>8, Passing DEF m
<1>11. r \in In(link', <<"access", m.access>>)
  BY <1>1, <1>5, <1>6, <1>7, <1>8, CarriesFacts, PassedIsIn
<1> QED
  BY <1>1, <1>4, <1>5, <1>9, <1>10, <1>11 DEF new, r, m

\* ForwardResponse passes a response on.
LEMMA ForwardResponseSteps ==
  ASSUME IInv, NEW pair \in IntoClp, ForwardResponse(pair[1], pair[2])
  PROVE  LET m == link[pair][1]
         IN /\ m.kind = "response"
            /\ \E r \in Neighbours : Steps(link, link', {m}, {<<r, m>>})
            /\ SameFlights(link, link') /\ UNCHANGED <<clpVars, agentVars, histVars>>
<1> DEFINE x == pair[1]
           c == pair[2]
           m == link[pair][1]
           y == RankOf(c, PortToAlp(c, AlpOf[m.access.agent]))
           r == <<c, y>>
<1>1. /\ pair \in Neighbours /\ c \in Clps /\ pair = <<x, c>>
      /\ First(x, c) = 1 /\ 1 \in 1 .. Len(link[pair]) /\ m.kind = "response"
  BY NextMessage DEF ForwardResponse
<1>2. m \in Messages /\ m.access \in Requests
  <2>1. m \in Messages
    BY <1>1, ElementOfSeq DEF IInv, GoodLinks, TypedLinks
  <2> QED
    BY <1>1, <2>1, ThingFacts
<1>3. AlpOf[m.access.agent] \in Alps
  BY <1>2, RoutingAssumption DEF Requests
<1>4. /\ link' = Passed(x, c, y, m)
      /\ UNCHANGED <<clpVars, agentVars, histVars>>
  BY <1>1 DEF ForwardResponse
<1>5. r \in Neighbours
  BY <1>1, <1>3, PortToAlpIsPort, PortRank
<1>6. Allowed(r, m)
  BY <1>1 DEF Allowed
<1>7. link' = With(Without(link, pair, 1), r, m)
  BY <1>1, <1>4 DEF Passed, Taken, With, Without
<1>8. GoodLinks(link) /\ link \in [Neighbours -> Seq(Messages)]
  BY DEF IInv, GoodLinks, TypedLinks
<1> HIDE DEF r, m
<1>9. Steps(link, link', {m}, {<<r, m>>})
  BY <1>1, <1>2, <1>5, <1>7, <1>8, StepsPass DEF m
<1>10. SameFlights(link, link')
  BY <1>1, <1>2, <1>5, <1>6, <1>7, <1>8, Passing DEF m
<1> QED
  BY <1>1, <1>4, <1>5, <1>9, <1>10 DEF m

\* Execute takes an access, and may put a response.
LEMMA ExecuteSteps ==
  ASSUME IInv, NEW pair \in IntoClp, Execute(pair[1], pair[2])
  PROVE  LET m == link[pair][1]
         IN /\ pair \in Neighbours /\ 1 \in 1 .. Len(link[pair])
            /\ m.kind = "access" /\ direction[pair[2]][m.access.var] = "HERE"
            /\ \E r \in Neighbours : Steps(link, link', {m}, {<<r, Response(m.access)>>})
            /\ SameFlights(link, link') /\ UNCHANGED <<direction, agentVars, histVars>>
<1> DEFINE x == pair[1]
           c == pair[2]
           m == link[pair][1]
           q == m.access
           y == RankOf(c, PortToAlp(c, AlpOf[q.agent]))
           r == <<c, y>>
           new == Response(q)
<1>1. /\ pair \in Neighbours /\ c \in Clps /\ pair = <<x, c>>
      /\ First(x, c) = 1 /\ 1 \in 1 .. Len(link[pair]) /\ m.kind = "access"
  BY NextMessage DEF Execute
<1>2. /\ direction[c][q.var] = "HERE" /\ UNCHANGED <<direction, agentVars, histVars>>
      /\ link' = IF q.type = "request" THEN Passed(x, c, y, new) ELSE Taken(x, c)
  BY <1>1 DEF Execute
<1>3. SameFlights(link, link')
  BY ExecuteLinks
<1>4. PortToAlp(c, AlpOf[q.agent]) \in PortsOf(c) /\ q \in Accesses
  BY ExecuteLinks
<1>5. r \in Neighbours
  BY <1>1, <1>4, PortRank
<1>6. link \in [Neighbours -> Seq(Messages)]
  BY DEF IInv, GoodLinks, TypedLinks
<1>7. CASE q.type = "request"
  <2>1. new \in Messages
    BY <1>4, <1>7, ThingFacts DEF Accesses, Requests, Antis
  <2>2. link' = With(Without(link, pair, 1), r, new)
    BY <1>1, <1>2, <1>7 DEF Passed, Taken, With, Without
  <2> HIDE DEF r, m, new
  <2>3. Steps(link, link', {m}, {<<r, new>>})
    BY <1>1, <1>5, <1>6, <2>1, <2>2, StepsPass DEF m
  <2> QED
    BY <1>1, <1>2, <1>3, <1>5, <2>3 DEF m, new
<1>8. CASE q.type # "request"
  <2>1. link' = Without(link, pair, 1)
    BY <1>1, <1>2, <1>8 DEF Taken, Without
  <2> HIDE DEF r, m, new
  <2>2. Steps(link, link', {m}, {})
    BY <1>1, <1>6, <2>1, StepsTake DEF m
  <2>3. Steps(link, link', {m}, {<<r, new>>})
    BY <2>2 DEF Steps, Succeeds
  <2> QED
    BY <1>1, <1>2, <1>3, <1>5, <2>3 DEF m, new
<1> QED
  BY <1>7, <1>8

\* AlpReceive takes a response.
LEMMA AlpReceiveSteps ==
  ASSUME IInv, NEW r \in Alps, AlpReceive(r)
  PROVE  \E m : /\ m.kind = "response" /\ Steps(link, link', {m}, {})
                /\ SameFlights(link, link') /\ UNCHANGED <<clpVars, asked, sendList, moves>>
<1>1. /\ SameFlights(link, link') /\ UNCHANGED <<clpVars, asked, sendList, moves>>
      /\ \E p \in Neighbours : /\ 1 \in 1 .. Len(link[p]) /\ link[p][1].kind = "response"
                               /\ link' = Without(link, p, 1)
  BY AlpReceiveFacts
<1>2. PICK p \in Neighbours : /\ 1 \in 1 .. Len(link[p]) /\ link[p][1].kind = "response"
                              /\ link' = Without(link, p, 1)
  BY <1>1
<1>3. Steps(link, link', {link[p][1]}, {})
  BY <1>2, StepsTake DEF IInv, GoodLinks, TypedLinks
<1> QED
  BY <1>1, <1>2, <1>3

\* Issue puts a request, and Cancel anti-messages, into the link to the parent.
LEMMA ToParentIsLink ==
  ASSUME NEW a \in Agents
  PROVE  /\ ToParent(a) \in Neighbours /\ ToParent(a)[1] = AlpOf[a] /\ AlpOf[a] \in Alps
         /\ ToParent(a)[2] = AlpToClp[AlpOf[a]] /\ ToParent(a)[2] \in Clps /\ ToParent(a)[1] \notin Clps
BY RoutingAssumption, ClpTreeAssumption DEF ToParent, Neighbours

\* What an agent that issues a request does to the links.
LEMMA IssueSteps ==
  ASSUME IInv, NEW a \in Agents, NEW q \in Requests,
         link' = With(link, ToParent(a), Carried(q, 0)), q \notin Sent
  PROVE  /\ Steps(link, link', {}, {<<ToParent(a), Carried(q, 0)>>})
         /\ SameFlights(link, link')
<1> DEFINE p == ToParent(a)
           m == Carried(q, 0)
<1>1. /\ GoodLinks(link) /\ link \in [Neighbours -> Seq(Messages)]
      /\ Conserved(ExecutedIn(store, link), link, Sent, answered)
  BY DEF IInv, GoodLinks, TypedLinks
<1>2. p \in Neighbours /\ p[2] \in Clps
  BY ToParentIsLink
<1>3. /\ m \in Messages /\ Allowed(p, m) /\ m.kind = "access" /\ m.access = q
      /\ In(link, <<"access", q>>) = {}
  BY <1>1, <1>2, ThingFacts DEF Carried, Allowed, Conserved
<1> HIDE DEF p, m
<1>4. Steps(link, With(link, p, m), {}, {<<p, m>>})
  BY <1>1, <1>2, <1>3, StepsPut
<1>5. SameFlights(link, With(link, p, m))
  BY <1>1, <1>2, <1>3, Sending
<1> QED
  BY <1>4, <1>5 DEF p, m

AntisTo(a, k) == {<<ToParent(a), Carried(x, 0)>> : x \in AntisOf(CutFrom(a, k))}

\* And one that is rolled back.
LEMMA CancelSteps ==
  ASSUME IInv, NEW a \in Agents, NEW k \in Numbers, Cancel(a, k)
  PROVE  /\ Steps(link, link', {}, AntisTo(a, k))
         /\ SameFlights(link, link')
<1> DEFINE ms == Outgoing(a, k)
<1>1. /\ link' = Extended(link, ms) /\ GoodLinks(ms)
      /\ \A p \in Neighbours : \A i \in 1 .. Len(ms[p]) :
              p = ToParent(a) /\ \E q \in CutFrom(a, k) : ms[p][i] = Carried(AntiOf(q), 0)
  BY CancelLinks
<1> HIDE DEF ms
<1>2. link \in [Neighbours -> Seq(Messages)] /\ ms \in [Neighbours -> Seq(Messages)]
  BY <1>1 DEF IInv, GoodLinks, TypedLinks
<1>3. \A p \in Neighbours : \A i \in 1 .. Len(ms[p]) : <<p, ms[p][i]>> \in AntisTo(a, k)
  BY <1>1 DEF AntisTo, AntisOf
<1>4. Steps(link, Extended(link, ms), {}, AntisTo(a, k))
  BY <1>2, <1>3, StepsExtend
<1> QED
  BY <1>1, <1>4, CancelKeeps

-----------------------------------------------------------------------------
(* Detours, step by step.                                                  *)

\* With all its steps before it, a message fits anywhere.
LEMMA FitsFresh ==
  ASSUME IInv, NEW p, p[2] \in Clps, NEW v \in Variables, NEW s \in Int, s >= LongestWay - 1
  PROVE  Fits(link, store, p, v, s)
<1>1. \A c \in Clps : Distance(p[2], c) <= s /\ -1 <= s
  BY LongestWayFacts
<1>2. \A h \in HostsIn(store, v) : h \in Clps
  BY DEF HostsIn
<1>3. \A f \in In(link, <<"variable", v>>) : f[1] \in Clps
  BY FlightPair
<1> QED
  BY <1>1, <1>2, <1>3 DEF Fits

\* If no agent asks and nothing moves, no message has fewer steps left.
LEMMA NothingAsked ==
  ASSUME IInv, UNCHANGED <<asked, moves>>, Dated(asked, moves)
  PROVE  SameSlack(link, asked, moves, asked', moves') /\ Dated(asked', moves')
BY DEF SameSlack

\* A request that is forwarded pays for its step.
LEMMA ForwardDetour ==
  ASSUME IInv, DetourInv, NEW pair \in IntoClp, Forward(pair[1], pair[2])
  PROVE  DetourInv'
<1> DEFINE m == link[pair][1]
           c == pair[2]
           v == m.access.var
           n == RankOf(c, direction[c][v])
           r == <<c, n>>
           m2 == Carried(m.access, m.hops + 1)
           s == Slack(asked, moves, m)
<1>1. /\ pair \in Neighbours /\ 1 \in 1 .. Len(link[pair]) /\ m.kind = "access" /\ c \in Clps
      /\ direction[c][v] # "HERE" /\ r \in Neighbours
      /\ Steps(link, link', {m}, {<<r, m2>>})
      /\ SameFlights(link, link') /\ UNCHANGED <<clpVars, agentVars, histVars>>
  BY ForwardSteps
<1>2. m.access \in Sent /\ s \in Int /\ m.hops \in Nat
  BY <1>1, LinkAccess
<1>3. v \in Variables
  BY <1>2, SentAccess
<1>4. /\ n \in Clps
      /\ \A h \in HostsIn(store, v) : h # c /\ n = NextClp(c, h)
      /\ \A f \in In(link, <<"variable", v>>) : n = IF c = f[1] THEN f[2] ELSE NextClp(c, f[1])
  BY <1>1, <1>3, WayOn
<1>5. m2.kind = "access" /\ m2.access = m.access /\ m2.hops = m.hops + 1
  BY DEF Carried
<1>6. Slack(asked, moves, m2) = s - 1
  <2>1. EraIn(asked, m.access) \in Nat /\ moves[v] \in Nat
    BY <1>2, SentAccess
  <2> HIDE DEF m, m2
  <2> QED
    BY <1>2, <1>5, <2>1, LongestWayFacts DEF Slack
<1>7. Close(link, store, pair, 1, v, s)
  BY <1>1 DEF DetourInv, Bounded
<1>8. Fits(link, store, r, v, s - 1)
  <2>1. ASSUME NEW h \in HostsIn(store, v) PROVE Distance(n, h) <= s - 1
    <3>1. h \in Clps /\ h # c /\ n = NextClp(c, h)
      BY <1>4, <2>1 DEF HostsIn
    <3>2. Distance(n, h) = Distance(c, h) - 1
      BY <1>1, <1>4, <3>1, NeighbourDistance
    <3>3. Distance(c, h) <= s
      BY <1>7 DEF Close
    <3>4. Distance(n, h) \in Nat /\ Distance(c, h) \in Nat
      BY <1>1, <1>4, <3>1, LongestWayFacts
    <3> HIDE DEF n, s
    <3> QED
      BY <1>2, <3>2, <3>3, <3>4
  <2>2. ASSUME NEW f \in In(link, <<"variable", v>>)
        PROVE  IF r = f THEN -1 <= s - 1 ELSE Distance(n, f[1]) <= s - 1
    <3>1. f \in Neighbours /\ f[1] \in Clps /\ f = <<f[1], f[2]>>
      BY <1>3, FlightPair
    <3>2. ~Ahead(link[pair], <<"variable", v>>, 1)
      BY DEF Ahead, Pos
    <3>3. Distance(c, f[1]) <= s /\ Distance(c, f[1]) \in Nat
      BY <1>1, <1>7, <3>1, <3>2, LongestWayFacts DEF Close
    <3>4. r # f => c # f[1] /\ n = NextClp(c, f[1])
      BY <1>4, <3>1
    <3>5. r # f => Distance(n, f[1]) = Distance(c, f[1]) - 1
      BY ZenonT(60), <1>1, <1>4, <3>1, <3>4, NeighbourDistance
    <3> HIDE DEF n, s, r
    <3> QED
      BY <1>2, <3>3, <3>5
  <2>3. r[2] = n
    OBVIOUS
  <2> HIDE DEF n, s, r
  <2> QED
    BY <2>1, <2>2, <2>3 DEF Fits
<1>9. UNCHANGED <<store, asked, moves>>
  BY <1>1 DEF clpVars, agentVars, histVars
<1>10. SameSlack(link, asked, moves, asked', moves') /\ Dated(asked', moves')
  BY <1>9, NothingAsked DEF DetourInv
<1>11. NewFit(link, store, asked', moves', {<<r, m2>>})
  <2> HIDE DEF s, r, m2, m
  <2>1. \A p, x : <<p, x>> \in {<<r, m2>>} => p = r /\ x = m2
    OBVIOUS
  <2> QED
    BY <1>5, <1>6, <1>8, <1>9, <2>1 DEF NewFit
<1>12. \A p \in Neighbours : \A x : <<p, x>> \in {<<r, m2>>} /\ x.kind = "access" => x.access.var \in Variables
  BY <1>3, <1>5
<1>13. SameHosts(store, store')
  BY <1>9 DEF SameHosts
<1>14. \A g \in {m} : g.kind # "migration"
  BY <1>1
<1> HIDE DEF s, r, m2, m
<1>15. Bounded(link', store', asked', moves')
  BY <1>1, <1>10, <1>11, <1>12, <1>13, <1>14, BoundedStays DEF DetourInv
<1> QED
  BY <1>10, <1>15 DEF DetourInv

\* Steps that take no variable and put no access anywhere.
LEMMA NothingPut ==
  ASSUME IInv, DetourInv, UNCHANGED <<asked, moves>>, SameFlights(link, link'),
         SameHosts(store, store'), NEW gone, NEW new, Steps(link, link', gone, new),
         \A g \in gone : g.kind # "migration",
         \A p \in Neighbours : \A m : <<p, m>> \in new => m.kind # "access"
  PROVE  DetourInv'
<1>1. SameSlack(link, asked, moves, asked', moves') /\ Dated(asked', moves')
  BY NothingAsked DEF DetourInv
<1>2. NewFit(link, store, asked', moves', new)
  BY DEF NewFit
<1>3. Bounded(link', store', asked', moves')
  BY <1>1, <1>2, BoundedStays DEF DetourInv
<1> QED
  BY <1>1, <1>3 DEF DetourInv

\* One that is executed, and responses, do not move requests.
LEMMA ClpDetour ==
  ASSUME IInv, DetourInv, NEW pair \in IntoClp,
         ForwardResponse(pair[1], pair[2]) \/ Execute(pair[1], pair[2])
  PROVE  DetourInv'
<1>1. CASE ForwardResponse(pair[1], pair[2])
  <2> DEFINE m == link[pair][1]
  <2>1. /\ m.kind = "response" /\ \E r \in Neighbours : Steps(link, link', {m}, {<<r, m>>})
        /\ SameFlights(link, link') /\ UNCHANGED <<clpVars, agentVars, histVars>>
    BY <1>1, ForwardResponseSteps
  <2> HIDE DEF m
  <2>2. PICK r \in Neighbours : Steps(link, link', {m}, {<<r, m>>})
    BY <2>1
  <2>3. UNCHANGED <<store, asked, moves>> /\ SameHosts(store, store')
    BY <2>1 DEF clpVars, agentVars, histVars, SameHosts
  <2>4. /\ \A g \in {m} : g.kind # "migration"
        /\ \A p \in Neighbours : \A x : <<p, x>> \in {<<r, m>>} => x.kind # "access"
    BY <2>1
  <2> QED
    BY <2>1, <2>2, <2>3, <2>4, NothingPut
<1>2. CASE Execute(pair[1], pair[2])
  <2> DEFINE m == link[pair][1]
             new == Response(m.access)
  <2>1. /\ m.kind = "access" /\ \E r \in Neighbours : Steps(link, link', {m}, {<<r, new>>})
        /\ SameFlights(link, link') /\ UNCHANGED <<direction, agentVars, histVars>>
    BY <1>2, ExecuteSteps
  <2>2. SameHosts(store, store')
    BY <1>2, ExecuteContents DEF SameHosts
  <2>3. new.kind = "response"
    BY DEF Response
  <2> HIDE DEF m, new
  <2>4. PICK r \in Neighbours : Steps(link, link', {m}, {<<r, new>>})
    BY <2>1
  <2>5. /\ \A g \in {m} : g.kind # "migration"
        /\ \A p \in Neighbours : \A x : <<p, x>> \in {<<r, new>>} => x.kind # "access"
    BY <2>1, <2>3
  <2>6. UNCHANGED <<asked, moves>>
    BY <2>1 DEF agentVars, histVars
  <2> QED
    BY <2>1, <2>2, <2>4, <2>5, <2>6, NothingPut
<1> QED
  BY <1>1, <1>2

\* Nor does an ALP that takes a response.
LEMMA AlpReceiveDetour ==
  ASSUME IInv, DetourInv, NEW r \in Alps, AlpReceive(r)
  PROVE  DetourInv'
<1>1. PICK m : /\ m.kind = "response" /\ Steps(link, link', {m}, {})
               /\ SameFlights(link, link') /\ UNCHANGED <<clpVars, asked, sendList, moves>>
  BY AlpReceiveSteps
<1>2. UNCHANGED <<asked, moves>> /\ SameHosts(store, store')
  BY <1>1 DEF clpVars, SameHosts
<1>3. \A g \in {m} : g.kind # "migration"
  BY <1>1
<1> QED
  BY <1>1, <1>2, <1>3, NothingPut

\* A request more, dated now, changes the date of no other.
LEMMA AskedMore ==
  ASSUME IInv, Dated(asked, moves), NEW a \in Agents, NEW v \in Variables,
         asked' = [asked EXCEPT ![a] = Append(@, [var |-> v, era |-> moves[v]])]
  PROVE  /\ Dated(asked', moves)
         /\ \A x \in Sent : EraIn(asked', x) = EraIn(asked, x)
         /\ asked'[a][Len(asked[a]) + 1].era = moves[v]
<1> DEFINE entry == [var |-> v, era |-> moves[v]]
           s == Append(asked[a], entry)
<1>1. /\ asked \in [Agents -> Seq([var : Variables, era : Nat])]
      /\ moves \in [Variables -> Nat]
  BY DEF IInv, TypedAgents, TypedClps
<1>2. entry \in [var : Variables, era : Nat] /\ entry.era = moves[v] /\ entry.var = v
  BY <1>1
<1>3. asked[a] \in Seq([var : Variables, era : Nat])
  BY <1>1
<1> HIDE DEF entry
<1>4. /\ s \in Seq([var : Variables, era : Nat]) /\ Len(s) = Len(asked[a]) + 1 /\ Len(asked[a]) \in Nat
      /\ \A k \in 1 .. Len(asked[a]) : s[k] = asked[a][k]
      /\ s[Len(asked[a]) + 1] = entry
  BY <1>2, <1>3, AppendProperties, LenProperties
<1>5. asked'[a] = s /\ \A b \in Agents : b # a => asked'[b] = asked[b]
  BY <1>1 DEF entry
<1> HIDE DEF s
<1>6. DOMAIN s = 1 .. Len(asked[a]) + 1 /\ DOMAIN asked[a] = 1 .. Len(asked[a])
  BY <1>3, <1>4, LenProperties
<1>7. ASSUME NEW b \in Agents, NEW n \in DOMAIN asked'[b]
      PROVE  asked'[b][n].era <= moves[asked'[b][n].var]
  <2>1. CASE b = a /\ n = Len(asked[a]) + 1
    <3>1. moves[v] \in Nat
      BY <1>1
    <3> QED
      BY <1>2, <1>4, <1>5, <2>1, <3>1
  <2>2. CASE ~(b = a /\ n = Len(asked[a]) + 1)
    <3>1. n \in DOMAIN asked[b] /\ asked'[b][n] = asked[b][n]
      <4>1. CASE b = a
        <5>1. n \in 1 .. Len(asked[a])
          BY <1>4, <1>5, <1>6, <1>7, <2>2, <4>1
        <5> QED
          BY <1>4, <1>5, <1>6, <4>1, <5>1
      <4>2. CASE b # a
        <5>1. asked'[b] = asked[b]
          BY <1>5, <4>2
        <5> QED
          BY <1>7, <5>1
      <4> QED
        BY <4>1, <4>2
    <3> QED
      BY <3>1 DEF Dated
  <2> QED
    BY <2>1, <2>2
<1>8. ASSUME NEW x \in Sent PROVE EraIn(asked', x) = EraIn(asked, x)
  <2>1. x.agent \in Agents /\ x.n \in DOMAIN asked[x.agent]
    BY SentAccess
  <2>2. asked'[x.agent][x.n] = asked[x.agent][x.n]
    BY <1>4, <1>5, <1>6, <2>1
  <2> QED
    BY <2>2 DEF EraIn
<1> QED
  BY <1>2, <1>4, <1>5, <1>7, <1>8 DEF Dated

\* A new request has all its steps before it.
LEMMA IssueDetour ==
  ASSUME IInv, DetourInv, NEW a \in Agents, NEW v \in Variables, Issue(a, v)
  PROVE  DetourInv'
<1>1. PICK q \in Requests :
        /\ q = Access("request", a, Len(asked[a]) + 1, v)
        /\ asked' = [asked EXCEPT ![a] = Append(@, [var |-> v, era |-> moves[v]])]
        /\ q \notin Sent
        /\ link' = With(link, ToParent(a), Carried(q, 0))
        /\ UNCHANGED <<clpVars, histVars>>
  BY IssueFacts
<1> DEFINE p == ToParent(a)
           m == Carried(q, 0)
<1>2. Steps(link, link', {}, {<<p, m>>}) /\ SameFlights(link, link')
  BY <1>1, IssueSteps
<1>3. /\ Dated(asked', moves)
      /\ \A x \in Sent : EraIn(asked', x) = EraIn(asked, x)
      /\ asked'[a][Len(asked[a]) + 1].era = moves[v]
  BY <1>1, AskedMore DEF DetourInv
<1>4. UNCHANGED <<store, moves>> /\ SameHosts(store, store')
  BY <1>1 DEF clpVars, histVars, SameHosts
<1>5. SameSlack(link, asked, moves, asked', moves')
  <2> SUFFICES ASSUME NEW r \in Neighbours, NEW k \in 1 .. Len(link[r]), link[r][k].kind = "access"
               PROVE  Slack(asked', moves', link[r][k]) = Slack(asked, moves, link[r][k])
    BY DEF SameSlack
  <2>1. link[r][k].access \in Sent
    BY LinkAccess
  <2> QED
    BY <1>3, <1>4, <2>1 DEF Slack
<1>6. m.kind = "access" /\ m.access = q /\ m.hops = 0 /\ q.agent = a /\ q.n = Len(asked[a]) + 1 /\ q.var = v
  BY <1>1 DEF Carried, Access
<1>7. Slack(asked', moves', m) = LongestWay - 1
  <2>1. moves[v] \in Nat /\ EraIn(asked', q) = moves[v]
    BY <1>3, <1>6 DEF IInv, TypedClps, EraIn
  <2> HIDE DEF m
  <2> QED
    BY <1>4, <1>6, <2>1, LongestWayFacts DEF Slack
<1>8. p[2] \in Clps
  BY ToParentIsLink
<1>9. Fits(link, store, p, v, LongestWay - 1)
  BY <1>8, FitsFresh, LongestWayFacts
<1> HIDE DEF p, m
<1>10. NewFit(link, store, asked', moves', {<<p, m>>})
  BY <1>6, <1>7, <1>9 DEF NewFit
<1>11. \A r \in Neighbours : \A x : <<r, x>> \in {<<p, m>>} /\ x.kind = "access" => x.access.var \in Variables
  BY <1>6
<1>12. Bounded(link', store', asked', moves')
  BY <1>2, <1>4, <1>5, <1>10, <1>11, BoundedStays DEF DetourInv
<1> QED
  BY <1>3, <1>4, <1>12 DEF DetourInv

\* Anti-messages make no detours.
LEMMA CancelDetour ==
  ASSUME IInv, DetourInv, NEW a \in Agents, NEW k \in Numbers, Cancel(a, k)
  PROVE  DetourInv'
<1>1. Steps(link, link', {}, AntisTo(a, k)) /\ SameFlights(link, link')
  BY CancelSteps
<1>2. UNCHANGED <<clpVars, asked, histVars>>
  BY DEF Cancel
<1>3. UNCHANGED <<store, asked, moves>> /\ SameHosts(store, store')
  BY <1>2 DEF clpVars, histVars, SameHosts
<1>4. SameSlack(link, asked, moves, asked', moves') /\ Dated(asked', moves')
  BY <1>3, NothingAsked DEF DetourInv
<1>5. ASSUME NEW p \in Neighbours, NEW m, <<p, m>> \in AntisTo(a, k)
      PROVE  /\ m.access.var \in Variables
             /\ Fits(link, store, p, m.access.var, Slack(asked, moves, m))
  <2>1. PICK q \in CutFrom(a, k) : p = ToParent(a) /\ m = Carried(AntiOf(q), 0)
    BY <1>5 DEF AntisTo, AntisOf
  <2>2. q \in Sent
    <3>1. k \in 1 .. Len(sendList[a])
      BY CancelSends
    <3>2. q \in SentBy(asked)
      BY <2>1, <3>1, CutFacts
    <3> QED
      BY <3>2, SentIs DEF SentIn
  <2>3. /\ q.agent \in Agents /\ q.n \in DOMAIN asked[q.agent] /\ asked[q.agent][q.n].var = q.var
        /\ q.var \in Variables /\ EraIn(asked, q) \in Nat /\ moves[q.var] \in Nat
    BY <2>2, SentAccess
  <2>4. EraIn(asked, q) <= moves[q.var]
    BY <2>3 DEF DetourInv, Dated, EraIn
  <2>5. m.access.var = q.var /\ EraIn(asked, m.access) = EraIn(asked, q) /\ m.hops = 0
    <3>1. m.access = AntiOf(q) /\ m.hops = 0
      BY <2>1 DEF Carried
    <3>2. q \in Requests
      <4>1. k \in 1 .. Len(sendList[a])
        BY CancelSends
      <4> QED
        BY <2>1, <4>1, CutFacts
    <3>3. AntiOf(q).var = q.var /\ AntiOf(q).agent = q.agent /\ AntiOf(q).n = q.n
      BY <3>2 DEF Requests, AntiOf
    <3> QED
      BY <3>1, <3>3 DEF EraIn
  <2>6. Slack(asked, moves, m) \in Int /\ Slack(asked, moves, m) >= LongestWay - 1
    BY <2>3, <2>4, <2>5, LongestWayFacts DEF Slack
  <2>7. p[2] \in Clps
    BY <2>1, ToParentIsLink
  <2> QED
    BY <2>3, <2>5, <2>6, <2>7, FitsFresh
<1>6. NewFit(link, store, asked', moves', AntisTo(a, k))
  BY <1>3, <1>5 DEF NewFit
<1>7. Bounded(link', store', asked', moves')
  BY <1>1, <1>3, <1>4, <1>5, <1>6, BoundedStays DEF DetourInv
<1> QED
  BY <1>4, <1>7 DEF DetourInv

\* Migrate: a variable leaves from its host, so that nobody is further away.
LEMMA MigrateSteps ==
  ASSUME IInv, NEW c \in Clps, Migrate(c)
  PROVE  \E new : /\ Steps(link, link', {}, new)
                  /\ \A p \in Neighbours : \A m : <<p, m>> \in new => m.kind # "access"
<1> DEFINE ms == Movers(c)
           new == UNION {{<<p, ms[p][j]>> : j \in 1 .. Len(ms[p])} : p \in Neighbours}
<1>1. link' = Extended(link, ms)
  BY MigrateFacts
<1>2. GoodLinks(ms) /\ \A m : In(ms, <<"access", m>>) = {}
  BY MoverFacts
<1> HIDE DEF ms
<1>3. link \in [Neighbours -> Seq(Messages)] /\ ms \in [Neighbours -> Seq(Messages)]
  BY <1>2 DEF IInv, GoodLinks, TypedLinks
<1>4. \A p \in Neighbours : \A j \in 1 .. Len(ms[p]) : <<p, ms[p][j]>> \in new
  OBVIOUS
<1>5. \A p \in Neighbours : \A m : <<p, m>> \in new => \E j \in 1 .. Len(ms[p]) : m = ms[p][j]
  OBVIOUS
<1> HIDE DEF new
<1>6. Steps(link, link', {}, new)
  BY <1>1, <1>3, <1>4, StepsExtend
<1>7. ASSUME NEW p \in Neighbours, NEW m, <<p, m>> \in new PROVE m.kind # "access"
  <2>1. PICK j \in 1 .. Len(ms[p]) : m = ms[p][j]
    BY <1>5, <1>7
  <2>2. m.kind = "access" => Carries(ms[p][j], <<"access", m.access>>)
    BY <2>1, CarriesFacts
  <2>3. m.kind = "access" => j \in Pos(ms[p], <<"access", m.access>>)
    BY <2>2 DEF Pos
  <2>4. m.kind = "access" => p \in In(ms, <<"access", m.access>>)
    BY <2>3 DEF In
  <2> QED
    BY <1>2, <2>4
<1> QED
  BY <1>6, <1>7

\* A migration that is sent moves no variable to its new host yet.
LEMMA MigrateDetour ==
  ASSUME IInv, DetourInv, NEW c \in Clps, Migrate(c), UNCHANGED <<agentVars, histVars>>
  PROVE  DetourInv'
<1>1. PICK new : /\ Steps(link, link', {}, new)
                 /\ \A p \in Neighbours : \A m : <<p, m>> \in new => m.kind # "access"
  BY MigrateSteps
<1>2. /\ \A v : v \notin AllLeaving(c) =>
           /\ HostsIn(store', v) = HostsIn(store, v)
           /\ In(link', <<"variable", v>>) = In(link, <<"variable", v>>)
      /\ \A v \in AllLeaving(c) :
           /\ HostsIn(store, v) = {c} /\ HostsIn(store', v) = {}
           /\ In(link', <<"variable", v>>) = {<<c, RankOf(c, PortFrom(c, v))>>}
  BY MigrateMoves
<1>3. UNCHANGED <<asked, moves>>
  BY DEF agentVars, histVars
<1>4. Dated(asked', moves')
  BY <1>3 DEF DetourInv
<1>5. SUFFICES ASSUME NEW p \in Neighbours, NEW k \in 1 .. Len(link'[p]), link'[p][k].kind = "access"
               PROVE  Close(link', store', p, k, link'[p][k].access.var, Slack(asked, moves, link'[p][k]))
  BY <1>3, <1>4 DEF DetourInv, Bounded
<1>6. PICK l \in 1 .. Len(link[p]) :
        /\ link'[p][k] = link[p][l]
        /\ \A t : Ahead(link[p], t, l) => Ahead(link'[p], t, k)
  BY <1>1, <1>5 DEF Steps, Succeeds, Gone
<1> DEFINE m == link[p][l]
           v == m.access.var
           s == Slack(asked, moves, m)
<1>7. m.access \in Sent /\ p[2] \in Clps /\ s \in Int /\ Close(link, store, p, l, v, s)
  BY <1>5, <1>6, LinkAccess DEF DetourInv, Bounded
<1>8. v \in Variables
  BY <1>7, SentAccess
<1> HIDE DEF m, v, s
<1>9. CASE v \notin AllLeaving(c)
  <2>1. Close(link', store', p, k, v, s)
    BY <1>2, <1>6, <1>7, <1>8, <1>9, CloseKept
  <2> QED
    BY <1>6, <2>1 DEF m, v, s
<1>10. CASE v \in AllLeaving(c)
  <2>1. Distance(p[2], c) <= s /\ Distance(p[2], c) \in Nat
    BY <1>2, <1>7, <1>10, LongestWayFacts DEF Close
  <2>2. -1 <= s
    BY <1>7, <2>1
  <2>3. \A f \in In(link', <<"variable", v>>) : f[1] = c
    BY <1>2, <1>10
  <2>4. Close(link', store', p, k, v, s)
    BY <1>2, <1>10, <2>1, <2>2, <2>3 DEF Close
  <2> QED
    BY <1>6, <2>4 DEF m, v, s
<1> QED
  BY <1>9, <1>10

\* A new GVT does so at most.
LEMMA SetGvtDetour ==
  ASSUME IInv, DetourInv, NEW c \in Clps, SetGvt(c)
  PROVE  DetourInv'
<1>1. /\ UNCHANGED <<agentVars, histVars>>
      /\ Migrate(c) \/ UNCHANGED <<direction, store, accesses, hops, link>>
  BY DEF SetGvt
<1>2. CASE UNCHANGED <<direction, store, accesses, hops, link>>
  <2>1. UNCHANGED <<store, link, asked, moves>>
    BY <1>1, <1>2 DEF agentVars, histVars
  <2> QED
    BY <2>1 DEF DetourInv
<1> QED
  BY <1>1, <1>2, MigrateDetour

\* Receive: who is behind the migration is where the variable is now; everyone
\* else is a step further away at most, and has two steps more.
LEMMA ReceiveSteps ==
  ASSUME IInv, NEW pair \in IntoClp, Receive(pair[1], pair[2])
  PROVE  LET m == link[pair][FirstMigration(pair)]
         IN Steps(link, link', {m}, {}) /\ m.kind = "migration" /\ m.variables = Arriving(pair)
<1> DEFINE i == FirstMigration(pair)
<1>1. /\ pair \in Neighbours /\ i \in 1 .. Len(link[pair])
      /\ link[pair][i].kind = "migration" /\ link' = Without(link, pair, i)
  BY ReceiveFacts
<1>2. link \in [Neighbours -> Seq(Messages)]
  BY DEF IInv, GoodLinks, TypedLinks
<1> HIDE DEF i
<1>3. Steps(link, Without(link, pair, i), {link[pair][i]}, {})
  BY <1>1, <1>2, StepsTake
<1> QED
  BY <1>1, <1>3 DEF i, Arriving

\* A variable that arrives allows each request the way to its new host.
LEMMA ReceiveDetour ==
  ASSUME IInv, DetourInv, NEW pair \in IntoClp, Receive(pair[1], pair[2])
  PROVE  DetourInv'
<1> DEFINE A == DOMAIN Arriving(pair)
           g == link[pair][FirstMigration(pair)]
           x == pair[1]
           c == pair[2]
<1>1. Steps(link, link', {g}, {}) /\ g.kind = "migration" /\ g.variables = Arriving(pair)
  BY ReceiveSteps
<1>2. /\ pair \in Neighbours /\ pair = <<x, c>> /\ x \in Clps /\ c \in Clps
      /\ \A v \in Variables : moves'[v] = IF v \in A THEN moves[v] + 1 ELSE moves[v]
      /\ UNCHANGED <<accesses, hops, load, agentVars, answered>>
  BY ReceiveFacts
<1>3. /\ \A v \in Variables : v \notin A =>
           /\ HostsIn(store', v) = HostsIn(store, v)
           /\ In(link', <<"variable", v>>) = In(link, <<"variable", v>>)
      /\ \A v \in A :
           /\ In(link, <<"variable", v>>) = {pair} /\ HostsIn(store', v) = {c}
           /\ In(link', <<"variable", v>>) = {}
  BY ReceiveMoves
<1>4. asked' = asked
  BY <1>2 DEF agentVars
<1> HIDE DEF g, A, x, c
<1>5. \A v : Gone({g}, <<"variable", v>>) <=> v \in A
  BY <1>1, CarriesFacts DEF Gone, A
<1>6. Dated(asked', moves')
  <2> SUFFICES ASSUME NEW a \in Agents, NEW n \in DOMAIN asked[a]
               PROVE  asked[a][n].era <= moves'[asked[a][n].var]
    BY <1>4 DEF Dated
  <2>1. asked[a] \in Seq([var : Variables, era : Nat]) /\ moves \in [Variables -> Nat]
    BY DEF IInv, TypedAgents, TypedClps
  <2>2. asked[a][n] \in [var : Variables, era : Nat]
    BY <2>1, LenProperties, ElementOfSeq
  <2>3. asked[a][n].era <= moves[asked[a][n].var]
    BY DEF DetourInv, Dated
  <2>4. asked[a][n].era \in Nat /\ asked[a][n].var \in Variables /\ moves[asked[a][n].var] \in Nat
    BY <2>1, <2>2
  <2> QED
    BY <1>2, <2>3, <2>4
<1>7. SUFFICES ASSUME NEW p \in Neighbours, NEW k \in 1 .. Len(link'[p]), link'[p][k].kind = "access"
               PROVE  Close(link', store', p, k, link'[p][k].access.var, Slack(asked, moves', link'[p][k]))
  BY <1>4, <1>6 DEF DetourInv, Bounded
<1>8. PICK l \in 1 .. Len(link[p]) :
        /\ link'[p][k] = link[p][l]
        /\ \A t : Ahead(link[p], t, l) /\ ~Gone({g}, t) => Ahead(link'[p], t, k)
  BY <1>1, <1>7 DEF Steps, Succeeds
<1> DEFINE m == link[p][l]
           v == m.access.var
           s == Slack(asked, moves, m)
<1>9. /\ m.access \in Sent /\ p[2] \in Clps /\ s \in Int /\ m.hops \in Nat
      /\ Close(link, store, p, l, v, s)
  BY <1>7, <1>8, LinkAccess DEF DetourInv, Bounded
<1>10. v \in Variables /\ EraIn(asked, m.access) \in Nat /\ moves[v] \in Nat
  BY <1>9, SentAccess
<1>11. Slack(asked, moves', m) = IF v \in A THEN s + 2 ELSE s
  <2>1. moves'[v] = IF v \in A THEN moves[v] + 1 ELSE moves[v]
    BY <1>2, <1>10
  <2> DEFINE e == EraIn(asked, m.access)
             h == m.hops
  <2>2. s = LongestWay - 1 + 2 * (moves[v] - e) - h
    BY DEF Slack
  <2>3. Slack(asked, moves', m) = LongestWay - 1 + 2 * (moves'[v] - e) - h
    BY DEF Slack
  <2>4. e \in Nat /\ h \in Nat /\ moves[v] \in Nat /\ LongestWay \in Int /\ s \in Int
    BY <1>9, <1>10, LongestWayFacts
  <2> HIDE DEF m, v, s, e, h
  <2> QED
    BY SMTT(30), <2>1, <2>2, <2>3, <2>4
<1> HIDE DEF m, v, s
<1>12. CASE v \notin A
  <2>1. Close(link', store', p, k, v, s)
    BY <1>3, <1>5, <1>8, <1>9, <1>10, <1>12, CloseKept
  <2> QED
    BY <1>8, <1>11, <1>12, <2>1 DEF m, v
<1>13. CASE v \in A
  <2>1. IF p = pair /\ Ahead(link[p], <<"variable", v>>, l) THEN -1 <= s ELSE Distance(p[2], x) <= s
    BY <1>3, <1>9, <1>13 DEF Close, x
  <2>2. Distance(p[2], c) <= s + 2
    <3>1. CASE p = pair /\ Ahead(link[p], <<"variable", v>>, l)
      <4>1. Distance(p[2], c) = 0
        BY <1>2, <1>9, <3>1, ApartIsFinite DEF c
      <4> QED
        BY <1>9, <2>1, <3>1, <4>1
    <3>2. CASE ~(p = pair /\ Ahead(link[p], <<"variable", v>>, l))
      <4>1. Distance(c, p[2]) = Distance(x, p[2]) + 1 \/ Distance(c, p[2]) = Distance(x, p[2]) - 1
        BY <1>2, <1>9, NeighbourDistance
      <4>2. /\ Distance(c, p[2]) = Distance(p[2], c) /\ Distance(x, p[2]) = Distance(p[2], x)
            /\ Distance(c, p[2]) \in Nat /\ Distance(x, p[2]) \in Nat
        BY <1>2, <1>9, ApartIsFinite
      <4> QED
        BY <1>9, <2>1, <3>2, <4>1, <4>2
    <3> QED
      BY <3>1, <3>2
  <2>3. Close(link', store', p, k, v, s + 2)
    BY <1>3, <1>13, <2>2 DEF Close
  <2> QED
    BY <1>8, <1>11, <1>13, <2>3 DEF m, v
<1> QED
  BY <1>12, <1>13

\* At first no message is on its way.
LEMMA InitDetour == Init => DetourInv
<1> SUFFICES ASSUME Init PROVE DetourInv
  OBVIOUS
<1>1. \A p \in Neighbours : link[p] = <<>>
  BY DEF Init
<1>2. Bounded(link, store, asked, moves)
  BY <1>1 DEF Bounded
<1>3. \A a \in Agents : DOMAIN asked[a] = {}
  BY DEF Init
<1> QED
  BY <1>2, <1>3 DEF DetourInv, Dated

\* Every step leaves the detours bounded.
LEMMA NextDetour == IInv /\ DetourInv /\ [Next]_vars => DetourInv'
<1> SUFFICES ASSUME IInv, DetourInv, [Next]_vars PROVE DetourInv'
  OBVIOUS
<1>1. ASSUME NEW a \in Agents, NEW v \in Variables, Issue(a, v) PROVE DetourInv'
  BY <1>1, IssueDetour
<1>2. ASSUME NEW a \in Agents, NEW k \in Numbers, Cancel(a, k) PROVE DetourInv'
  BY <1>2, CancelDetour
<1>3. ASSUME NEW r \in Alps, AlpReceive(r) PROVE DetourInv'
  BY <1>3, AlpReceiveDetour
<1>4. ASSUME NEW pair \in IntoClp, ClpReceive(pair[1], pair[2]) PROVE DetourInv'
  BY <1>4, ForwardDetour, ClpDetour, ReceiveDetour DEF ClpReceive
<1>5. ASSUME NEW c \in Clps, SetGvt(c) PROVE DetourInv'
  BY <1>5, SetGvtDetour
<1>6. ASSUME UNCHANGED vars PROVE DetourInv'
  <2>1. UNCHANGED <<store, link, asked, moves>>
    BY <1>6 DEF vars, clpVars, agentVars, histVars
  <2> QED
    BY <2>1 DEF DetourInv
<1> QED
  BY <1>1, <1>2, <1>3, <1>4, <1>5, <1>6 DEF Next

\* A message makes no more steps than from one end of the tree to the other, and
\* two for each move of its variable since it was issued: in front of the
\* variable a CLP sends it the right way, and behind the migration it arrives
\* after it.
THEOREM DetoursAreBoundedHolds == Spec => []DetoursAreBounded
<1>1. IInv /\ DetourInv => DetoursAreBounded
  <2> SUFFICES ASSUME IInv, DetourInv, NEW p \in Neighbours, NEW m \in ToSet(link[p]), m.kind = "access"
               PROVE  m.hops <= LongestWay + 2 * (moves[m.access.var] - Era(m.access))
    BY DEF DetoursAreBounded
  <2>1. link[p] \in Seq(Messages)
    BY DEF IInv, GoodLinks, TypedLinks
  <2>2. PICK k \in 1 .. Len(link[p]) : m = link[p][k]
    BY <2>1, LenProperties DEF ToSet
  <2> DEFINE v == m.access.var
             s == Slack(asked, moves, m)
  <2>3. /\ m.access \in Sent /\ p[2] \in Clps /\ s \in Int /\ m.hops \in Nat
        /\ Close(link, store, p, k, v, s)
    BY <2>2, LinkAccess DEF DetourInv, Bounded
  <2>4. v \in Variables /\ EraIn(asked, m.access) \in Nat /\ moves[v] \in Nat
    BY <2>3, SentAccess
  <2>5. Era(m.access) = EraIn(asked, m.access)
    BY DEF Era, EraIn
  <2> HIDE DEF s
  <2>6. s >= -1
    <3>1. CASE HostsIn(store, v) # {}
      <4>1. PICK h \in HostsIn(store, v) : TRUE
        BY <3>1
      <4>2. h \in Clps
        BY DEF HostsIn
      <4>3. Distance(p[2], h) \in Nat /\ Distance(p[2], h) <= s
        BY <2>3, <4>1, <4>2, LongestWayFacts DEF Close
      <4> QED
        BY <2>3, <4>3
    <3>2. CASE In(link, <<"variable", v>>) # {}
      <4>1. PICK f \in In(link, <<"variable", v>>) : TRUE
        BY <3>2
      <4>2. f[1] \in Clps
        BY <2>4, FlightPair
      <4>3. -1 <= s \/ Distance(p[2], f[1]) <= s
        BY <2>3, <4>1 DEF Close
      <4>4. Distance(p[2], f[1]) \in Nat
        BY <2>3, <4>2, LongestWayFacts
      <4> QED
        BY <2>3, <4>3, <4>4
    <3> QED
      BY <2>4, <3>1, <3>2 DEF IInv, Placed
  <2>7. s = LongestWay - 1 + 2 * (moves[v] - EraIn(asked, m.access)) - m.hops
    BY DEF Slack, s
  <2> QED
    BY <2>3, <2>4, <2>5, <2>6, <2>7, LongestWayFacts
<1>2. Init => DetourInv
  BY InitDetour
<1>3. IInv /\ DetourInv /\ [Next]_vars => DetourInv'
  BY NextDetour
<1> QED
  BY <1>1, <1>2, <1>3, Invariance, PTL DEF Spec

-----------------------------------------------------------------------------
(* Who is overtaken.                                                       *)
(*                                                                         *)
(* While its variable stays where it was when a request was issued, the    *)
(* request and its anti-message go the same way, and the anti-message is   *)
(* behind.                                                                 *)

\* Access x has been sent since its variable arrived at h, where it still is.
Fresh(st, ask, mv, x, h) == h \in HostsIn(st, x.var) /\ EraIn(ask, x) = mv[x.var]

\* Link p is on the way from agent a to CLP h.
OnPath(a, p, h) ==
  LET alp == AlpOf[a]
  IN /\ Distance(AlpToClp[alp], p[2]) + Distance(p[2], h) = Distance(AlpToClp[alp], h)
     /\ p[1] = IF p[2] = AlpToClp[alp] THEN alp ELSE NextClp(p[2], AlpToClp[alp])

\* From link p the way to h is through link r.
Through(p, r, h) ==
  r[2] # p[2] /\ Distance(p[2], r[2]) + Distance(r[2], h) = Distance(p[2], h)

OnTheirWay(lk, st, ask, mv) ==
  \A x \in Accesses : \A h \in Clps : \A p \in In(lk, <<"access", x>>) :
    Fresh(st, ask, mv, x, h) => OnPath(x.agent, p, h)

\* q is executed, or nearer to its variable at h than the k-th message of link p.
Before(lk, done, q, p, k, h) ==
  \/ q \in done
  \/ \E r \in In(lk, <<"access", q>>) :
       IF r = p THEN Ahead(lk[p], <<"access", q>>, k) ELSE Through(p, r, h)

AntisBehind(lk, st, ask, mv, done) ==
  \A q \in Requests : \A h \in Clps : \A p \in Neighbours :
    \A k \in Pos(lk[p], <<"access", AntiOf(q)>>) :
      Fresh(st, ask, mv, q, h) => Before(lk, done, q, p, k, h)

\* What was done to v: an anti-message after its request, or v has moved.
InOrder(v, s, ask, mv) ==
  \A j \in 1 .. Len(s) :
    /\ s[j].var = v
    /\ s[j].type = "anti" =>
         \/ \E i \in 1 .. Len(s) : i < j /\ s[i] = [s[j] EXCEPT !.type = "request"]
         \/ mv[v] > EraIn(ask, s[j])

AllInOrder(st, lk, ask, mv) == \A v \in Variables : InOrder(v, ContentsOf(st, lk, v), ask, mv)

OrderInv ==
  /\ OnTheirWay(link, store, asked, moves)
  /\ AntisBehind(link, store, asked, moves, ExecutedIn(store, link))
  /\ AllInOrder(store, link, asked, moves)

\* Nothing that has been sent becomes fresh.
NoFresher(st2, ask2, mv2) ==
  \A x \in Sent : \A h \in Clps : Fresh(st2, ask2, mv2, x, h) => Fresh(store, asked, moves, x, h)

\* What is new in a link is on its way.
NewOnTheirWay(st2, ask2, mv2, new) ==
  \A p \in Neighbours : \A m : \A h \in Clps :
    <<p, m>> \in new /\ m.kind = "access" /\ Fresh(st2, ask2, mv2, m.access, h)
      => OnPath(m.access.agent, p, h)

\* A request that is taken from a link is executed, or goes on.
GoesOn(lk2, st2, ask2, mv2, done2, gone) ==
  \A q \in Requests : \A h \in Clps :
    Gone(gone, <<"access", q>>) /\ Fresh(st2, ask2, mv2, q, h)
      => \/ q \in done2
         \/ \E r \in In(lk2, <<"access", q>>) :
              r[2] \in Clps /\ \A s \in In(link, <<"access", q>>) : Through(s, r, h)

\* An anti-message that is put into a link is behind its request.
NewBehind(lk2, st2, ask2, mv2, done2, gone, new) ==
  \A p \in Neighbours : \A m : \A q \in Requests : \A h \in Clps :
    <<p, m>> \in new /\ m.kind = "access" /\ m.access = AntiOf(q) /\ Fresh(st2, ask2, mv2, q, h)
      => \/ q \in done2
         \/ p \in In(link, <<"access", q>>) /\ ~Gone(gone, <<"access", q>>)
         \/ \E r \in In(lk2, <<"access", q>>) : Through(p, r, h)

\* A request and its anti-message are of the same agent, number and variable.
LEMMA AntiIsFresh ==
  ASSUME NEW q \in Requests, NEW st, NEW ask, NEW mv, NEW h
  PROVE  /\ AntiOf(q).agent = q.agent /\ AntiOf(q).n = q.n /\ AntiOf(q).var = q.var
         /\ AntiOf(q) \in Accesses /\ q \in Accesses /\ AntiOf(q) # q
         /\ Fresh(st, ask, mv, AntiOf(q), h) <=> Fresh(st, ask, mv, q, h)
         /\ q.type = "request" /\ AntiOf(q).type = "anti"
         /\ [AntiOf(q) EXCEPT !.type = "request"] = q
<1>1. /\ AntiOf(q).agent = q.agent /\ AntiOf(q).n = q.n /\ AntiOf(q).var = q.var
      /\ q.type = "request" /\ AntiOf(q).type = "anti"
  BY DEF Requests, AntiOf
<1>2. [AntiOf(q) EXCEPT !.type = "request"] = q
  BY DEF Requests, AntiOf
<1>3. AntiOf(q) \in Accesses /\ q \in Accesses /\ AntiOf(q) # q
  BY <1>1, AntiFacts
<1>4. Fresh(st, ask, mv, AntiOf(q), h) <=> Fresh(st, ask, mv, q, h)
  BY <1>1 DEF Fresh, EraIn
<1> QED
  BY <1>1, <1>2, <1>3, <1>4

\* A way through r and, from there, through s.
LEMMA ThroughTwice ==
  ASSUME NEW p, NEW r, NEW s, NEW h \in Clps, p[2] \in Clps, r[2] \in Clps, s[2] \in Clps,
         p = r \/ Through(p, r, h), Through(r, s, h)
  PROVE  Through(p, s, h)
<1>1. CASE p = r
  BY <1>1
<1>2. CASE Through(p, r, h)
  <2> DEFINE a == Distance(p[2], r[2])
             b == Distance(r[2], s[2])
             c == Distance(s[2], h)
             d == Distance(r[2], h)
             e == Distance(p[2], h)
             f == Distance(p[2], s[2])
  <2>1. /\ a \in Nat /\ b \in Nat /\ c \in Nat /\ d \in Nat /\ e \in Nat /\ f \in Nat
        /\ a # 0 /\ b # 0 /\ (p[2] = s[2] => e = c)
    BY <1>2, ApartIsFinite DEF Through
  <2>2. a + d = e /\ b + c = d
    BY <1>2 DEF Through
  <2>3. f <= a + b /\ e <= f + c
    BY Triangle
  <2>4. f + c = e /\ p[2] # s[2]
    <3> HIDE DEF a, b, c, d, e, f
    <3> QED
      BY <2>1, <2>2, <2>3
  <2> QED
    BY <2>4 DEF Through
<1> QED
  BY <1>1, <1>2

\* What is fresh stays on its way.
LEMMA PathStays ==
  ASSUME IInv, NEW lk2, NEW st2, NEW ask2, NEW mv2, NEW gone, NEW new,
         Steps(link, lk2, gone, new), NoFresher(st2, ask2, mv2),
         NewOnTheirWay(st2, ask2, mv2, new),
         OnTheirWay(link, store, asked, moves)
  PROVE  OnTheirWay(lk2, st2, ask2, mv2)
<1> SUFFICES ASSUME NEW x \in Accesses, NEW h \in Clps, NEW p \in In(lk2, <<"access", x>>),
                    Fresh(st2, ask2, mv2, x, h)
             PROVE  OnPath(x.agent, p, h)
  BY DEF OnTheirWay
<1>1. p \in Neighbours
  BY DEF In
<1>2. PICK k \in 1 .. Len(lk2[p]) : lk2[p][k].kind = "access" /\ lk2[p][k].access = x
  BY CarriesFacts DEF In, Pos
<1>3. CASE \E l \in 1 .. Len(link[p]) : lk2[p][k] = link[p][l]
  <2>1. PICK l \in 1 .. Len(link[p]) : lk2[p][k] = link[p][l]
    BY <1>3
  <2>2. x \in Sent /\ In(link, <<"access", x>>) = {p}
    BY <1>1, <1>2, <2>1, LinkAccess
  <2>3. Fresh(store, asked, moves, x, h)
    BY <2>2 DEF NoFresher
  <2> QED
    BY <2>2, <2>3 DEF OnTheirWay
<1>4. CASE <<p, lk2[p][k]>> \in new
  BY <1>1, <1>2, <1>4 DEF NewOnTheirWay
<1> QED
  BY <1>1, <1>2, <1>3, <1>4 DEF Steps, Succeeds

\* What was behind its request stays behind it.
LEMMA BehindStays ==
  ASSUME IInv, NEW lk2, NEW st2, NEW ask2, NEW mv2, NEW done2, NEW gone, NEW new,
         Steps(link, lk2, gone, new), NoFresher(st2, ask2, mv2),
         ExecutedIn(store, link) \subseteq done2,
         GoesOn(lk2, st2, ask2, mv2, done2, gone),
         NewBehind(lk2, st2, ask2, mv2, done2, gone, new),
         AntisBehind(link, store, asked, moves, ExecutedIn(store, link))
  PROVE  AntisBehind(lk2, st2, ask2, mv2, done2)
<1> SUFFICES ASSUME NEW q \in Requests, NEW h \in Clps, NEW p \in Neighbours,
                    NEW k \in Pos(lk2[p], <<"access", AntiOf(q)>>),
                    Fresh(st2, ask2, mv2, q, h), q \notin done2
             PROVE  Before(lk2, done2, q, p, k, h)
  BY DEF AntisBehind, Before
<1> DEFINE t == <<"access", q>>
<1>1. k \in 1 .. Len(lk2[p]) /\ lk2[p][k].kind = "access" /\ lk2[p][k].access = AntiOf(q)
  BY CarriesFacts DEF Pos
<1>2. q \notin ExecutedIn(store, link)
  OBVIOUS
<1>3. ASSUME NEW l \in 1 .. Len(link[p]), lk2[p][k] = link[p][l],
             Ahead(link[p], t, l) /\ ~Gone(gone, t) => Ahead(lk2[p], t, k)
      PROVE  Before(lk2, done2, q, p, k, h)
  <2>1. AntiOf(q) \in Sent /\ p[2] \in Clps /\ l \in Pos(link[p], <<"access", AntiOf(q)>>)
    BY <1>1, <1>3, LinkAccess
  <2>2. Fresh(store, asked, moves, q, h)
    BY <2>1, AntiIsFresh DEF NoFresher
  <2>3. PICK r \in In(link, t) : IF r = p THEN Ahead(link[p], t, l) ELSE Through(p, r, h)
    BY <1>2, <2>1, <2>2 DEF AntisBehind, Before
  <2>4. r \in Neighbours /\ Pos(link[r], t) # {} /\ r[2] \in Clps
    <3>1. r \in Neighbours /\ Pos(link[r], t) # {}
      BY DEF In
    <3>2. PICK j \in 1 .. Len(link[r]) : link[r][j].kind = "access"
      BY <3>1, CarriesFacts DEF Pos
    <3> QED
      BY <3>1, <3>2, LinkAccess
  <2>5. CASE ~Gone(gone, t)
    <3>1. r \in In(lk2, t)
      BY <2>4, <2>5 DEF Steps, Succeeds, In
    <3>2. IF r = p THEN Ahead(lk2[p], t, k) ELSE Through(p, r, h)
      BY <1>3, <2>3, <2>5
    <3> QED
      BY <3>1, <3>2 DEF Before
  <2>6. CASE Gone(gone, t)
    <3>1. PICK s \in In(lk2, t) : s[2] \in Clps /\ Through(r, s, h)
      BY <2>6 DEF GoesOn
    <3>2. p = r \/ Through(p, r, h)
      BY <2>3
    <3>3. Through(p, s, h)
      BY <2>1, <2>4, <3>1, <3>2, ThroughTwice
    <3>4. s # p
      BY <3>3 DEF Through
    <3> QED
      BY <3>1, <3>3, <3>4 DEF Before
  <2> QED
    BY <2>5, <2>6
<1>4. ASSUME <<p, lk2[p][k]>> \in new,
             Pos(link[p], t) # {} /\ ~Gone(gone, t) => Ahead(lk2[p], t, k)
      PROVE  Before(lk2, done2, q, p, k, h)
  <2>1. \/ p \in In(link, t) /\ ~Gone(gone, t)
        \/ \E r \in In(lk2, t) : Through(p, r, h)
    BY <1>1, <1>4 DEF NewBehind
  <2>2. CASE p \in In(link, t) /\ ~Gone(gone, t)
    <3>1. Ahead(lk2[p], t, k)
      BY <1>4, <2>2 DEF In
    <3>2. p \in In(lk2, t)
      BY <3>1 DEF Ahead, In
    <3> QED
      BY <3>1, <3>2 DEF Before
  <2>3. CASE \E r \in In(lk2, t) : Through(p, r, h)
    BY <2>3 DEF Before, Through
  <2> QED
    BY <2>1, <2>2, <2>3
<1>5. Succeeds(p, link[p], lk2[p], gone, new)
  BY DEF Steps
<1>6. \/ \E l \in 1 .. Len(link[p]) :
           /\ lk2[p][k] = link[p][l]
           /\ Ahead(link[p], t, l) /\ ~Gone(gone, t) => Ahead(lk2[p], t, k)
      \/ /\ <<p, lk2[p][k]>> \in new
         /\ Pos(link[p], t) # {} /\ ~Gone(gone, t) => Ahead(lk2[p], t, k)
  <2> HIDE DEF t
  <2> QED
    BY <1>1, <1>5 DEF Succeeds
<1> QED
  BY <1>3, <1>4, <1>6

\* What was done to a variable is a list of accesses that have been sent.
LEMMA ContentsTyped ==
  ASSUME IInv, NEW v \in Variables
  PROVE  /\ ContentsOf(store, link, v) \in Seq(Accesses)
         /\ \A j \in 1 .. Len(ContentsOf(store, link, v)) :
              /\ ContentsOf(store, link, v)[j] \in Accesses
              /\ ContentsOf(store, link, v)[j] \in Sent
<1> DEFINE s == ContentsOf(store, link, v)
<1>1. /\ link \in [Neighbours -> Seq(Messages)] /\ OneAtMost(link, <<"variable", v>>)
      /\ Placed(store, link) /\ store \in [Clps -> Stores]
  BY ThingFacts DEF IInv, GoodLinks, TypedLinks, TypedClps
<1>2. Holds(store, link, v, s)
  BY <1>1, ContentsIs
<1>3. \A S \in Stores : v \in DOMAIN S => S[v] \in Seq(Accesses)
  BY DEF Stores
<1>4. ASSUME \E c \in HostsIn(store, v) : store[c][v] = s PROVE s \in Seq(Accesses)
  BY <1>1, <1>3, <1>4 DEF HostsIn
<1>5. ASSUME In(link, <<"value", v, s>>) # {} PROVE s \in Seq(Accesses)
  <2>1. PICK p \in Neighbours : Pos(link[p], <<"value", v, s>>) # {}
    BY <1>5 DEF In
  <2>2. PICK k \in 1 .. Len(link[p]) :
          link[p][k].kind = "migration" /\ v \in DOMAIN link[p][k].variables /\ link[p][k].variables[v] = s
    BY <2>1, CarriesFacts DEF Pos
  <2>3. link[p][k] \in Messages
    BY <1>1, <2>2, ElementOfSeq
  <2> QED
    BY <1>3, <2>2, <2>3, ThingFacts
<1>6. s \in Seq(Accesses)
  BY <1>2, <1>4, <1>5 DEF Holds
<1>7. ASSUME NEW j \in 1 .. Len(s) PROVE s[j] \in Accesses /\ s[j] \in Sent
  <2>1. s[j] \in Accesses /\ j \in DOMAIN s
    BY <1>6, ElementOfSeq, LenProperties
  <2>2. s[j] \in ToSet(s)
    BY <2>1 DEF ToSet
  <2>3. s[j] \in ExecutedIn(store, link)
    BY <2>2 DEF ExecutedIn
  <2> QED
    BY <2>1, <2>3 DEF IInv, Conserved
<1> QED
  BY <1>6, <1>7

SameEras(ask2) == \A x \in Sent : EraIn(ask2, x) = EraIn(asked, x)

MoreMoves(mv2) == \A v \in Variables : mv2[v] \in Nat /\ mv2[v] >= moves[v]

\* What was done in order stays in order.
LEMMA OrderKept ==
  ASSUME IInv, NEW v \in Variables, NEW ask2, NEW mv2, SameEras(ask2), MoreMoves(mv2),
         InOrder(v, ContentsOf(store, link, v), asked, moves)
  PROVE  InOrder(v, ContentsOf(store, link, v), ask2, mv2)
<1> DEFINE s == ContentsOf(store, link, v)
<1> SUFFICES ASSUME NEW j \in 1 .. Len(s)
             PROVE  /\ s[j].var = v
                    /\ s[j].type = "anti" =>
                         \/ \E i \in 1 .. Len(s) : i < j /\ s[i] = [s[j] EXCEPT !.type = "request"]
                         \/ mv2[v] > EraIn(ask2, s[j])
  BY DEF InOrder
<1>1. s[j] \in Sent
  BY ContentsTyped
<1>2. EraIn(ask2, s[j]) = EraIn(asked, s[j]) /\ EraIn(asked, s[j]) \in Nat
  BY <1>1, SentAccess DEF SameEras
<1>3. mv2[v] \in Nat /\ mv2[v] >= moves[v] /\ moves[v] \in Nat
  BY DEF MoreMoves, IInv, TypedClps
<1>4. moves[v] > EraIn(asked, s[j]) => mv2[v] > EraIn(ask2, s[j])
  BY <1>2, <1>3
<1>5. /\ s[j].var = v
      /\ s[j].type = "anti" =>
           \/ \E i \in 1 .. Len(s) : i < j /\ s[i] = [s[j] EXCEPT !.type = "request"]
           \/ moves[v] > EraIn(asked, s[j])
  BY DEF InOrder
<1> HIDE DEF s
<1> QED
  BY <1>4, <1>5

\* A step that does nothing to the variables.
LEMMA OrderStays ==
  ASSUME IInv, OrderInv, NEW gone, NEW new, Steps(link, link', gone, new), ContentsStay,
         NoFresher(store', asked', moves'), SameEras(asked'), MoreMoves(moves'),
         NewOnTheirWay(store', asked', moves', new),
         GoesOn(link', store', asked', moves', ExecutedIn(store, link), gone),
         NewBehind(link', store', asked', moves', ExecutedIn(store, link), gone, new)
  PROVE  OrderInv'
<1>1. ExecutedIn(store', link') = ExecutedIn(store, link)
  BY DEF ContentsStay, ExecutedIn
<1>2. OnTheirWay(link', store', asked', moves')
  BY PathStays DEF OrderInv
<1>3. AntisBehind(link', store', asked', moves', ExecutedIn(store', link'))
  BY <1>1, BehindStays DEF OrderInv
<1>4. AllInOrder(store', link', asked', moves')
  <2> SUFFICES ASSUME NEW v \in Variables
               PROVE  InOrder(v, ContentsOf(store', link', v), asked', moves')
    BY DEF AllInOrder
  <2>1. ContentsOf(store', link', v) = ContentsOf(store, link, v)
    BY DEF ContentsStay
  <2>2. InOrder(v, ContentsOf(store, link, v), asked, moves)
    BY DEF OrderInv, AllInOrder
  <2> QED
    BY <2>1, <2>2, OrderKept
<1> QED
  BY <1>2, <1>3, <1>4 DEF OrderInv

NoAccessIn(gone, new) ==
  /\ \A g \in gone : g.kind # "access"
  /\ \A p \in Neighbours : \A m : <<p, m>> \in new => m.kind # "access"

\* A step that neither takes nor puts an access.
LEMMA NothingSent ==
  ASSUME IInv, OrderInv, NEW gone, NEW new, Steps(link, link', gone, new), NoAccessIn(gone, new),
         ContentsStay, NoFresher(store', asked', moves'), UNCHANGED asked, MoreMoves(moves')
  PROVE  OrderInv'
<1>1. SameEras(asked')
  BY DEF SameEras
<1>2. NewOnTheirWay(store', asked', moves', new)
  BY DEF NoAccessIn, NewOnTheirWay
<1>3. GoesOn(link', store', asked', moves', ExecutedIn(store, link), gone)
  BY CarriesFacts DEF NoAccessIn, GoesOn, Gone
<1>4. NewBehind(link', store', asked', moves', ExecutedIn(store, link), gone, new)
  BY DEF NoAccessIn, NewBehind
<1> QED
  BY <1>1, <1>2, <1>3, <1>4, OrderStays

\* If the variables stay and the agents ask nothing, nothing becomes fresh.
LEMMA NoFresherSame ==
  ASSUME IInv, UNCHANGED <<asked, moves>>, SameHosts(store, store')
  PROVE  NoFresher(store', asked', moves') /\ SameEras(asked') /\ MoreMoves(moves')
<1>1. MoreMoves(moves')
  BY DEF MoreMoves, IInv, TypedClps
<1> QED
  BY <1>1 DEF NoFresher, SameEras, SameHosts, Fresh

-----------------------------------------------------------------------------
(* Order, step by step.                                                    *)

\* Forward: whoever is behind the access that goes on stays behind it, and an
\* anti-message that goes on comes behind its request, if it catches up with it.
LEMMA ForwardOrder ==
  ASSUME IInv, OrderInv, NEW pair \in IntoClp, Forward(pair[1], pair[2])
  PROVE  OrderInv'
<1> DEFINE m == link[pair][1]
           c == pair[2]
           x == m.access
           n == RankOf(c, direction[c][x.var])
           r == <<c, n>>
           m2 == Carried(x, m.hops + 1)
           done == ExecutedIn(store, link)
<1>1. /\ pair \in Neighbours /\ 1 \in 1 .. Len(link[pair]) /\ m.kind = "access" /\ c \in Clps
      /\ direction[c][x.var] # "HERE" /\ r \in Neighbours
      /\ Steps(link, link', {m}, {<<r, m2>>}) /\ r \in In(link', <<"access", x>>)
      /\ UNCHANGED <<clpVars, agentVars, histVars>>
  BY ForwardSteps
<1>2. x \in Sent /\ x \in Accesses /\ In(link, <<"access", x>>) = {pair} /\ 1 \in Pos(link[pair], <<"access", x>>)
  BY <1>1, LinkAccess
<1>3. x.var \in Variables /\ x.agent \in Agents
  BY <1>2, SentAccess
<1>4. n \in Clps /\ \A h \in HostsIn(store, x.var) : h # c /\ n = NextClp(c, h)
  BY <1>1, <1>3, WayOn
<1>5. UNCHANGED <<store, asked, moves>> /\ SameHosts(store, store')
  BY <1>1 DEF clpVars, agentVars, histVars, SameHosts
<1>6. NoFresher(store', asked', moves') /\ SameEras(asked') /\ MoreMoves(moves')
  BY <1>5, NoFresherSame
<1>7. m2.kind = "access" /\ m2.access = x /\ r[2] = n /\ r[1] = c /\ r = <<c, n>>
  BY DEF Carried
<1>8. ContentsStay
  BY ForwardKeeps
<1>9. AlpToClp[AlpOf[x.agent]] \in Clps
  BY <1>3, ToParentIsLink
<1> DEFINE A == AlpToClp[AlpOf[x.agent]]
<1> HIDE DEF m, c, x, n, r, m2, done, A
<1>10. ASSUME NEW h \in Clps, Fresh(store, asked, moves, x, h)
       PROVE  /\ h # c /\ n = NextClp(c, h) /\ OnPath(x.agent, pair, h)
              /\ OnPath(x.agent, r, h) /\ n # A /\ NextClp(n, A) = c
              /\ Through(pair, r, h)
  <2>1. h # c /\ n = NextClp(c, h)
    BY <1>4, <1>10 DEF Fresh
  <2>2. OnPath(x.agent, pair, h)
    BY <1>2, <1>10 DEF OrderInv, OnTheirWay
  <2>3. Distance(A, c) + Distance(c, h) = Distance(A, h)
    BY <2>2 DEF OnPath, A, c
  <2>4. Distance(A, n) + Distance(n, h) = Distance(A, h) /\ n # A /\ NextClp(n, A) = c
    BY ZenonT(60), <1>1, <1>9, <2>1, <2>3, StepOnWay DEF A
  <2>5. OnPath(x.agent, r, h)
    BY <1>7, <2>4 DEF OnPath, A
  <2>6. Distance(c, c) + Distance(c, h) = Distance(c, h)
    BY <1>1, ApartIsFinite
  <2>7. Distance(c, n) + Distance(n, h) = Distance(c, h) /\ n # c
    BY <1>1, <2>1, <2>6, StepOnWay
  <2>8. Through(pair, r, h)
    BY <1>7, <2>7 DEF Through, c
  <2> QED
    BY <2>1, <2>2, <2>4, <2>5, <2>8
<1>11. NewOnTheirWay(store', asked', moves', {<<r, m2>>})
  BY <1>5, <1>7, <1>10 DEF NewOnTheirWay
<1>12. GoesOn(link', store', asked', moves', done, {m})
  <2> SUFFICES ASSUME NEW q \in Requests, NEW h \in Clps, Gone({m}, <<"access", q>>),
                      Fresh(store, asked, moves, q, h)
               PROVE  \E s \in In(link', <<"access", q>>) :
                        s[2] \in Clps /\ \A u \in In(link, <<"access", q>>) : Through(u, s, h)
    BY <1>5 DEF GoesOn
  <2>1. q = x
    BY CarriesFacts DEF Gone, x
  <2> QED
    BY <1>1, <1>2, <1>4, <1>7, <1>10, <2>1
<1>13. NewBehind(link', store', asked', moves', done, {m}, {<<r, m2>>})
  <2> SUFFICES ASSUME NEW q \in Requests, NEW h \in Clps, x = AntiOf(q),
                      Fresh(store, asked, moves, q, h), q \notin done
               PROVE  \/ r \in In(link, <<"access", q>>) /\ ~Gone({m}, <<"access", q>>)
                      \/ \E s \in In(link', <<"access", q>>) : Through(r, s, h)
    BY <1>5, <1>7 DEF NewBehind
  <2>1. Fresh(store, asked, moves, x, h) /\ x # q /\ x.agent = q.agent
    BY AntiIsFresh
  <2>2. ~Gone({m}, <<"access", q>>)
    BY <2>1, CarriesFacts DEF Gone, x
  <2>3. PICK s \in In(link, <<"access", q>>) :
          IF s = pair THEN Ahead(link[pair], <<"access", q>>, 1) ELSE Through(pair, s, h)
    BY <1>1, <1>2 DEF OrderInv, AntisBehind, Before, done
  <2>4. ~Ahead(link[pair], <<"access", q>>, 1)
    BY DEF Ahead, Pos
  <2>5. Through(pair, s, h)
    BY <2>3, <2>4
  <2>6. s \in Neighbours /\ s = <<s[1], s[2]>> /\ s[2] \in Clps /\ q \in Accesses
    <3>1. s \in Neighbours /\ Pos(link[s], <<"access", q>>) # {}
      BY DEF In
    <3>2. PICK j \in 1 .. Len(link[s]) : link[s][j].kind = "access"
      BY <3>1, CarriesFacts DEF Pos
    <3> QED
      BY <3>1, <3>2, LinkAccess, NeighbourPair, AntiIsFresh
  <2>7. n = NextClp(c, h) /\ Distance(n, s[2]) + Distance(s[2], h) = Distance(n, h)
    <3>1. s[2] # c /\ Distance(c, s[2]) + Distance(s[2], h) = Distance(c, h)
      BY <2>5 DEF Through, c
    <3>2. n = NextClp(c, h)
      BY <1>10, <2>1
    <3> QED
      BY <1>1, <2>6, <3>1, <3>2, NextOnWay
  <2>8. CASE s[2] # n
    <3>1. Through(r, s, h)
      BY <1>7, <2>7, <2>8 DEF Through
    <3>2. s \in In(link', <<"access", q>>)
      BY <1>1, <2>2, <2>6 DEF Steps, Succeeds, In
    <3> QED
      BY <3>1, <3>2
  <2>9. CASE s[2] = n
    <3>1. Fresh(store, asked, moves, q, h)
      OBVIOUS
    <3>2. OnPath(q.agent, s, h)
      BY <2>6 DEF OrderInv, OnTheirWay
    <3>3. s[1] = c
      BY <1>10, <2>1, <2>9, <3>2 DEF OnPath, A
    <3>4. s = r
      BY <1>7, <2>6, <2>9, <3>3
    <3> QED
      BY <2>2, <3>4
  <2> QED
    BY <2>8, <2>9
<1> QED
  BY <1>1, <1>6, <1>8, <1>11, <1>12, <1>13, OrderStays DEF done

\* The steps that neither take nor put an access.
LEMMA ResponseOrder ==
  ASSUME IInv, OrderInv,
         \/ \E pair \in IntoClp : ForwardResponse(pair[1], pair[2])
         \/ \E r \in Alps : AlpReceive(r)
  PROVE  OrderInv'
<1>1. CASE \E pair \in IntoClp : ForwardResponse(pair[1], pair[2])
  <2>1. PICK pair \in IntoClp : ForwardResponse(pair[1], pair[2])
    BY <1>1
  <2> DEFINE m == link[pair][1]
  <2>2. /\ m.kind = "response" /\ \E r \in Neighbours : Steps(link, link', {m}, {<<r, m>>})
        /\ UNCHANGED <<clpVars, agentVars, histVars>>
    BY <2>1, ForwardResponseSteps
  <2> HIDE DEF m
  <2>3. PICK r \in Neighbours : Steps(link, link', {m}, {<<r, m>>})
    BY <2>2
  <2>4. UNCHANGED <<asked, moves>> /\ SameHosts(store, store')
    BY <2>2 DEF clpVars, agentVars, histVars, SameHosts
  <2>5. NoAccessIn({m}, {<<r, m>>})
    BY <2>2 DEF NoAccessIn
  <2>6. ContentsStay
    BY <2>1, ForwardResponseKeeps
  <2> QED
    BY <2>3, <2>4, <2>5, <2>6, NothingSent, NoFresherSame
<1>2. CASE \E r \in Alps : AlpReceive(r)
  <2>1. PICK r \in Alps : AlpReceive(r)
    BY <1>2
  <2>2. PICK m : /\ m.kind = "response" /\ Steps(link, link', {m}, {})
                 /\ UNCHANGED <<clpVars, asked, moves>>
    BY <2>1, AlpReceiveSteps
  <2>3. UNCHANGED <<asked, moves>> /\ SameHosts(store, store')
    BY <2>2 DEF clpVars, SameHosts
  <2>4. NoAccessIn({m}, {})
    BY <2>2 DEF NoAccessIn
  <2>5. ContentsStay
    BY <2>1, AlpReceiveKeeps
  <2> QED
    BY <2>2, <2>3, <2>4, <2>5, NothingSent, NoFresherSame
<1> QED
  BY <1>1, <1>2

\* Where its variable is, no request that is fresh is nearer than an anti-message.
LEMMA NotNearer ==
  ASSUME IInv, OrderInv, NEW pair \in IntoClp, NEW q \in Requests,
         pair \in Neighbours, pair[2] \in Clps,
         1 \in Pos(link[pair], <<"access", AntiOf(q)>>), Fresh(store, asked, moves, q, pair[2])
  PROVE  q \in ExecutedIn(store, link)
<1> DEFINE c == pair[2]
<1>1. Before(link, ExecutedIn(store, link), q, pair, 1, c)
  BY DEF OrderInv, AntisBehind
<1>2. ASSUME NEW s \in In(link, <<"access", q>>), Through(pair, s, c) PROVE FALSE
  <2>1. s \in Neighbours /\ Pos(link[s], <<"access", q>>) # {}
    BY DEF In
  <2>2. PICK j \in 1 .. Len(link[s]) : link[s][j].kind = "access"
    BY <2>1, CarriesFacts DEF Pos
  <2>3. s[2] \in Clps
    BY <2>1, <2>2, LinkAccess
  <2>4. s[2] # c /\ Distance(c, s[2]) + Distance(s[2], c) = Distance(c, c)
    BY <1>2 DEF Through
  <2>5. /\ Distance(c, s[2]) \in Nat /\ Distance(s[2], c) \in Nat /\ Distance(c, c) = 0
        /\ Distance(c, s[2]) # 0
    BY <2>3, <2>4, ApartIsFinite
  <2> HIDE DEF c
  <2> QED
    BY <2>4, <2>5
<1>3. ~Ahead(link[pair], <<"access", q>>, 1)
  BY DEF Ahead, Pos
<1> QED
  BY <1>1, <1>2, <1>3 DEF Before

\* What is done to a variable is in order.
LEMMA OrderAppended ==
  ASSUME NEW v, NEW S, NEW s \in Seq(S), NEW q \in S, NEW ask, NEW mv, InOrder(v, s, ask, mv), q.var = v,
         q.type = "anti" => \/ \E i \in 1 .. Len(s) : s[i] = [q EXCEPT !.type = "request"]
                            \/ mv[v] > EraIn(ask, q)
  PROVE  InOrder(v, Append(s, q), ask, mv)
<1> DEFINE r == Append(s, q)
<1>1. /\ Len(r) = Len(s) + 1 /\ Len(s) \in Nat /\ r[Len(s) + 1] = q
      /\ \A k \in 1 .. Len(s) : r[k] = s[k]
  BY AppendProperties, LenProperties
<1> HIDE DEF r
<1> SUFFICES ASSUME NEW j \in 1 .. Len(r)
             PROVE  /\ r[j].var = v
                    /\ r[j].type = "anti" =>
                         \/ \E i \in 1 .. Len(r) : i < j /\ r[i] = [r[j] EXCEPT !.type = "request"]
                         \/ mv[v] > EraIn(ask, r[j])
  BY DEF InOrder, r
<1>2. CASE j = Len(s) + 1
  <2>1. \A i \in 1 .. Len(s) : i \in 1 .. Len(r) /\ i < j /\ r[i] = s[i]
    BY <1>1, <1>2
  <2>2. r[j] = q
    BY <1>1, <1>2
  <2> QED
    BY <2>1, <2>2
<1>3. CASE j \in 1 .. Len(s)
  <2>1. r[j] = s[j] /\ \A i \in 1 .. Len(s) : i \in 1 .. Len(r) /\ r[i] = s[i]
    BY <1>1, <1>3
  <2>2. /\ s[j].var = v
        /\ s[j].type = "anti" =>
             \/ \E i \in 1 .. Len(s) : i < j /\ s[i] = [s[j] EXCEPT !.type = "request"]
             \/ mv[v] > EraIn(ask, s[j])
    BY <1>3 DEF InOrder
  <2> QED
    BY <2>1, <2>2
<1>4. j = Len(s) + 1 \/ j \in 1 .. Len(s)
  BY <1>1
<1> QED
  BY <1>2, <1>3, <1>4

\* Execute: an anti-message that is fresh finds its request executed.
LEMMA ExecuteOrder ==
  ASSUME IInv, OrderInv, Dated(asked, moves), NEW pair \in IntoClp, Execute(pair[1], pair[2])
  PROVE  OrderInv'
<1> DEFINE m == link[pair][1]
           c == pair[2]
           q == m.access
           v == q.var
           new == Response(q)
           done == ExecutedIn(store, link)
           s == ContentsOf(store, link, v)
<1>1. /\ pair \in Neighbours /\ 1 \in 1 .. Len(link[pair]) /\ m.kind = "access"
      /\ \E r \in Neighbours : Steps(link, link', {m}, {<<r, new>>})
      /\ UNCHANGED <<direction, agentVars, histVars>>
  BY ExecuteSteps
<1>2. PICK r \in Neighbours : Steps(link, link', {m}, {<<r, new>>})
  BY <1>1
<1>3. /\ q \in Sent /\ q \in Accesses /\ 1 \in Pos(link[pair], <<"access", q>>) /\ c \in Clps
      /\ v \in Variables /\ EraIn(asked, q) \in Nat /\ moves[v] \in Nat
      /\ q.n \in DOMAIN asked[q.agent] /\ q.agent \in Agents /\ asked[q.agent][q.n].var = v
  BY <1>1, LinkAccess, SentAccess
<1>4. /\ SameHosts(store, store') /\ c \in HostsIn(store, v)
      /\ ContentsOf(store', link', v) = Append(s, q)
      /\ \A w \in Variables : w # v => ContentsOf(store', link', w) = ContentsOf(store, link, w)
      /\ ExecutedIn(store', link') = done \union {q}
  BY ExecuteContents DEF SameHosts
<1>5. UNCHANGED <<asked, moves>>
  BY <1>1 DEF agentVars, histVars
<1>6. NoFresher(store', asked', moves')
  BY <1>4, <1>5, NoFresherSame
<1>7. new.kind = "response"
  BY DEF Response
<1>8. s \in Seq(Accesses) /\ InOrder(v, s, asked, moves)
  BY <1>3, ContentsTyped DEF OrderInv, AllInOrder
<1> HIDE DEF m, new, s
<1>9. OnTheirWay(link', store', asked', moves')
  <2>1. NewOnTheirWay(store', asked', moves', {<<r, new>>})
    BY <1>7 DEF NewOnTheirWay
  <2> QED
    BY <1>2, <1>6, <2>1, PathStays DEF OrderInv
<1>10. AntisBehind(link', store', asked', moves', ExecutedIn(store', link'))
  <2>1. GoesOn(link', store', asked', moves', ExecutedIn(store', link'), {m})
    BY <1>4, CarriesFacts DEF GoesOn, Gone
  <2>2. NewBehind(link', store', asked', moves', ExecutedIn(store', link'), {m}, {<<r, new>>})
    BY <1>7 DEF NewBehind
  <2>3. done \subseteq ExecutedIn(store', link')
    BY <1>4
  <2> QED
    BY <1>2, <1>6, <2>1, <2>2, <2>3, BehindStays DEF OrderInv
<1>11. InOrder(v, Append(s, q), asked, moves)
  <2>1. ASSUME q.type = "anti", ~(moves[v] > EraIn(asked, q))
        PROVE  \E i \in 1 .. Len(s) : s[i] = [q EXCEPT !.type = "request"]
    <3>1. asked[q.agent][q.n].era <= moves[v]
      BY <1>3 DEF Dated
    <3>2. EraIn(asked, q) = moves[v]
      <4>1. EraIn(asked, q) <= moves[v]
        BY <3>1 DEF EraIn
      <4> HIDE DEF q, v
      <4> QED
        BY <1>3, <2>1, <4>1
    <3> DEFINE p == [q EXCEPT !.type = "request"]
    <3>3. p \in Requests /\ q = AntiOf(p)
      BY <1>3, <2>1 DEF Accesses, Requests, Antis, AntiOf
    <3>4. Fresh(store, asked, moves, q, c)
      BY <1>4, <3>2 DEF Fresh
    <3> HIDE DEF p
    <3>5. Fresh(store, asked, moves, p, c)
      BY <3>3, <3>4, AntiIsFresh
    <3>6. p \in done
      <4>1. 1 \in Pos(link[pair], <<"access", AntiOf(p)>>)
        BY <1>3, <3>3
      <4> QED
        BY <1>1, <1>3, <3>3, <3>5, <4>1, NotNearer
    <3>7. PICK w \in Variables : p \in ToSet(ContentsOf(store, link, w))
      BY <3>6 DEF ExecutedIn
    <3> DEFINE t == ContentsOf(store, link, w)
    <3>8. t \in Seq(Accesses) /\ InOrder(w, t, asked, moves)
      BY ContentsTyped DEF OrderInv, AllInOrder
    <3>9. PICK i \in 1 .. Len(t) : t[i] = p
      BY <3>7, <3>8, LenProperties DEF ToSet
    <3>10. p.var = w
      BY <3>8, <3>9 DEF InOrder
    <3>11. p.var = v
      BY <3>3, AntiIsFresh
    <3> QED
      BY <3>9, <3>10, <3>11 DEF p, s
  <2> HIDE DEF q
  <2> QED
    BY <1>3, <1>8, <2>1, OrderAppended DEF v
<1>12. AllInOrder(store', link', asked', moves')
  BY <1>4, <1>5, <1>11 DEF OrderInv, AllInOrder
<1> QED
  BY <1>9, <1>10, <1>12 DEF OrderInv

\* The link to the parent is on the way to everywhere.
LEMMA ParentIsOnPath ==
  ASSUME NEW a \in Agents, NEW h \in Clps
  PROVE  /\ OnPath(a, ToParent(a), h)
         /\ \A r \in Neighbours : r[2] \in Clps /\ r # ToParent(a) /\ OnPath(a, r, h)
              => Through(ToParent(a), r, h)
<1> DEFINE p == ToParent(a)
           A == AlpToClp[AlpOf[a]]
<1>1. p[1] = AlpOf[a] /\ p[2] = A /\ A \in Clps /\ p = <<p[1], p[2]>>
  BY ToParentIsLink DEF ToParent
<1>2. Distance(A, A) + Distance(A, h) = Distance(A, h)
  BY <1>1, ApartIsFinite
<1>3. OnPath(a, p, h)
  BY <1>1, <1>2 DEF OnPath
<1>4. ASSUME NEW r \in Neighbours, r # p, OnPath(a, r, h) PROVE Through(p, r, h)
  <2>1. r = <<r[1], r[2]>>
    BY NeighbourPair
  <2>2. r[2] # A
    BY <1>1, <1>4, <2>1 DEF OnPath
  <2> QED
    BY <1>1, <1>4, <2>2 DEF OnPath, Through
<1> QED
  BY <1>3, <1>4

\* Issue: a new request is on its way from its agent.
LEMMA IssueOrder ==
  ASSUME IInv, OrderInv, Dated(asked, moves), NEW a \in Agents, NEW v \in Variables, Issue(a, v)
  PROVE  OrderInv'
<1>1. PICK q \in Requests :
        /\ q = Access("request", a, Len(asked[a]) + 1, v)
        /\ asked' = [asked EXCEPT ![a] = Append(@, [var |-> v, era |-> moves[v]])]
        /\ q \notin Sent
        /\ link' = With(link, ToParent(a), Carried(q, 0))
        /\ UNCHANGED <<clpVars, histVars>>
  BY IssueFacts
<1> DEFINE p == ToParent(a)
           m == Carried(q, 0)
<1>2. Steps(link, link', {}, {<<p, m>>})
  BY <1>1, IssueSteps
<1>3. SameEras(asked')
  BY <1>1, AskedMore DEF SameEras
<1>4. UNCHANGED <<store, moves>> /\ MoreMoves(moves')
  BY <1>1 DEF clpVars, histVars, MoreMoves, IInv, TypedClps
<1>5. NoFresher(store', asked', moves')
  BY <1>3, <1>4 DEF NoFresher, SameEras, Fresh
<1>6. m.access = q /\ q.agent = a
  BY <1>1 DEF Carried, Access
<1> HIDE DEF m
<1>7. NewOnTheirWay(store', asked', moves', {<<p, m>>})
  BY <1>6, ParentIsOnPath DEF NewOnTheirWay
<1>8. GoesOn(link', store', asked', moves', ExecutedIn(store, link), {})
  BY DEF GoesOn, Gone
<1>9. NewBehind(link', store', asked', moves', ExecutedIn(store, link), {}, {<<p, m>>})
  <2>1. \A r \in Requests : AntiOf(r) # q
    BY AntiFacts
  <2> QED
    BY <1>6, <2>1 DEF NewBehind
<1>10. ContentsStay
  BY IssueKeeps
<1> QED
  BY <1>2, <1>3, <1>4, <1>5, <1>7, <1>8, <1>9, <1>10, OrderStays

\* Cancel: an anti-message is sent behind its request.
LEMMA CancelOrder ==
  ASSUME IInv, OrderInv, NEW a \in Agents, NEW k \in Numbers, Cancel(a, k)
  PROVE  OrderInv'
<1>1. Steps(link, link', {}, AntisTo(a, k))
  BY CancelSteps
<1>2. UNCHANGED <<clpVars, asked, histVars>>
  BY DEF Cancel
<1>3. UNCHANGED <<store, asked, moves>> /\ SameHosts(store, store')
  BY <1>2 DEF clpVars, histVars, SameHosts
<1>4. NoFresher(store', asked', moves') /\ SameEras(asked') /\ MoreMoves(moves')
  BY <1>3, NoFresherSame
<1>5. CutFrom(a, k) \subseteq Requests /\ CutFrom(a, k) \subseteq Sent /\ \A q \in CutFrom(a, k) : q.agent = a
  <2>1. k \in 1 .. Len(sendList[a])
    BY CancelSends
  <2> QED
    BY <2>1, CutFacts, SentIs DEF SentIn
<1>6. ASSUME NEW p, NEW m, <<p, m>> \in AntisTo(a, k)
      PROVE  p = ToParent(a) /\ \E q \in CutFrom(a, k) : m.access = AntiOf(q) /\ m.access.agent = a
  <2>1. PICK q \in CutFrom(a, k) : p = ToParent(a) /\ m = Carried(AntiOf(q), 0)
    BY <1>6 DEF AntisTo, AntisOf
  <2>2. m.access = AntiOf(q)
    BY <2>1 DEF Carried
  <2> QED
    BY <1>5, <2>1, <2>2, AntiIsFresh
<1>7. NewOnTheirWay(store', asked', moves', AntisTo(a, k))
  BY <1>6, ParentIsOnPath DEF NewOnTheirWay
<1>8. GoesOn(link', store', asked', moves', ExecutedIn(store, link), {})
  BY DEF GoesOn, Gone
<1>9. NewBehind(link', store', asked', moves', ExecutedIn(store, link), {}, AntisTo(a, k))
  <2> SUFFICES ASSUME NEW p, NEW m, NEW q \in Requests, NEW h \in Clps,
                      <<p, m>> \in AntisTo(a, k), m.access = AntiOf(q), Fresh(store, asked, moves, q, h),
                      q \notin ExecutedIn(store, link), p \notin In(link, <<"access", q>>)
               PROVE  \E r \in In(link', <<"access", q>>) : Through(p, r, h)
    BY <1>3 DEF NewBehind, Gone
  <2>1. p = ToParent(a) /\ q \in CutFrom(a, k)
    BY <1>5, <1>6, AntiFacts
  <2>2. q \in Sent /\ q.agent = a /\ q \in Accesses
    BY <1>5, <2>1, AntiFacts
  <2>3. In(link, <<"access", q>>) # {}
    BY <2>2 DEF IInv, Conserved
  <2>4. PICK r \in In(link, <<"access", q>>) : TRUE
    BY <2>3
  <2>5. r \in Neighbours /\ Pos(link[r], <<"access", q>>) # {}
    BY DEF In
  <2>6. r[2] \in Clps
    <3>1. PICK j \in 1 .. Len(link[r]) : link[r][j].kind = "access"
      BY <2>5, CarriesFacts DEF Pos
    <3> QED
      BY <2>5, <3>1, LinkAccess
  <2>7. OnPath(a, r, h)
    BY <2>2 DEF OrderInv, OnTheirWay
  <2>8. Through(p, r, h)
    BY <2>1, <2>5, <2>6, <2>7, ParentIsOnPath
  <2>9. r \in In(link', <<"access", q>>)
    BY <1>1, <2>5 DEF Steps, Succeeds, In, Gone
  <2> QED
    BY <2>8, <2>9
<1>10. ContentsStay
  BY CancelKeeps
<1> QED
  BY <1>1, <1>4, <1>7, <1>8, <1>9, <1>10, OrderStays

\* SetGvt: to a variable that leaves nobody is on the way.
LEMMA SetGvtOrder ==
  ASSUME IInv, OrderInv, NEW c \in Clps, SetGvt(c)
  PROVE  OrderInv'
<1>1. /\ UNCHANGED <<agentVars, histVars>>
      /\ Migrate(c) \/ UNCHANGED <<direction, store, accesses, hops, link>>
  BY DEF SetGvt
<1>2. UNCHANGED <<asked, moves>>
  BY <1>1 DEF agentVars, histVars
<1>3. CASE UNCHANGED <<direction, store, accesses, hops, link>>
  BY <1>2, <1>3 DEF OrderInv
<1>4. CASE Migrate(c)
  <2>1. PICK new : /\ Steps(link, link', {}, new)
                   /\ \A p \in Neighbours : \A m : <<p, m>> \in new => m.kind # "access"
    BY <1>4, MigrateSteps
  <2>2. /\ \A v : v \notin AllLeaving(c) => HostsIn(store', v) = HostsIn(store, v)
        /\ \A v \in AllLeaving(c) : HostsIn(store', v) = {}
    BY <1>4, MigrateMoves
  <2>3. \A v : \A h : h \in HostsIn(store', v) => h \in HostsIn(store, v)
    BY <2>2
  <2>4. NoFresher(store', asked', moves')
    BY <1>2, <2>3 DEF NoFresher, Fresh
  <2>5. MoreMoves(moves')
    BY <1>2 DEF MoreMoves, IInv, TypedClps
  <2>6. NoAccessIn({}, new)
    BY <2>1 DEF NoAccessIn
  <2>7. ContentsStay
    BY SetGvtKeeps
  <2> QED
    BY <1>2, <2>1, <2>4, <2>5, <2>6, <2>7, NothingSent
<1> QED
  BY <1>1, <1>3, <1>4

\* Receive: nobody has asked since for a variable that arrives.
LEMMA ReceiveOrder ==
  ASSUME IInv, OrderInv, Dated(asked, moves), NEW pair \in IntoClp, Receive(pair[1], pair[2])
  PROVE  OrderInv'
<1> DEFINE A == DOMAIN Arriving(pair)
           g == link[pair][FirstMigration(pair)]
<1>1. Steps(link, link', {g}, {}) /\ g.kind = "migration"
  BY ReceiveSteps
<1>2. /\ \A v \in Variables : moves'[v] = IF v \in A THEN moves[v] + 1 ELSE moves[v]
      /\ UNCHANGED <<accesses, hops, load, agentVars, answered>>
  BY ReceiveFacts
<1>3. \A v \in Variables : v \notin A => HostsIn(store', v) = HostsIn(store, v)
  BY ReceiveMoves
<1>4. asked' = asked
  BY <1>2 DEF agentVars
<1>5. moves \in [Variables -> Nat]
  BY DEF IInv, TypedClps
<1> HIDE DEF A, g
<1>6. NoFresher(store', asked', moves')
  <2> SUFFICES ASSUME NEW x \in Sent, NEW h \in Clps, Fresh(store', asked', moves', x, h)
               PROVE  Fresh(store, asked, moves, x, h)
    BY DEF NoFresher
  <2>1. /\ x.var \in Variables /\ x.agent \in Agents /\ x.n \in DOMAIN asked[x.agent]
        /\ asked[x.agent][x.n].var = x.var /\ EraIn(asked, x) \in Nat /\ moves[x.var] \in Nat
    BY SentAccess
  <2>2. EraIn(asked, x) <= moves[x.var]
    BY <2>1 DEF Dated, EraIn
  <2>3. x.var \notin A
    <3>1. EraIn(asked, x) = moves'[x.var]
      BY <1>4 DEF Fresh
    <3> QED
      BY <1>2, <2>1, <2>2, <3>1
  <2> QED
    BY <1>2, <1>3, <1>4, <2>1, <2>3 DEF Fresh
<1>7. MoreMoves(moves')
  BY <1>2, <1>5 DEF MoreMoves
<1>8. NoAccessIn({g}, {})
  BY <1>1 DEF NoAccessIn
<1>9. ContentsStay
  BY ReceiveKeeps
<1> QED
  BY <1>1, <1>4, <1>6, <1>7, <1>8, <1>9, NothingSent

\* At first nothing has been done, and no message is on its way.
LEMMA InitOrder == Init /\ IInv => OrderInv
<1> SUFFICES ASSUME Init, IInv PROVE OrderInv
  OBVIOUS
<1>1. \A t : In(link, t) = {} /\ \A p \in Neighbours : Pos(link[p], t) = {}
  BY DEF Init, In, Pos
<1>2. Sent = {}
  <2>1. \A a \in Agents : DOMAIN asked[a] = {}
    BY DEF Init
  <2>2. SentBy(asked) = {}
    BY <2>1, SentByFacts
  <2> QED
    BY <2>2, SentIs DEF SentIn, CancelledFrom
<1>3. AllInOrder(store, link, asked, moves)
  BY <1>2, ContentsTyped DEF AllInOrder, InOrder
<1> QED
  BY <1>1, <1>3 DEF OrderInv, OnTheirWay, AntisBehind

\* Every step leaves requests and anti-messages in their order.
LEMMA NextOrder == IInv /\ DetourInv /\ OrderInv /\ [Next]_vars => OrderInv'
<1> SUFFICES ASSUME IInv, DetourInv, OrderInv, [Next]_vars PROVE OrderInv'
  OBVIOUS
<1>a. Dated(asked, moves)
  BY DEF DetourInv
<1>1. ASSUME NEW a \in Agents, NEW v \in Variables, Issue(a, v) PROVE OrderInv'
  BY <1>a, <1>1, IssueOrder
<1>2. ASSUME NEW a \in Agents, NEW k \in Numbers, Cancel(a, k) PROVE OrderInv'
  BY <1>2, CancelOrder
<1>3. ASSUME NEW r \in Alps, AlpReceive(r) PROVE OrderInv'
  BY <1>3, ResponseOrder
<1>4. ASSUME NEW pair \in IntoClp, ClpReceive(pair[1], pair[2]) PROVE OrderInv'
  BY <1>a, <1>4, ForwardOrder, ResponseOrder, ExecuteOrder, ReceiveOrder DEF ClpReceive
<1>5. ASSUME NEW c \in Clps, SetGvt(c) PROVE OrderInv'
  BY <1>5, SetGvtOrder
<1>6. ASSUME UNCHANGED vars PROVE OrderInv'
  <2>1. UNCHANGED <<store, link, asked, moves>>
    BY <1>6 DEF vars, clpVars, agentVars, histVars
  <2> QED
    BY <2>1 DEF OrderInv
<1> QED
  BY <1>1, <1>2, <1>3, <1>4, <1>5, <1>6 DEF Next

\* The first place of an element of a list.
LEMMA FirstPlace ==
  ASSUME NEW S, NEW s \in Seq(S), NEW i \in 1 .. Len(s)
  PROVE  PositionIn(s, s[i]) \in 1 .. i /\ s[PositionIn(s, s[i])] = s[i]
<1> DEFINE I == {j \in 1 .. Len(s) : s[j] = s[i]}
<1>1. Len(s) \in Nat /\ I \subseteq Nat /\ i \in I
  BY LenProperties
<1>2. PositionIn(s, s[i]) = Min(I)
  BY <1>1 DEF PositionIn, SelectInSeq
<1>3. Min(I) \in I /\ \A j \in I : Min(I) <= j
  BY <1>1, MinOfSet
<1> QED
  BY <1>1, <1>2, <1>3

\* An anti-message is executed after its request, unless the variable has moved
\* since the request was issued: as long as the variable stays, the two go the
\* same way, in the same links, one behind the other.
THEOREM OvertakenOnlyByAMoveHolds == Spec => []OvertakenOnlyByAMove
<1>1. IInv /\ OrderInv => OvertakenOnlyByAMove
  <2> SUFFICES ASSUME IInv, OrderInv, NEW v \in Variables, NEW x \in ToSet(Contents(v)), x.type = "anti",
                      ~(moves[v] > Era(x))
               PROVE  PositionIn(Contents(v), [x EXCEPT !.type = "request"]) \in 1 .. PositionIn(Contents(v), x)
    BY DEF OvertakenOnlyByAMove
  <2> DEFINE s == ContentsOf(store, link, v)
             q == [x EXCEPT !.type = "request"]
  <2>1. Contents(v) = s
    BY WayFacts
  <2>2. s \in Seq(Accesses) /\ InOrder(v, s, asked, moves)
    BY ContentsTyped DEF OrderInv, AllInOrder
  <2> HIDE DEF s
  <2>3. PICK k \in 1 .. Len(s) : x = s[k]
    BY <2>1, <2>2, LenProperties DEF ToSet
  <2> DEFINE j == PositionIn(s, x)
  <2>4. j \in 1 .. k /\ s[j] = x
    BY <2>2, <2>3, FirstPlace
  <2>5. j \in 1 .. Len(s) /\ Len(s) \in Nat
    BY <2>2, <2>3, <2>4, LenProperties
  <2> HIDE DEF j
  <2>6. PICK i \in 1 .. Len(s) : i < j /\ s[i] = q
    BY <2>2, <2>4, <2>5 DEF InOrder, Era, EraIn
  <2>7. PositionIn(s, q) \in 1 .. i
    BY <2>2, <2>6, FirstPlace
  <2> HIDE DEF q
  <2>8. PositionIn(s, q) \in 1 .. j
    BY <2>5, <2>6, <2>7
  <2> QED
    BY <2>1, <2>8 DEF j, q
<1>2. Init => DetourInv
  BY InitDetour
<1>3. IInv /\ DetourInv /\ [Next]_vars => DetourInv'
  BY NextDetour
<1>4. Init /\ IInv => OrderInv
  BY InitOrder
<1>5. IInv /\ DetourInv /\ OrderInv /\ [Next]_vars => OrderInv'
  BY NextOrder
<1> QED
  BY <1>1, <1>2, <1>3, <1>4, <1>5, Invariance, PTL DEF Spec
=============================================================================
