-------------------------- MODULE ContextSetupProofs --------------------------
(***************************************************************************)
(* Proofs about ContextSetup, for any documents, products, files and flags *)
(* and any number of commands.                                             *)
(***************************************************************************)
EXTENDS ContextSetup, FiniteSetTheorems, NaturalsInduction, WellFoundedInduction, TLAPS

----------------------------------------------------------------------------
(* What a context's sessions depend on.                                     *)

\* Two contexts that reach their products alike.
Alike(c, e) ==
  /\ e.kind = c.kind /\ e.synthetic = c.synthetic
  /\ e.issuer = c.issuer /\ e.issuerID = c.issuerID /\ e.client = c.client
  /\ e.provider = c.provider /\ e.narrowing = c.narrowing
  /\ e.ref = c.ref /\ e.products = c.products
  /\ LoginNamespace(e) = LoginNamespace(c)

LEMMA AlikeAccesses ==
  ASSUME NEW c, NEW e, Alike(c, e)
  PROVE  /\ Derivation(e) = Derivation(c)
         /\ LoginAccess(e) = LoginAccess(c)
         /\ LoginRef(e) = LoginRef(c)
         /\ RecordKeys(e) = RecordKeys(c)
         /\ \A key : Access(e, key) = Access(c, key)
<1>1. Derivation(e) = Derivation(c)
  BY DEF Alike, Derivation
<1>2. LoginRef(e) = LoginRef(c) /\ \A key : ProductSessionRef(e, key) = ProductSessionRef(c, key)
  BY DEF Alike, LoginRef, ProductSessionRef
<1>3. \A strategy, key, record, ref :
        Reached(e, strategy, key, record, ref) = Reached(c, strategy, key, record, ref)
  BY <1>1 DEF Alike, Reached
<1>4. \A access : AtLoginIssuer(e, access) = AtLoginIssuer(c, access)
  BY DEF Alike, AtLoginIssuer
<1>5. LoginAccess(e) = LoginAccess(c)
  BY <1>2, <1>3, <1>4 DEF Alike, LoginAccess
<1>6. \A access, pinned : OfLogin(e, access, pinned) = OfLogin(c, access, pinned)
  BY <1>2, <1>5 DEF OfLogin, SharesLogin
<1>7. e.kind = c.kind /\ e.products = c.products /\ LoginNamespace(e) = LoginNamespace(c)
  BY DEF Alike
<1>8. ASSUME NEW ns PROVE GatewayAccess(e, ns) = GatewayAccess(c, ns)
  <2>1. \A access : OfLogin(e, access, FALSE) = OfLogin(c, access, FALSE)
    BY <1>2, <1>5 DEF OfLogin, SharesLogin
  <2> QED
    BY <1>2, <1>3, <2>1, <1>7 DEF GatewayAccess
<1>9. ASSUME NEW ns PROVE InlineAccess(e, ns) = InlineAccess(c, ns)
  <2> DEFINE p == c.products[ns]
             r == Reached(c, "inline", Key(ns), p, None)
             q == e.products[ns]
             s == Reached(e, "inline", Key(ns), q, None)
  <2>1. q = p /\ s = r
    BY <1>3, <1>7
  <2>2. InlineAccess(c, ns) =
          IF Direct(p) THEN r
          ELSE [r EXCEPT !.issuer = p.grant.issuer, !.resource = p.grant.resource]
    BY DEF InlineAccess
  <2>3. InlineAccess(e, ns) =
          IF Direct(q) THEN s
          ELSE [s EXCEPT !.issuer = q.grant.issuer, !.resource = q.grant.resource]
    BY DEF InlineAccess
  <2> HIDE DEF p, r, q, s
  <2> QED
    BY <2>1, <2>2, <2>3
<1>10. ASSUME NEW ns PROVE ProductAccess(e, ns) = ProductAccess(c, ns)
  <2> DEFINE p == c.products[ns]
             r == Reached(c, "direct", Key(ns), p, ProductSessionRef(c, Key(ns)))
             o == OfLogin(c, r, ns = LoginNamespace(c))
             q == e.products[ns]
             s == Reached(e, "direct", Key(ns), q, ProductSessionRef(e, Key(ns)))
             u == OfLogin(e, s, ns = LoginNamespace(e))
  <2>1. q = p /\ s = r
    BY <1>2, <1>3, <1>7
  <2>2. u = o
    BY <1>2, <1>5, <1>7, <2>1 DEF OfLogin, SharesLogin
  <2>3. ProductAccess(c, ns) =
          IF Direct(p) THEN o
          ELSE CASE p.grant.kind = "exchange" ->
                      [r EXCEPT !.strategy = "exchanged", !.resource = p.audience, !.ref = None]
                 [] p.grant.kind = "jwt-bearer" ->
                      [r EXCEPT !.strategy = "derived", !.scopes = AssertionScopes(p.grant),
                                !.resource = p.grant.resource]
                 [] p.grant.kind = "federated" ->
                      [r EXCEPT !.strategy = "federated", !.issuer = p.grant.issuer,
                                !.client = p.grant.client, !.resource = p.grant.resource]
    BY DEF ProductAccess
  <2>4. ProductAccess(e, ns) =
          IF Direct(q) THEN u
          ELSE CASE q.grant.kind = "exchange" ->
                      [s EXCEPT !.strategy = "exchanged", !.resource = q.audience, !.ref = None]
                 [] q.grant.kind = "jwt-bearer" ->
                      [s EXCEPT !.strategy = "derived", !.scopes = AssertionScopes(q.grant),
                                !.resource = q.grant.resource]
                 [] q.grant.kind = "federated" ->
                      [s EXCEPT !.strategy = "federated", !.issuer = q.grant.issuer,
                                !.client = q.grant.client, !.resource = q.grant.resource]
    BY DEF ProductAccess
  <2> HIDE DEF p, r, o, q, s, u
  <2> QED
    BY <2>1, <2>2, <2>3, <2>4
<1>11. \A key : Access(e, key) = Access(c, key)
  BY <1>4, <1>8, <1>9, <1>10 DEF Alike, Access
<1>12. RecordKeys(e) = RecordKeys(c)
  BY DEF Alike, RecordKeys
<1> QED
  BY <1>1, <1>2, <1>5, <1>11, <1>12

LEMMA AlikeSessions ==
  ASSUME NEW c, NEW e, Alike(c, e)
  PROVE  Accesses(e) = Accesses(c) /\ SessionsOf(e) = SessionsOf(c)
<1>1. Accesses(e) = Accesses(c)
  <2>1. e.kind = c.kind
    BY DEF Alike
  <2> QED
    BY <2>1, AlikeAccesses DEF Accesses
<1> QED
  BY <1>1 DEF Alike, SessionsOf

\* Pinning the login moves nothing: it is where it was.
LEMMA FrozenAlike ==
  ASSUME NEW c, Holding(c, ContextMembers)
  PROVE  Alike(c, FreezeContext(c))
<1> DEFINE e == FreezeContext(c)
<1>1. CASE c.login # None \/ c.kind = "client-credentials" \/ c.synthetic
  BY <1>1 DEF Alike, FreezeContext
<1>2. CASE ~(c.login # None \/ c.kind = "client-credentials" \/ c.synthetic)
  <2>1. e = [c EXCEPT !.login = LoginNamespace(c)]
    BY <1>2 DEF FreezeContext
  <2>2. /\ e.kind = c.kind /\ e.synthetic = c.synthetic
        /\ e.issuer = c.issuer /\ e.issuerID = c.issuerID /\ e.client = c.client
        /\ e.provider = c.provider /\ e.narrowing = c.narrowing
        /\ e.ref = c.ref /\ e.products = c.products /\ e.login = LoginNamespace(c)
    BY <2>1 DEF Holding, ContextMembers
  <2>3. LoginNamespace(e) = LoginNamespace(c)
    <3> DEFINE direct == {n \in DOMAIN NamespaceOrder :
                   /\ NamespaceOrder[n] \in DOMAIN c.products
                   /\ Direct(c.products[NamespaceOrder[n]])}
               first == NamespaceOrder[CHOOSE n \in direct : \A m \in direct : n <= m]
    <3>1. LoginNamespace(c) =
            IF c.login \in DOMAIN c.products /\ Direct(c.products[c.login]) THEN c.login
            ELSE IF direct = {} THEN None ELSE first
      BY DEF LoginNamespace
    <3>2. LoginNamespace(e) =
            IF e.login \in DOMAIN c.products /\ Direct(c.products[e.login]) THEN e.login
            ELSE IF direct = {} THEN None ELSE first
      BY <2>2 DEF LoginNamespace
    <3>3. c.login = None
      BY <1>2
    <3> HIDE DEF direct, first, e
    <3> QED
      BY <2>2, <3>1, <3>2, <3>3
  <2> QED
    BY <2>2, <2>3 DEF Alike
<1> QED
  BY <1>1, <1>2

----------------------------------------------------------------------------
(* References.                                                              *)

\* A reference leads back to its context's, and is no missing value.
LEMMA RefsLead ==
  ASSUME NEW c, c.ref \in STRING \cup {None}, NEW ns \in DOMAIN Published
  PROVE  /\ LoginRef(c)[1] = c.ref /\ LoginRef(c) # None
         /\ \A key \in {Key(ns), GatewayKey(ns)} :
              /\ ProductSessionRef(c, key)[1] = c.ref
              /\ ProductSessionRef(c, key) # None
<1>1. ns \in STRING
  BY InputsAssumption
<1>2. /\ <<c.ref>> \in Seq(Words)
      /\ <<ns>> \in Seq(Words)
      /\ <<ns, "gateway">> \in Seq(Words)
  BY <1>1 DEF Words
<1>3. ASSUME NEW key \in {Key(ns), GatewayKey(ns)}
      PROVE  /\ ProductSessionRef(c, key)[1] = c.ref
             /\ ProductSessionRef(c, key) \in Seq(Words)
  <2>1. key \in Seq(Words)
    BY <1>2 DEF Key, GatewayKey
  <2>2. <<c.ref>> \o key \in Seq(Words)
    BY <1>2, <2>1
  <2>3. (<<c.ref>> \o key)[1] = c.ref
    BY <1>2, <2>1
  <2> QED
    BY <2>2, <2>3 DEF ProductSessionRef
<1>4. None \notin Seq(Words)
  BY NoneAssumption
<1> QED
  BY <1>2, <1>3, <1>4 DEF LoginRef

----------------------------------------------------------------------------
(* Sequences.                                                               *)

LEMMA LeastPosition ==
  ASSUME NEW S \in SUBSET Nat, S # {}
  PROVE  \E i \in S : \A j \in S : i <= j
<1> DEFINE less == OpToRel(<, Nat)
<1>1. \A i, j \in Nat : j < i => <<j, i>> \in less
  BY DEF OpToRel
<1>2. IsWellFoundedOn(less, Nat)
  BY NatLessThanWellFounded
<1> HIDE DEF less
<1>3. PICK i \in S : \A j \in S : ~ (<<j, i>> \in less)
  BY <1>2, WFMin
<1>4. ASSUME NEW j \in S PROVE i <= j
  <2>1. i \in Nat /\ j \in Nat /\ ~ j < i
    BY <1>1, <1>3
  <2> QED
    BY <2>1
<1> QED
  BY <1>4

LEMMA SequenceIs ==
  ASSUME NEW s, IsSequence(s)
  PROVE  Len(s) \in Nat /\ DOMAIN s = 1..Len(s) /\ Holding(s, 1..Len(s))
<1> DEFINE S == {s[n] : n \in DOMAIN s}
<1>1. s \in Seq(S)
  BY DEF IsSequence
<1> HIDE DEF S
<1>2. Len(s) \in Nat /\ DOMAIN s = 1..Len(s) /\ s \in [1..Len(s) -> S]
  BY <1>1
<1> QED
  BY <1>2 DEF Holding

LEMMA SequenceOf ==
  ASSUME NEW k \in Nat, NEW s, Holding(s, 1..k)
  PROVE  IsSequence(s) /\ Len(s) = k /\ DOMAIN s = 1..k
<1> DEFINE S == {s[n] : n \in DOMAIN s}
<1>1. DOMAIN s = 1..k
  BY DEF Holding
<1>2. \A n \in 1..k : s[n] \in S
  BY <1>1
<1>3. s = [n \in 1..k |-> s[n]]
  BY DEF Holding
<1> HIDE DEF S
<1>4. s \in [1..k -> S]
  BY <1>2, <1>3
<1>5. s \in Seq(S) /\ Len(s) = k
  BY <1>4
<1> QED
  BY <1>1, <1>5 DEF IsSequence, S

LEMMA AppendIs ==
  ASSUME NEW s, IsSequence(s), NEW x
  PROVE  /\ IsSequence(Append(s, x)) /\ Len(Append(s, x)) = Len(s) + 1
         /\ DOMAIN Append(s, x) = 1..(Len(s) + 1)
         /\ \A n \in DOMAIN s : Append(s, x)[n] = s[n]
         /\ Append(s, x)[Len(s) + 1] = x
<1> DEFINE S == {s[n] : n \in DOMAIN s} \cup {x}
           t == Append(s, x)
<1>1. /\ Len(s) \in Nat /\ DOMAIN s = 1..Len(s)
      /\ Holding(s, 1..Len(s))
  BY SequenceIs
<1>2. \A n \in DOMAIN s : s[n] \in S
  OBVIOUS
<1>3. x \in S
  OBVIOUS
<1> HIDE DEF S
<1>4. s \in Seq(S)
  <2>1. s \in [1..Len(s) -> S]
    BY <1>1, <1>2 DEF Holding
  <2> QED
    BY <1>1, <2>1
<1>5. /\ t \in Seq(S) /\ Len(t) = Len(s) + 1
      /\ \A n \in 1..Len(s) : t[n] = s[n]
      /\ t[Len(s) + 1] = x
  <2>1. t \in Seq(S)
    BY <1>3, <1>4
  <2>2. Len(t) = Len(s) + 1
    BY <1>3, <1>4
  <2>3. \A n \in 1..Len(s) : t[n] = s[n]
    BY <1>1, <1>3, <1>4
  <2>4. t[Len(s) + 1] = x
    BY <1>1, <1>3, <1>4
  <2> QED
    BY <2>1, <2>2, <2>3, <2>4
<1> HIDE DEF t
<1>6. Holding(t, 1..(Len(s) + 1))
  <2>1. t \in [1..(Len(s) + 1) -> S]
    BY <1>5
  <2> QED
    BY <2>1 DEF Holding
<1>7. IsSequence(t)
  BY <1>1, <1>6, SequenceOf
<1>8. DOMAIN t = 1..(Len(s) + 1)
  BY <1>6 DEF Holding
<1> QED
  BY <1>1, <1>5, <1>7, <1>8 DEF t

----------------------------------------------------------------------------
(* A document as the set of its contexts.                                   *)

Contexts(d) == {d.contexts[n] : n \in DOMAIN d.contexts}

\* What identifies a context's sessions in the secure store.
Pairs(c) == {<<a.ref, Binding(a)>> : a \in SessionsOf(c)}

\* No name twice.
Apart(d) ==
  \A m, n \in DOMAIN d.contexts : m # n => d.contexts[m].name # d.contexts[n].name

LEMMA ValidIsApart ==
  ASSUME NEW d, ValidDocument(d)
  PROVE  Apart(d)
BY DEF ValidDocument, Apart

LEMMA SessionIDsAre ==
  ASSUME NEW d
  PROVE  SessionIDs(d) = UNION {Pairs(c) : c \in Contexts(d)}
<1>1. \A id : id \in SessionIDs(d) <=> \E n \in DOMAIN d.contexts : id \in Pairs(d.contexts[n])
  BY DEF SessionIDs, Pairs
<1>2. \A id : id \in UNION {Pairs(c) : c \in Contexts(d)} <=> \E c \in Contexts(d) : id \in Pairs(c)
  OBVIOUS
<1>3. \A id : (\E c \in Contexts(d) : id \in Pairs(c))
                <=> \E n \in DOMAIN d.contexts : id \in Pairs(d.contexts[n])
  BY DEF Contexts
<1> QED
  BY <1>1, <1>2, <1>3

LEMMA FoundIn ==
  ASSUME NEW d, NEW name \in Names(d)
  PROVE  /\ Find(d, name) \in Contexts(d) /\ Find(d, name).name = name
         /\ Apart(d) => \A c \in Contexts(d) : c.name = name => c = Find(d, name)
<1> DEFINE at == CHOOSE n \in DOMAIN d.contexts : d.contexts[n].name = name
<1>1. \E n \in DOMAIN d.contexts : d.contexts[n].name = name
  BY DEF Names
<1>2. at \in DOMAIN d.contexts /\ d.contexts[at].name = name
  BY <1>1
<1>3. Find(d, name) = d.contexts[at]
  BY DEF Find
<1> HIDE DEF at
<1> QED
  BY <1>2, <1>3 DEF Contexts, Apart

LEMMA ShapedContexts ==
  ASSUME NEW d, Shaped(d), NEW c \in Contexts(d)
  PROVE  Recorded(c) /\ c.name \in Nameable /\ c.name \in Names(d)
BY DEF Shaped, Contexts, Names

\* A context put in a document takes the place of the one of its name.
LEMMA PutIs ==
  ASSUME NEW d, Shaped(d), NEW c, Recorded(c), c.name \in Nameable
  PROVE  /\ Shaped(Put(d, c)) /\ Put(d, c).default = d.default
         /\ Contexts(Put(d, c)) = {e \in Contexts(d) : e.name # c.name} \cup {c}
         /\ Names(Put(d, c)) = Names(d) \cup {c.name}
         /\ Apart(d) => Apart(Put(d, c))
<1> DEFINE s == d.contexts
           r == Put(d, c).contexts
<1>1. Len(s) \in Nat /\ DOMAIN s = 1..Len(s) /\ {"contexts", "default"} \subseteq DOMAIN d
  BY SequenceIs DEF Shaped
<1>2. CASE c.name \in Names(d)
  <2>1. Put(d, c) = [d EXCEPT !.contexts =
          [n \in DOMAIN @ |-> IF @[n].name = c.name THEN c ELSE @[n]]]
    BY <1>2 DEF Put
  <2>2. /\ r = [n \in DOMAIN s |-> IF s[n].name = c.name THEN c ELSE s[n]]
        /\ Put(d, c).default = d.default /\ DOMAIN Put(d, c) = DOMAIN d
    BY <1>1, <2>1
  <2>3. DOMAIN r = DOMAIN s /\ \A n \in DOMAIN s : r[n] = IF s[n].name = c.name THEN c ELSE s[n]
    BY <2>2
  <2>4. IsSequence(r)
    <3>1. Holding(r, 1..Len(s))
      BY <1>1, <2>2 DEF Holding
    <3> QED
      BY <1>1, <3>1, SequenceOf
  <2>5. PICK k \in DOMAIN s : s[k].name = c.name
    BY <1>2 DEF Names
  <2> HIDE DEF s, r
  <2>6. Shaped(Put(d, c))
    BY <1>1, <2>2, <2>3, <2>4 DEF Shaped, r, s
  <2>7. Contexts(Put(d, c)) = {e \in Contexts(d) : e.name # c.name} \cup {c}
    BY <2>3, <2>5 DEF Contexts, r, s
  <2>8. \A n \in DOMAIN s : r[n].name = s[n].name
    BY <2>3
  <2>9. Names(Put(d, c)) = Names(d)
    BY <2>3, <2>8 DEF Names, r, s
  <2>10. Apart(d) => Apart(Put(d, c))
    BY <2>3, <2>8 DEF Apart, r, s
  <2> QED
    BY <1>2, <2>2, <2>6, <2>7, <2>9, <2>10
<1>3. CASE c.name \notin Names(d)
  <2>1. Put(d, c) = [d EXCEPT !.contexts = Append(@, c)]
    BY <1>3 DEF Put
  <2>2. /\ r = Append(s, c)
        /\ Put(d, c).default = d.default /\ DOMAIN Put(d, c) = DOMAIN d
    BY <1>1, <2>1
  <2>3. /\ IsSequence(r) /\ DOMAIN r = 1..(Len(s) + 1)
        /\ \A n \in DOMAIN s : r[n] = s[n]
        /\ r[Len(s) + 1] = c
    BY <2>2, AppendIs DEF Shaped
  <2>4. DOMAIN r = DOMAIN s \cup {Len(s) + 1} /\ Len(s) + 1 \notin DOMAIN s
    BY <1>1, <2>3
  <2>5. \A n \in DOMAIN s : s[n].name # c.name
    BY <1>3 DEF Names
  <2> HIDE DEF s, r
  <2>6. Shaped(Put(d, c))
    BY <1>1, <2>2, <2>3, <2>4 DEF Shaped, r, s
  <2>7. Contexts(Put(d, c)) = {e \in Contexts(d) : e.name # c.name} \cup {c}
    BY <2>3, <2>4, <2>5 DEF Contexts, r, s
  <2>8. Names(Put(d, c)) = Names(d) \cup {c.name}
    BY <2>3, <2>4 DEF Names, r, s
  <2>9. Apart(d) => Apart(Put(d, c))
    BY <2>3, <2>4, <2>5 DEF Apart, r, s
  <2> QED
    BY <2>2, <2>6, <2>7, <2>8, <2>9
<1> QED
  BY <1>2, <1>3

LEMMA WithoutIs ==
  ASSUME NEW d, Shaped(d), Apart(d), NEW name \in Names(d)
  PROVE  /\ Shaped(Without(d, name)) /\ Apart(Without(d, name))
         /\ Without(d, name).default = IF d.default = name THEN None ELSE d.default
         /\ Contexts(Without(d, name)) = {e \in Contexts(d) : e.name # name}
         /\ Names(Without(d, name)) = Names(d) \ {name}
<1> DEFINE s == d.contexts
           at == CHOOSE n \in DOMAIN s : s[n].name = name
           r == Without(d, name).contexts
<1>1. Len(s) \in Nat /\ DOMAIN s = 1..Len(s)
  BY SequenceIs DEF Shaped
<1>2. at \in DOMAIN s /\ s[at].name = name
  BY DEF Names
<1>3. /\ r = [n \in 1..(Len(s) - 1) |-> s[IF n < at THEN n ELSE n + 1]]
      /\ Without(d, name).default = (IF d.default = name THEN None ELSE d.default)
      /\ DOMAIN Without(d, name) = {"contexts", "default"}
  BY DEF Without, Others
<1> HIDE DEF at
<1>4. Len(s) - 1 \in Nat
  BY <1>1, <1>2
<1>5. IsSequence(r) /\ DOMAIN r = 1..(Len(s) - 1)
  <2>1. Holding(r, 1..(Len(s) - 1))
    BY <1>3 DEF Holding
  <2> QED
    BY <1>4, <2>1, SequenceOf
<1>6. \A n \in DOMAIN s : n # at => s[n].name # name
  BY <1>2 DEF Apart
<1> HIDE DEF s, r
<1>7. \A n \in DOMAIN r : \E m \in DOMAIN s : m # at /\ r[n] = s[m] /\ m = IF n < at THEN n ELSE n + 1
  BY <1>1, <1>2, <1>3, <1>4, <1>5
<1>8. ASSUME NEW m \in DOMAIN s, m # at
      PROVE  \E n \in DOMAIN r : r[n] = s[m]
  <2>1. CASE m < at
    <3>1. m \in DOMAIN r /\ r[m] = s[m]
      BY <1>1, <1>2, <1>3, <1>5, <2>1
    <3> QED
      BY <3>1
  <2>2. CASE ~(m < at)
    <3>1. m - 1 \in DOMAIN r /\ ~(m - 1 < at) /\ m - 1 + 1 = m
      BY <1>1, <1>2, <1>5, <1>8, <2>2
    <3>2. r[m - 1] = s[m]
      BY <1>3, <1>5, <3>1
    <3> QED
      BY <3>1, <3>2
  <2> QED
    BY <2>1, <2>2
<1>9. Contexts(Without(d, name)) = {e \in Contexts(d) : e.name # name}
  BY <1>2, <1>6, <1>7, <1>8 DEF Contexts, r, s
<1>10. Names(Without(d, name)) = Names(d) \ {name}
  BY <1>2, <1>6, <1>7, <1>8 DEF Names, r, s
<1>11. Shaped(Without(d, name))
  <2>1. \A n \in DOMAIN r : Recorded(r[n]) /\ r[n].name \in Nameable
    BY <1>7 DEF Shaped, s
  <2> QED
    BY <1>3, <1>5, <2>1 DEF Shaped, r
<1>12. Apart(Without(d, name))
  <2>1. ASSUME NEW m \in DOMAIN r, NEW n \in DOMAIN r, m # n
        PROVE  r[m].name # r[n].name
    <3>1. PICK i \in DOMAIN s : r[m] = s[i] /\ i = IF m < at THEN m ELSE m + 1
      BY <1>7
    <3>2. PICK j \in DOMAIN s : r[n] = s[j] /\ j = IF n < at THEN n ELSE n + 1
      BY <1>7
    <3>3. i # j
      BY <1>1, <1>2, <1>5, <2>1, <3>1, <3>2
    <3> QED
      BY <3>1, <3>2, <3>3 DEF Apart, s
  <2> QED
    BY <2>1 DEF Apart, r
<1> QED
  BY <1>3, <1>9, <1>10, <1>11, <1>12

\* Pinning the login twice is pinning it once.
LEMMA FrozenIs ==
  ASSUME NEW c, Recorded(c)
  PROVE  /\ Recorded(FreezeContext(c)) /\ FreezeContext(FreezeContext(c)) = FreezeContext(c)
         /\ FreezeContext(c).name = c.name /\ FreezeContext(c).ref = c.ref
         /\ FreezeContext(c).kind = c.kind /\ Pairs(FreezeContext(c)) = Pairs(c)
<1> DEFINE e == FreezeContext(c)
<1>1. Alike(c, e)
  BY FrozenAlike DEF Recorded
<1>2. Pairs(e) = Pairs(c)
  BY <1>1, AlikeSessions DEF Pairs
<1>3. CASE c.login # None \/ c.kind = "client-credentials" \/ c.synthetic
  <2>1. e = c
    BY <1>3 DEF FreezeContext
  <2> QED
    BY <1>2, <2>1
<1>4. CASE ~(c.login # None \/ c.kind = "client-credentials" \/ c.synthetic)
  <2>1. e = [c EXCEPT !.login = LoginNamespace(c)]
    BY <1>4 DEF FreezeContext
  <2>2. /\ Holding(e, ContextMembers)
        /\ e.login = LoginNamespace(c) /\ e.name = c.name /\ e.ref = c.ref /\ e.kind = c.kind
        /\ e.synthetic = c.synthetic /\ e.products = c.products /\ e.client = c.client
    BY <2>1 DEF Recorded, Holding, ContextMembers
  <2>3. Recorded(e)
    BY <2>2 DEF Recorded
  <2>4. FreezeContext(e) = e
    <3>1. LoginNamespace(e) = LoginNamespace(c)
      BY <1>1 DEF Alike
    <3>2. CASE e.login # None
      BY <3>2 DEF FreezeContext
    <3>3. CASE e.login = None
      <4>1. [e EXCEPT !.login = LoginNamespace(e)] = e
        BY <2>2, <3>1 DEF Holding, ContextMembers
      <4> QED
        BY <4>1 DEF FreezeContext
    <3> QED
      BY <3>2, <3>3
  <2> QED
    BY <1>2, <2>2, <2>3, <2>4
<1> QED
  BY <1>3, <1>4

LEMMA FreezeIs ==
  ASSUME NEW d, Shaped(d)
  PROVE  /\ Shaped(Freeze(d)) /\ Freeze(d).default = d.default
         /\ Contexts(Freeze(d)) = {FreezeContext(c) : c \in Contexts(d)}
         /\ Names(Freeze(d)) = Names(d) /\ SessionIDs(Freeze(d)) = SessionIDs(d)
         /\ Apart(d) <=> Apart(Freeze(d))
<1> DEFINE s == d.contexts
           r == Freeze(d).contexts
<1>1. Len(s) \in Nat /\ DOMAIN s = 1..Len(s) /\ {"contexts", "default"} \subseteq DOMAIN d
  BY SequenceIs DEF Shaped
<1>2. /\ r = [n \in DOMAIN s |-> FreezeContext(s[n])]
      /\ Freeze(d).default = d.default /\ DOMAIN Freeze(d) = DOMAIN d
  BY <1>1 DEF Freeze
<1>3. DOMAIN r = DOMAIN s /\ \A n \in DOMAIN s : r[n] = FreezeContext(s[n])
  BY <1>2
<1>4. IsSequence(r)
  <2>1. Holding(r, 1..Len(s))
    BY <1>1, <1>2 DEF Holding
  <2> QED
    BY <1>1, <2>1, SequenceOf
<1>5. \A n \in DOMAIN s : Recorded(s[n]) /\ s[n].name \in Nameable
  BY DEF Shaped
<1> HIDE DEF s, r
<1>6. \A n \in DOMAIN s : /\ Recorded(r[n]) /\ r[n].name = s[n].name
                          /\ Pairs(r[n]) = Pairs(s[n])
  BY <1>3, <1>5, FrozenIs
<1>7. Shaped(Freeze(d))
  BY <1>1, <1>2, <1>3, <1>4, <1>5, <1>6 DEF Shaped, r
<1>8. Contexts(Freeze(d)) = {FreezeContext(c) : c \in Contexts(d)}
  BY <1>3 DEF Contexts, r, s
<1>9. Names(Freeze(d)) = Names(d)
  BY <1>3, <1>6 DEF Names, r, s
<1>10. SessionIDs(Freeze(d)) = SessionIDs(d)
  <2>1. \A id : id \in SessionIDs(d) <=> \E n \in DOMAIN s : id \in Pairs(s[n])
    BY DEF SessionIDs, Pairs, s
  <2>2. \A id : id \in SessionIDs(Freeze(d)) <=> \E n \in DOMAIN r : id \in Pairs(r[n])
    BY DEF SessionIDs, Pairs, r
  <2> QED
    BY <1>3, <1>6, <2>1, <2>2
<1>11. Apart(d) <=> Apart(Freeze(d))
  BY <1>3, <1>6 DEF Apart, r, s
<1> QED
  BY <1>2, <1>7, <1>8, <1>9, <1>10, <1>11

LEMMA WrittenIs ==
  ASSUME NEW d, Shaped(d), ValidDocument(Freeze(d))
  PROVE  /\ Sound(Written(d)) /\ Written(d).version = Current
         /\ Read(Written(d)) = Written(d) /\ Written(d).default = d.default
         /\ Contexts(Written(d)) = {FreezeContext(c) : c \in Contexts(d)}
         /\ Names(Written(d)) = Names(d) /\ SessionIDs(Written(d)) = SessionIDs(d)
<1>1. /\ Written(d).contexts = Freeze(d).contexts /\ Written(d).default = d.default
      /\ Written(d).version = Current /\ DOMAIN Written(d) = {"version", "contexts", "default"}
  BY DEF Written
<1>2. /\ Shaped(Freeze(d)) /\ Freeze(d).default = d.default
      /\ Contexts(Freeze(d)) = {FreezeContext(c) : c \in Contexts(d)}
      /\ Names(Freeze(d)) = Names(d) /\ SessionIDs(Freeze(d)) = SessionIDs(d)
  BY FreezeIs
<1>3. Shaped(Written(d))
  BY <1>1, <1>2 DEF Shaped
<1>4. Names(Written(d)) = Names(Freeze(d)) /\ Contexts(Written(d)) = Contexts(Freeze(d))
  BY <1>1 DEF Names, Contexts
<1>5. SessionIDs(Written(d)) = SessionIDs(Freeze(d))
  BY <1>1 DEF SessionIDs
<1>6. ValidDocument(Written(d))
  BY <1>1, <1>2, <1>4 DEF ValidDocument
<1>7. Read(Written(d)) = Written(d)
  BY <1>1 DEF Read, Current, AccountsVersions
<1> QED
  BY <1>1, <1>2, <1>3, <1>4, <1>5, <1>6, <1>7 DEF Sound

----------------------------------------------------------------------------
(* How a command ends.                                                      *)

\* The document on disk is one the program was given, or wrote.
DiskSound ==
  /\ disk.version \in 0..5
  /\ disk \in Documents \/ (disk.version = Current /\ Sound(disk))

Reaches(store, lost, d) == \A ref \in DOMAIN store \ lost : <<ref, store[ref]>> \in SessionIDs(d)

\* A store with what another has, and no more.
Fewer(store, than) ==
  \A ref \in DOMAIN store : ref \in DOMAIN than /\ store[ref] = than[ref]

\* What a command reports, and what it reports when it is refused.
ReportMembers == {"command", "names", "refused", "product", "next"}

LEMMA ReportIs ==
  ASSUME NEW command, NEW names
  PROVE  /\ Holding(Report(command, names), ReportMembers)
         /\ Report(command, names).names = names /\ Report(command, names).refused = None
         /\ Report(command, names).next = None
BY DEF Report, Holding, ReportMembers

LEMMA RefusalIs ==
  ASSUME NEW report, Holding(report, ReportMembers), NEW code \in Codes, NEW store,
         RefusedLeaving(report, code, store)
  PROVE  /\ disk' = disk /\ sessions' = store
         /\ done'.refused = code /\ done'.refused # None
         /\ done'.next = None /\ done'.names = report.names
<1>1. code # None
  BY NoneAssumption
<1>2. /\ disk' = disk /\ sessions' = store
      /\ done' = [report EXCEPT !.refused = code, !.next = None]
  BY DEF RefusedLeaving
<1>3. done'.refused = code /\ done'.next = None /\ done'.names = report.names
  BY <1>2 DEF Holding, ReportMembers
<1> QED
  BY <1>1, <1>2, <1>3

LEMMA UpdateEnds ==
  ASSUME NEW report, Holding(report, ReportMembers), NEW next, NEW store,
         UpdateLeaving(report, next, store)
  PROVE  /\ sessions' = store /\ done'.names = report.names
         /\ \/ disk' = disk /\ done'.refused # None /\ done'.next = None
            \/ /\ Writable /\ ValidDocument(Freeze(next))
               /\ disk' = Written(next) /\ done' = report
<1>1. {"document_frozen", "document_malformed", "document_busy"} \subseteq Codes
  BY DEF Codes
<1>2. CASE ~Writable
  BY <1>1, <1>2, RefusalIs DEF UpdateLeaving
<1>3. CASE Writable /\ ~ValidDocument(Freeze(next))
  BY <1>1, <1>3, RefusalIs DEF UpdateLeaving
<1>4. CASE Writable /\ ValidDocument(Freeze(next))
  BY <1>1, <1>4, RefusalIs DEF UpdateLeaving
<1> QED
  BY <1>2, <1>3, <1>4

LEMMA RefusedIs ==
  ASSUME NEW report, Holding(report, ReportMembers), NEW code \in Codes,
         Refused(report, code)
  PROVE  /\ disk' = disk /\ sessions' = sessions
         /\ done'.refused # None /\ done'.next = None /\ done'.names = report.names
BY RefusalIs DEF Refused

LEMMA KeepingIs ==
  ASSUME NEW store, NEW refs
  PROVE  /\ DOMAIN Keeping(store, refs) = DOMAIN store \ refs
         /\ Fewer(Keeping(store, refs), store)
BY DEF Keeping, Fewer

LEMMA ChangeEnds ==
  ASSUME NEW report, Holding(report, ReportMembers), NEW next, Change(report, next)
  PROVE  /\ Fewer(sessions', sessions) /\ done'.names = report.names
         /\ DOMAIN sessions \ Ending(next) \subseteq DOMAIN sessions'
         /\ \/ disk' = disk /\ done'.refused # None /\ done'.next = None
            \/ /\ Writable /\ ValidDocument(Freeze(next))
               /\ disk' = Written(next) /\ done' = report
               /\ sessions' = Keeping(sessions, Ending(next))
<1>1. {"document_frozen", "invalid_argument", "interrupted"} \subseteq Codes
  BY DEF Codes
<1>2. Fewer(sessions, sessions)
  BY DEF Fewer
<1>3. CASE ~Writable
  BY <1>1, <1>2, <1>3, RefusedIs DEF Change
<1>4. CASE Writable /\ ~ValidDocument(Freeze(next))
  BY <1>1, <1>2, <1>4, RefusedIs DEF Change
<1>5. CASE Writable /\ ValidDocument(Freeze(next))
  <2>1. CASE done' = report /\ disk' = Written(next) /\ sessions' = Keeping(sessions, Ending(next))
    <3>1. /\ Fewer(sessions', sessions)
          /\ DOMAIN sessions' = DOMAIN sessions \ Ending(next)
      BY <2>1, KeepingIs
    <3> QED
      BY <1>5, <2>1, <3>1
  <2>2. ASSUME NEW ended \in SUBSET Ending(next),
               RefusedLeaving(report, "interrupted", Keeping(sessions, ended))
        PROVE  /\ Fewer(sessions', sessions) /\ done'.names = report.names
               /\ DOMAIN sessions \ Ending(next) \subseteq DOMAIN sessions'
               /\ disk' = disk /\ done'.refused # None /\ done'.next = None
    <3>1. /\ disk' = disk /\ sessions' = Keeping(sessions, ended)
          /\ done'.refused # None /\ done'.next = None /\ done'.names = report.names
      BY <1>1, <2>2, RefusalIs
    <3> QED
      BY <3>1, KeepingIs
  <2>3. \/ done' = report /\ disk' = Written(next) /\ sessions' = Keeping(sessions, Ending(next))
        \/ \E ended \in SUBSET Ending(next) :
             RefusedLeaving(report, "interrupted", Keeping(sessions, ended))
    BY <1>5 DEF Change
  <2> QED
    BY <2>1, <2>2, <2>3
<1> QED
  BY <1>3, <1>4, <1>5

\* Fewer sessions are reached by what reached more.
LEMMA FewerReached ==
  ASSUME NEW store, NEW than, Fewer(store, than), NEW lost, NEW d, Reaches(than, lost, d)
  PROVE  Reaches(store, lost, d)
BY DEF Fewer, Reaches

\* What a change leaves stored, the document it writes reaches.
LEMMA EndingLeaves ==
  ASSUME NEW next, Shaped(next), NEW lost, Reaches(sessions, lost, Loaded)
  PROVE  Reaches(Keeping(sessions, Ending(next)), lost, next)
<1> DEFINE of(e) == UNION {SessionsOf(e.contexts[n]) : n \in DOMAIN e.contexts}
<1>1. \A d, id : id \in SessionIDs(d) <=> \E a \in of(d) : id = <<a.ref, Binding(a)>>
  BY DEF SessionIDs
<1>2. SessionsUnreachedBy(Loaded, Freeze(next)) =
        {a \in of(Loaded) : \A b \in of(Freeze(next)) : b.ref = a.ref => Binding(a) # Binding(b)}
  BY DEF SessionsUnreachedBy
<1> HIDE DEF of
<1>3. ASSUME NEW ref \in DOMAIN Keeping(sessions, Ending(next)) \ lost
      PROVE  <<ref, Keeping(sessions, Ending(next))[ref]>> \in SessionIDs(next)
  <2>1. /\ ref \in DOMAIN sessions \ lost /\ ref \notin Ending(next)
        /\ Keeping(sessions, Ending(next))[ref] = sessions[ref]
    <3> DEFINE kept == Keeping(sessions, Ending(next))
    <3>1. DOMAIN kept = DOMAIN sessions \ Ending(next) /\ Fewer(kept, sessions)
      BY KeepingIs
    <3> HIDE DEF kept
    <3>2. ref \in DOMAIN kept \ lost
      BY <1>3 DEF kept
    <3> QED
      BY <3>1, <3>2 DEF Fewer, kept
  <2>2. PICK a \in of(Loaded) : <<ref, sessions[ref]>> = <<a.ref, Binding(a)>>
    BY <1>1, <2>1 DEF Reaches
  <2>3. a \notin SessionsUnreachedBy(Loaded, Freeze(next))
    BY <2>1, <2>2 DEF Ending
  <2>4. PICK b \in of(Freeze(next)) : b.ref = a.ref /\ Binding(a) = Binding(b)
    BY <1>2, <2>3
  <2>5. <<ref, sessions[ref]>> = <<b.ref, Binding(b)>>
    BY <2>2, <2>4
  <2>6. <<ref, sessions[ref]>> \in SessionIDs(Freeze(next))
    BY <1>1, <2>5
  <2> QED
    BY <2>1, <2>6, FreezeIs
<1> QED
  BY <1>3 DEF Reaches

----------------------------------------------------------------------------
(* What each command makes of a document.                                   *)

LEMMA SameLogin ==
  ASSUME NEW c, NEW e, e.products = c.products, e.login = c.login
  PROVE  LoginNamespace(e) = LoginNamespace(c)
BY DEF LoginNamespace

\* A context under another name, or of another organization, has its sessions.
LEMMA RenamedIs ==
  ASSUME NEW c, Recorded(c), NEW name
  PROVE  LET e == [c EXCEPT !.name = name]
         IN Recorded(e) /\ e.name = name /\ Pairs(e) = Pairs(c)
<1> DEFINE e == [c EXCEPT !.name = name]
<1>1. /\ Holding(e, ContextMembers) /\ e.name = name
      /\ e.kind = c.kind /\ e.synthetic = c.synthetic /\ e.login = c.login
      /\ e.issuer = c.issuer /\ e.issuerID = c.issuerID /\ e.client = c.client
      /\ e.provider = c.provider /\ e.narrowing = c.narrowing
      /\ e.ref = c.ref /\ e.products = c.products
  BY DEF Recorded, Holding, ContextMembers
<1> HIDE DEF e
<1>2. Alike(c, e)
  BY <1>1, SameLogin DEF Alike
<1>3. Recorded(e)
  BY <1>1 DEF Recorded
<1> QED
  BY <1>1, <1>2, <1>3, AlikeSessions DEF Pairs, e

LEMMA MovedIs ==
  ASSUME NEW c, Recorded(c), NEW org
  PROVE  LET e == [c EXCEPT !.org = org]
         IN Recorded(e) /\ e.name = c.name /\ Pairs(e) = Pairs(c)
<1> DEFINE e == [c EXCEPT !.org = org]
<1>1. /\ Holding(e, ContextMembers) /\ e.name = c.name
      /\ e.kind = c.kind /\ e.synthetic = c.synthetic /\ e.login = c.login
      /\ e.issuer = c.issuer /\ e.issuerID = c.issuerID /\ e.client = c.client
      /\ e.provider = c.provider /\ e.narrowing = c.narrowing
      /\ e.ref = c.ref /\ e.products = c.products
  BY DEF Recorded, Holding, ContextMembers
<1> HIDE DEF e
<1>2. Alike(c, e)
  BY <1>1, SameLogin DEF Alike
<1>3. Recorded(e)
  BY <1>1 DEF Recorded
<1> QED
  BY <1>1, <1>2, <1>3, AlikeSessions DEF Pairs, e

LEMMA WithoutRecordIs ==
  ASSUME NEW c, Recorded(c), NEW key
  PROVE  Recorded(WithoutRecord(c, key)) /\ WithoutRecord(c, key).name = c.name
<1> DEFINE e == WithoutRecord(c, key)
           ns == key[1]
<1>1. CASE IsGatewayKey(key)
  <2> DEFINE products == [c.products EXCEPT ![ns] = [@ EXCEPT !.gateway = None]]
  <2>1. e = [c EXCEPT !.products = products]
    BY <1>1 DEF WithoutRecord
  <2>2. /\ DOMAIN products = DOMAIN c.products /\ Holding(products, DOMAIN products)
        /\ \A n \in DOMAIN products : RecordedProduct(products[n])
    <3>1. \A n \in DOMAIN products :
            products[n] = c.products[n] \/ products[n] = [c.products[n] EXCEPT !.gateway = None]
      OBVIOUS
    <3>2. \A p : RecordedProduct(p) => RecordedProduct([p EXCEPT !.gateway = None])
      BY DEF RecordedProduct, Holding
    <3>3. \A n \in DOMAIN c.products : RecordedProduct(c.products[n])
      BY DEF Recorded
    <3>4. DOMAIN products = DOMAIN c.products /\ Holding(products, DOMAIN products)
      BY DEF Holding
    <3> QED
      BY <3>1, <3>2, <3>3, <3>4
  <2> HIDE DEF products
  <2>3. /\ Holding(e, ContextMembers) /\ e.name = c.name /\ e.synthetic = c.synthetic
        /\ e.ref = c.ref /\ e.client = c.client /\ e.products = products
    BY <2>1 DEF Recorded, Holding, ContextMembers
  <2> QED
    BY <2>2, <2>3 DEF Recorded
<1>2. CASE ~IsGatewayKey(key)
  <2> DEFINE products == [n \in DOMAIN c.products \ {ns} |-> c.products[n]]
  <2>1. e = [c EXCEPT !.products = products]
    BY <1>2 DEF WithoutRecord
  <2>2. /\ DOMAIN products \subseteq DOMAIN c.products
        /\ Holding(products, DOMAIN products)
        /\ \A n \in DOMAIN products : products[n] = c.products[n]
    BY DEF Holding
  <2> HIDE DEF products
  <2>3. /\ Holding(e, ContextMembers) /\ e.name = c.name /\ e.synthetic = c.synthetic
        /\ e.ref = c.ref /\ e.client = c.client /\ e.products = products
    BY <2>1 DEF Recorded, Holding, ContextMembers
  <2> QED
    BY <2>2, <2>3 DEF Recorded
<1> QED
  BY <1>1, <1>2

\* A context in the place of one with the same sessions loses none of them.
LEMMA PutReaches ==
  ASSUME NEW d, Shaped(d), NEW c, Recorded(c), c.name \in Nameable,
         \A e \in Contexts(d) : e.name = c.name => Pairs(e) \subseteq Pairs(c)
  PROVE  /\ SessionIDs(d) \subseteq SessionIDs(Put(d, c))
         /\ Pairs(c) \subseteq SessionIDs(Put(d, c))
<1>1. Contexts(Put(d, c)) = {e \in Contexts(d) : e.name # c.name} \cup {c}
  BY PutIs
<1>2. /\ SessionIDs(d) = UNION {Pairs(e) : e \in Contexts(d)}
      /\ SessionIDs(Put(d, c)) = UNION {Pairs(e) : e \in Contexts(Put(d, c))}
  BY SessionIDsAre
<1> QED
  BY <1>1, <1>2

LEMMA FewValues ==
  ASSUME NEW k \in Nat, NEW f, Holding(f, 1..k)
  PROVE  /\ IsFiniteSet({f[n] : n \in 1..k})
         /\ Cardinality({f[n] : n \in 1..k}) \in Nat /\ Cardinality({f[n] : n \in 1..k}) <= k
<1> DEFINE T == {f[n] : n \in 1..k}
<1>1. \A n \in 1..k : f[n] \in T
  OBVIOUS
<1>2. \A t \in T : \E n \in 1..k : f[n] = t
  OBVIOUS
<1>3. f = [n \in 1..k |-> f[n]]
  BY DEF Holding
<1> HIDE DEF T
<1>4. f \in [1..k -> T]
  BY <1>1, <1>3
<1>5. f \in Surjection(1..k, T)
  BY <1>2, <1>4 DEF Surjection
<1>6. IsFiniteSet(1..k) /\ Cardinality(1..k) = k
  BY FS_Interval
<1>7. IsFiniteSet(T) /\ Cardinality(T) <= Cardinality(1..k)
  BY <1>5, <1>6, FS_Surjection
<1>8. Cardinality(T) \in Nat
  BY <1>7, FS_CardinalityType
<1> QED
  BY <1>6, <1>7, <1>8 DEF T

\* More values than are taken leave one free, and a first one.
LEMMA FreeOne ==
  ASSUME NEW bases \in Seq(STRING),
         \A m, n \in DOMAIN bases : bases[m] = bases[n] => m = n,
         NEW taken, IsFiniteSet(taken), Cardinality(taken) < Len(bases)
  PROVE  LET first == CHOOSE n \in DOMAIN bases :
                        /\ bases[n] \notin taken
                        /\ \A m \in 1..(n - 1) : bases[m] \in taken
         IN bases[first] \in STRING /\ bases[first] \notin taken
<1> DEFINE k == Len(bases)
           free == {n \in 1..k : bases[n] \notin taken}
<1>1. k \in Nat /\ DOMAIN bases = 1..k /\ \A n \in 1..k : bases[n] \in STRING
  OBVIOUS
<1>2. bases = [n \in 1..k |-> bases[n]]
  BY <1>1
<1> HIDE DEF k
<1>3. free # {}
  <2> SUFFICES ASSUME free = {} PROVE FALSE
    OBVIOUS
  <2>1. \A n \in 1..k : bases[n] \in taken
    OBVIOUS
  <2>2. bases \in [1..k -> taken]
    BY <1>2, <2>1
  <2>3. bases \in Injection(1..k, taken)
    BY <1>1, <2>2 DEF Injection, IsInjective
  <2>4. Cardinality(1..k) <= Cardinality(taken)
    BY <2>3, FS_Injection
  <2>5. Cardinality(1..k) = k
    BY <1>1, FS_Interval
  <2>6. Cardinality(taken) \in Nat
    BY FS_CardinalityType
  <2> QED
    BY <1>1, <2>4, <2>5, <2>6 DEF k
<1>4. free \in SUBSET Nat
  BY <1>1
<1>5. PICK n \in free : \A m \in free : n <= m
  BY <1>3, <1>4, LeastPosition
<1>6. /\ n \in DOMAIN bases /\ bases[n] \notin taken
      /\ \A m \in 1..(n - 1) : bases[m] \in taken
  <2>1. n \in 1..k /\ bases[n] \notin taken
    OBVIOUS
  <2>2. ASSUME NEW m \in 1..(n - 1) PROVE bases[m] \in taken
    <3>1. m \in 1..k /\ ~(n <= m)
      BY <1>1, <2>1
    <3>2. m \notin free
      BY <1>5, <3>1
    <3> QED
      BY <3>1, <3>2
  <2> QED
    BY <1>1, <2>1, <2>2
<1> DEFINE first == CHOOSE i \in DOMAIN bases :
                      /\ bases[i] \notin taken
                      /\ \A m \in 1..(i - 1) : bases[m] \in taken
<1>7. first \in DOMAIN bases /\ bases[first] \notin taken
  BY <1>6
<1> HIDE DEF first
<1>8. bases[first] \in STRING
  BY <1>1, <1>7
<1> QED
  BY <1>7, <1>8 DEF first

----------------------------------------------------------------------------
(* What an earlier shell wrote, migrated.                                   *)

OldForm(d) == d \in Documents /\ d.version \in AccountsVersions
Accounts(d) == {d.accounts[n] : n \in DOMAIN d.accounts}

LEMMA OldFormIs ==
  ASSUME NEW d, OldForm(d)
  PROVE  /\ SoundAccounts(d) /\ Read(d) = Migrate(d)
         /\ \A n \in DOMAIN d.accounts :
              Users(d, d.accounts[n]) = {} => d.accounts[n].name \in DOMAIN Numbered
         /\ \A base \in DOMAIN Numbered :
              Len(Numbered[base]) > Len(d.contexts) + 2 * Len(d.accounts)
         /\ Len(d.contexts) \in Nat /\ DOMAIN d.contexts = 1..Len(d.contexts)
         /\ Len(d.accounts) \in Nat /\ DOMAIN d.accounts = 1..Len(d.accounts)
<1>1. SoundAccounts(d) /\ Read(d) = Migrate(d)
  BY DocumentsAssumption DEF OldForm, Read
<1>2. IsSequence(d.contexts) /\ IsSequence(d.accounts)
  BY <1>1 DEF SoundAccounts
<1> QED
  BY <1>1, <1>2, SequenceIs, NumberedAssumption DEF OldForm

\* An account is found by its name, and by its reference.
LEMMA AccountIs ==
  ASSUME NEW d, OldForm(d)
  PROVE  /\ \A n \in DOMAIN d.contexts :
              /\ AccountOf(d, d.contexts[n].account) \in Accounts(d)
              /\ AccountOf(d, d.contexts[n].account).name = d.contexts[n].account
         /\ \A a \in Accounts(d) :
              /\ AccountOf(d, a.name) = a /\ Recorded(a) /\ ValidAccount(a)
              /\ \A b \in Accounts(d) : a.ref # None /\ a.ref = b.ref => a = b
<1>1. SoundAccounts(d)
  BY OldFormIs
<1>2. ASSUME NEW n \in DOMAIN d.contexts
      PROVE  /\ AccountOf(d, d.contexts[n].account) \in Accounts(d)
             /\ AccountOf(d, d.contexts[n].account).name = d.contexts[n].account
  <2>1. \E m \in DOMAIN d.accounts : d.accounts[m].name = d.contexts[n].account
    BY <1>1 DEF SoundAccounts
  <2> DEFINE m == CHOOSE i \in DOMAIN d.accounts : d.accounts[i].name = d.contexts[n].account
  <2>2. m \in DOMAIN d.accounts /\ d.accounts[m].name = d.contexts[n].account
    BY <2>1
  <2>3. AccountOf(d, d.contexts[n].account) = d.accounts[m]
    BY DEF AccountOf
  <2> HIDE DEF m
  <2> QED
    BY <2>2, <2>3 DEF Accounts
<1>3. ASSUME NEW a \in Accounts(d) PROVE AccountOf(d, a.name) = a
  <2>1. PICK n \in DOMAIN d.accounts : a = d.accounts[n]
    BY DEF Accounts
  <2> DEFINE m == CHOOSE i \in DOMAIN d.accounts : d.accounts[i].name = a.name
  <2>2. m \in DOMAIN d.accounts /\ d.accounts[m].name = a.name
    BY <2>1
  <2>3. AccountOf(d, a.name) = d.accounts[m]
    BY DEF AccountOf
  <2> HIDE DEF m
  <2> QED
    BY <1>1, <2>1, <2>2, <2>3 DEF SoundAccounts
<1>4. \A a \in Accounts(d) : Recorded(a) /\ ValidAccount(a)
  BY <1>1 DEF SoundAccounts, Accounts
<1>5. \A a, b \in Accounts(d) : a.ref # None /\ a.ref = b.ref => a = b
  BY <1>1 DEF SoundAccounts, Accounts
<1> QED
  BY <1>2, <1>3, <1>4, <1>5

\* A context that carries an account, under the account's reference or one that
\* is no account's.
Carries(d, c, a) ==
  /\ a \in Accounts(d)
  /\ c = [a EXCEPT !.name = c.name, !.org = c.org, !.ref = c.ref]
  /\ c.ref \in STRING \cup {None}
  /\ c.ref = None <=> a.ref = None
  /\ c.ref \in Reserved(d) => c.ref = a.ref

\* The contexts so far: no name twice, no reference twice.
Gathered(d, acc) ==
  /\ IsSequence(acc.contexts)
  /\ acc.claimed = {acc.contexts[n].ref : n \in DOMAIN acc.contexts}
  /\ \A n \in DOMAIN acc.contexts : \E a : Carries(d, acc.contexts[n], a)
  /\ \A m, n \in DOMAIN acc.contexts :
       m # n => /\ acc.contexts[m].name # acc.contexts[n].name
                /\ acc.contexts[m].ref # None => acc.contexts[m].ref # acc.contexts[n].ref

LEMMA FreeNameIs ==
  ASSUME NEW base \in DOMAIN Numbered, NEW taken, IsFiniteSet(taken),
         Cardinality(taken) < Len(Numbered[base])
  PROVE  FreeName(base, taken) \in STRING /\ FreeName(base, taken) \notin taken
<1> DEFINE bases == Numbered[base]
           first == CHOOSE n \in DOMAIN bases :
                      /\ bases[n] \notin taken
                      /\ \A m \in 1..(n - 1) : bases[m] \in taken
<1>1. /\ bases \in Seq(STRING)
      /\ \A m, n \in DOMAIN bases : bases[m] = bases[n] => m = n
  BY NumberedAssumption
<1>2. FreeName(base, taken) = bases[first]
  BY DEF FreeName
<1> HIDE DEF bases
<1>3. Cardinality(taken) < Len(bases)
  BY DEF bases
<1>4. bases[first] \in STRING /\ bases[first] \notin taken
  BY <1>1, <1>3, FreeOne
<1> HIDE DEF first
<1> QED
  BY <1>2, <1>4

LEMMA FreeRefIs ==
  ASSUME NEW d, OldForm(d), NEW acc, Gathered(d, acc), NEW base \in DOMAIN Numbered,
         Len(acc.contexts) <= Len(d.contexts) + Len(d.accounts)
  PROVE  LET ref == FreeName(base, Reserved(d) \cup acc.claimed)
         IN ref \in STRING /\ ref \notin Reserved(d) /\ ref \notin acc.claimed
<1> DEFINE k == Len(acc.contexts)
           j == Len(d.accounts)
           l == Len(d.contexts)
           claims == [n \in 1..k |-> acc.contexts[n].ref]
           refs == [n \in 1..j |-> d.accounts[n].ref]
           C == {claims[n] : n \in 1..k}
           R == {refs[n] : n \in 1..j}
           size == Len(Numbered[base])
<1>1. k \in Nat /\ DOMAIN acc.contexts = 1..k
  BY SequenceIs DEF Gathered
<1>2. j \in Nat /\ DOMAIN d.accounts = 1..j /\ l \in Nat /\ size > l + 2 * j
  BY OldFormIs
<1>3. size \in Nat
  BY NumberedAssumption
<1>4. acc.claimed = C
  BY <1>1 DEF Gathered
<1>5. Reserved(d) = R
  BY <1>2 DEF Reserved
<1>6. Holding(claims, 1..k) /\ Holding(refs, 1..j)
  BY DEF Holding
<1> HIDE DEF claims, refs
<1>7. k <= l + j
  OBVIOUS
<1> HIDE DEF k, j, l, size
<1>8. IsFiniteSet(C) /\ Cardinality(C) \in Nat /\ Cardinality(C) <= k
  BY <1>1, <1>6, FewValues
<1>9. IsFiniteSet(R) /\ Cardinality(R) \in Nat /\ Cardinality(R) <= j
  BY <1>2, <1>6, FewValues
<1> HIDE DEF C, R
<1>10. /\ IsFiniteSet(R \cup C)
       /\ Cardinality(R \cup C) = Cardinality(R) + Cardinality(C) - Cardinality(R \cap C)
  BY <1>8, <1>9, FS_Union
<1>11. Cardinality(R \cap C) \in Nat
  <2>1. IsFiniteSet(R \cap C)
    BY <1>9, FS_Subset
  <2> QED
    BY <2>1, FS_CardinalityType
<1>12. Cardinality(R \cup C) < size
  BY <1>1, <1>2, <1>3, <1>7, <1>8, <1>9, <1>10, <1>11
<1>13. FreeName(base, R \cup C) \in STRING /\ FreeName(base, R \cup C) \notin R \cup C
  BY <1>10, <1>12, FreeNameIs DEF size
<1> QED
  BY <1>4, <1>5, <1>13

\* A name and a reference no context so far has, for a context of an account.
Joinable(d, acc, a, name, ref) ==
  /\ a \in Accounts(d)
  /\ \A n \in DOMAIN acc.contexts : acc.contexts[n].name # name
  /\ ref \in STRING \cup {None}
  /\ ref = None <=> a.ref = None
  /\ ref \in Reserved(d) => ref = a.ref
  /\ ref # None => ref \notin acc.claimed

\* One more context, of that account.
JoinedTo(d, acc, a, name, ref, next) ==
  LET k == Len(acc.contexts)
  IN /\ Gathered(d, next) /\ Len(next.contexts) = k + 1
     /\ DOMAIN next.contexts = 1..(k + 1)
     /\ \A n \in 1..k : next.contexts[n] = acc.contexts[n]
     /\ Carries(d, next.contexts[k + 1], a)
     /\ next.contexts[k + 1].name = name /\ next.contexts[k + 1].ref = ref
     /\ next.claimed = acc.claimed \cup {ref}
     /\ next.names = acc.names \cup {name}

LEMMA JoinedIs ==
  ASSUME NEW d, OldForm(d), NEW acc, Gathered(d, acc), NEW a, NEW name, NEW org, NEW ref,
         Joinable(d, acc, a, name, ref)
  PROVE  JoinedTo(d, acc, a, name, ref, Joined(acc, a, name, org, ref))
<1> DEFINE s == acc.contexts
           k == Len(s)
           c == [a EXCEPT !.name = name, !.org = org, !.ref = ref]
           next == Joined(acc, a, name, org, ref)
           t == next.contexts
<1>1. /\ a \in Accounts(d)
      /\ \A n \in DOMAIN acc.contexts : acc.contexts[n].name # name
      /\ ref \in STRING \cup {None} /\ (ref = None <=> a.ref = None)
      /\ (ref \in Reserved(d) => ref = a.ref) /\ (ref # None => ref \notin acc.claimed)
  BY DEF Joinable
<1>2. /\ t = Append(s, c) /\ next.claimed = acc.claimed \cup {ref}
      /\ next.names = acc.names \cup {name}
  BY DEF Joined
<1>3. k \in Nat /\ DOMAIN s = 1..k /\ IsSequence(s)
  BY SequenceIs DEF Gathered
<1>4. /\ IsSequence(t) /\ Len(t) = k + 1 /\ DOMAIN t = 1..(k + 1)
      /\ \A n \in 1..k : t[n] = s[n]
      /\ t[k + 1] = c
  <2> HIDE DEF s, t, c
  <2> QED
    BY <1>2, <1>3, AppendIs
<1>5. Holding(a, ContextMembers)
  BY <1>1, AccountIs DEF Recorded
<1>6. c.name = name /\ c.org = org /\ c.ref = ref
  BY <1>5 DEF Holding, ContextMembers
<1>7. Carries(d, c, a)
  <2>1. c = [a EXCEPT !.name = c.name, !.org = c.org, !.ref = c.ref]
    BY <1>6
  <2> HIDE DEF c
  <2> QED
    BY <1>1, <1>6, <2>1 DEF Carries
<1>8. /\ acc.claimed = {s[n].ref : n \in 1..k}
      /\ \A n \in 1..k : \E b : Carries(d, s[n], b)
      /\ \A m, n \in 1..k : m # n => /\ s[m].name # s[n].name
                                     /\ s[m].ref # None => s[m].ref # s[n].ref
      /\ \A n \in 1..k : s[n].name # name
  BY <1>1, <1>3 DEF Gathered
<1> HIDE DEF s, c, t, next
<1>9. \A n \in 1..(k + 1) : n \in 1..k \/ n = k + 1
  BY <1>3
<1> HIDE DEF k
<1>10. next.claimed = {t[n].ref : n \in 1..(k + 1)}
  <2>1. \A n \in 1..k : t[n].ref = s[n].ref
    BY <1>4
  <2>2. t[k + 1].ref = ref
    BY <1>4, <1>6
  <2>3. 1..(k + 1) = (1..k) \cup {k + 1}
    BY <1>3
  <2>4. {t[n].ref : n \in 1..(k + 1)} = {t[n].ref : n \in 1..k} \cup {t[k + 1].ref}
    BY <2>3
  <2>5. {t[n].ref : n \in 1..k} = {s[n].ref : n \in 1..k}
    BY <2>1
  <2> QED
    BY <1>2, <1>8, <2>2, <2>4, <2>5
<1>11. \A n \in 1..(k + 1) : \E b : Carries(d, t[n], b)
  BY <1>4, <1>7, <1>8, <1>9
<1>12. ASSUME NEW m \in 1..(k + 1), NEW n \in 1..(k + 1), m # n
       PROVE  t[m].name # t[n].name /\ (t[m].ref # None => t[m].ref # t[n].ref)
  <2>1. CASE m \in 1..k /\ n \in 1..k
    BY <1>4, <1>8, <1>12, <2>1
  <2>2. \A i \in 1..k : s[i].name # name /\ (ref # None => s[i].ref # ref)
    BY <1>1, <1>8
  <2>3. CASE m = k + 1 /\ n \in 1..k
    BY <1>4, <1>6, <2>2, <2>3
  <2>4. CASE m \in 1..k /\ n = k + 1
    BY <1>4, <1>6, <2>2, <2>4
  <2> QED
    BY <1>9, <1>12, <2>1, <2>3, <2>4
<1>13. Gathered(d, next)
  BY <1>4, <1>10, <1>11, <1>12 DEF Gathered, t
<1> QED
  BY <1>2, <1>4, <1>6, <1>7, <1>13 DEF t, s, k, next, JoinedTo

ConvertStages(d, none, k, f) ==
  f = [n \in 0..k |-> IF n = 0 THEN none ELSE Convert(d, f[n - 1], d.contexts[n])]

LEMMA ConvertedUpTo ==
  ASSUME NEW d, NEW none, NEW k \in Nat
  PROVE  \E f : ConvertStages(d, none, k, f)
<1> DEFINE Stage(m) ==
             \E f : f = [n \in 0..m |-> IF n = 0 THEN none ELSE Convert(d, f[n - 1], d.contexts[n])]
           missing == {m \in 0..k : ~ Stage(m)}
<1>1. Stage(0)
  <2> DEFINE f == [n \in 0..0 |-> none]
  <2>1. f = [n \in 0..0 |-> IF n = 0 THEN none ELSE Convert(d, f[n - 1], d.contexts[n])]
    OBVIOUS
  <2> QED
    BY <2>1
<1>2. ASSUME NEW m \in 1..k, Stage(m - 1) PROVE Stage(m)
  <2>1. PICK g : g = [n \in 0..(m - 1) |-> IF n = 0 THEN none ELSE Convert(d, g[n - 1], d.contexts[n])]
    BY <1>2
  <2> DEFINE f == [n \in 0..m |-> IF n = m THEN Convert(d, g[m - 1], d.contexts[m]) ELSE g[n]]
  <2>2. m \in Nat /\ m # 0 /\ \A n \in 0..m : n # m => n \in 0..(m - 1)
    OBVIOUS
  <2>3. ASSUME NEW n \in 0..m
        PROVE  f[n] = IF n = 0 THEN none ELSE Convert(d, f[n - 1], d.contexts[n])
    <3>1. CASE n = m
      <4>1. m - 1 \in 0..m /\ m - 1 # m
        BY <2>2
      <4>2. f[m - 1] = g[m - 1]
        BY <4>1
      <4> QED
        BY <2>2, <3>1, <4>2
    <3>2. CASE n # m
      <4>1. n \in 0..(m - 1) /\ f[n] = g[n]
        BY <2>2, <3>2
      <4>2. g[n] = IF n = 0 THEN none ELSE Convert(d, g[n - 1], d.contexts[n])
        BY <2>1, <4>1
      <4>3. n # 0 => n - 1 \in 0..m /\ n - 1 # m
        BY <2>2, <3>2
      <4>4. n # 0 => f[n - 1] = g[n - 1]
        BY <4>3
      <4> HIDE DEF f
      <4> QED
        BY <4>1, <4>2, <4>4
    <3> QED
      BY <3>1, <3>2
  <2>4. f = [n \in 0..m |-> f[n]]
    OBVIOUS
  <2> HIDE DEF f
  <2>5. f = [n \in 0..m |-> IF n = 0 THEN none ELSE Convert(d, f[n - 1], d.contexts[n])]
    BY <2>3, <2>4
  <2> QED
    BY <2>5
<1> HIDE DEF Stage
<1>3. missing = {}
  <2> SUFFICES ASSUME missing # {} PROVE FALSE
    OBVIOUS
  <2>1. missing \in SUBSET Nat
    OBVIOUS
  <2>2. PICK m \in missing : \A j \in missing : m <= j
    BY <2>1, LeastPosition
  <2>3. m # 0
    BY <1>1
  <2>4. m \in 1..k /\ m - 1 \in 0..k /\ ~(m <= m - 1)
    BY <2>3
  <2>5. Stage(m - 1)
    BY <2>2, <2>4
  <2> QED
    BY <1>2, <2>4, <2>5
<1>4. Stage(k)
  BY <1>3
<1> QED
  BY <1>4 DEF Stage, ConvertStages

Unconverted(d) ==
  [contexts |-> << >>, claimed |-> {}, names |-> {d.contexts[n].name : n \in DOMAIN d.contexts}]

\* The contexts of an old document converted so far: each takes its account's
\* reference if it is the account's owner.
ConvertedSoFar(d, acc, k) ==
  /\ Gathered(d, acc) /\ Len(acc.contexts) = k
  /\ acc.names = Names(d)
  /\ \A n \in 1..k :
       LET a == AccountOf(d, d.contexts[n].account)
       IN /\ Carries(d, acc.contexts[n], a)
          /\ acc.contexts[n].name = d.contexts[n].name
          /\ acc.contexts[n].ref = a.ref <=> (a.ref = None \/ Owner(d, a) = d.contexts[n].name)

LEMMA ConvertIs ==
  ASSUME NEW d, OldForm(d), NEW k \in 1..Len(d.contexts), NEW acc, ConvertedSoFar(d, acc, k - 1)
  PROVE  ConvertedSoFar(d, Convert(d, acc, d.contexts[k]), k)
<1> DEFINE c == d.contexts[k]
           a == AccountOf(d, c.account)
           own == \/ a.ref = None
                  \/ Owner(d, a) = c.name /\ a.ref \notin acc.claimed
           free == FreeName(c.name, Reserved(d) \cup acc.claimed)
           ref == IF own THEN a.ref ELSE free
           next == Convert(d, acc, c)
<1>1. next = Joined(acc, a, c.name, c.org, ref)
  BY DEF Convert
<1>2. /\ SoundAccounts(d) /\ Len(d.contexts) \in Nat /\ DOMAIN d.contexts = 1..Len(d.contexts)
      /\ Len(d.accounts) \in Nat
  BY OldFormIs
<1>3. k \in Nat /\ k - 1 \in Nat /\ k - 1 + 1 = k /\ k \in DOMAIN d.contexts
      /\ \A n \in 1..(k - 1) : n \in DOMAIN d.contexts /\ n # k
  BY <1>2
<1>4. a \in Accounts(d) /\ a.name = c.account /\ Recorded(a)
  BY <1>3, AccountIs
<1>5. /\ Gathered(d, acc) /\ Len(acc.contexts) = k - 1 /\ acc.names = Names(d)
      /\ \A n \in 1..(k - 1) :
           LET b == AccountOf(d, d.contexts[n].account)
           IN /\ Carries(d, acc.contexts[n], b)
              /\ acc.contexts[n].name = d.contexts[n].name
              /\ acc.contexts[n].ref = b.ref <=> (b.ref = None \/ Owner(d, b) = d.contexts[n].name)
  BY DEF ConvertedSoFar
<1>6. DOMAIN acc.contexts = 1..(k - 1)
  BY <1>5, SequenceIs DEF Gathered
<1>7. c.name \in DOMAIN Numbered /\ c.name \in Names(d)
  <2>1. c.name \in Range(ContextNames)
    BY <1>2, <1>3 DEF SoundAccounts
  <2> QED
    BY <1>3, <2>1, NumberedAssumption DEF Names, Nameable
<1>8. \A n \in 1..(k - 1) : d.contexts[n].name # c.name
  BY <1>2, <1>3 DEF SoundAccounts
<1>9. free \in STRING /\ free \notin Reserved(d) /\ free \notin acc.claimed
  <2>1. Len(acc.contexts) <= Len(d.contexts) + Len(d.accounts)
    <3> DEFINE l == Len(d.contexts)
               j == Len(d.accounts)
               x == Len(acc.contexts)
    <3>1. x = k - 1 /\ k \in 1..l /\ l \in Nat /\ j \in Nat
      BY <1>2, <1>5
    <3> HIDE DEF l, j, x
    <3>2. x <= l + j
      BY <3>1
    <3> QED
      BY <3>2 DEF l, j, x
  <2> QED
    BY <1>5, <1>7, <2>1, FreeRefIs
<1>10. None \notin STRING
  BY NoneAssumption
<1>11. a.ref \in STRING \cup {None} /\ a.ref \in Reserved(d)
  BY <1>4 DEF Recorded, Accounts, Reserved, Text
\* Nothing has claimed the reference of an account before its owner does.
<1>12. ASSUME Owner(d, a) = c.name, a.ref # None PROVE a.ref \notin acc.claimed
  <2> SUFFICES ASSUME a.ref \in acc.claimed PROVE FALSE
    OBVIOUS
  <2>1. PICK n \in 1..(k - 1) : acc.contexts[n].ref = a.ref
    BY <1>5, <1>6 DEF Gathered
  <2> DEFINE b == AccountOf(d, d.contexts[n].account)
  <2>2. /\ Carries(d, acc.contexts[n], b)
        /\ acc.contexts[n].ref = b.ref <=> (b.ref = None \/ Owner(d, b) = d.contexts[n].name)
    BY <1>5
  <2>3. b \in Accounts(d) /\ acc.contexts[n].ref = b.ref
    BY <1>11, <2>1, <2>2 DEF Carries
  <2> HIDE DEF b, a, c
  <2>4. b = a
    BY <1>4, <1>12, <2>1, <2>3, AccountIs
  <2>5. Owner(d, a) = d.contexts[n].name
    BY <1>12, <2>2, <2>3, <2>4
  <2> QED
    BY <1>8, <1>12, <2>5
<1> HIDE DEF free, next, a, c
<1>13. own <=> (a.ref = None \/ Owner(d, a) = c.name)
  BY <1>12
<1>14. /\ ref \in STRING \cup {None} /\ (ref = None <=> a.ref = None)
       /\ (ref \in Reserved(d) => ref = a.ref) /\ (ref # None => ref \notin acc.claimed)
       /\ (ref = a.ref <=> own)
  <2>1. own => a.ref = None \/ a.ref \notin acc.claimed
    OBVIOUS
  <2>2. ~own => a.ref # None
    OBVIOUS
  <2> HIDE DEF own
  <2> QED
    BY <1>9, <1>10, <1>11, <2>1, <2>2
<1> HIDE DEF own, ref
<1>15. /\ Gathered(d, next) /\ Len(next.contexts) = k
       /\ \A n \in 1..(k - 1) : next.contexts[n] = acc.contexts[n]
       /\ Carries(d, next.contexts[k], a)
       /\ next.contexts[k].name = c.name /\ next.contexts[k].ref = ref
       /\ next.names = Names(d)
  <2>1. \A n \in DOMAIN acc.contexts : acc.contexts[n].name # c.name
    BY <1>5, <1>6, <1>8
  <2>2. Joinable(d, acc, a, c.name, ref)
    BY <1>4, <1>14, <2>1 DEF Joinable
  <2>3. JoinedTo(d, acc, a, c.name, ref, next)
    BY <1>1, <1>5, <2>2, JoinedIs
  <2> DEFINE l == Len(acc.contexts)
  <2>4. /\ Gathered(d, next) /\ Len(next.contexts) = l + 1
        /\ \A n \in 1..l : next.contexts[n] = acc.contexts[n]
        /\ Carries(d, next.contexts[l + 1], a)
        /\ next.contexts[l + 1].name = c.name /\ next.contexts[l + 1].ref = ref
        /\ next.names = acc.names \cup {c.name}
    BY <2>3 DEF JoinedTo
  <2>5. l = k - 1 /\ l + 1 = k /\ acc.names \cup {c.name} = Names(d)
    <3>1. l = k - 1
      BY <1>5
    <3> QED
      BY <1>3, <1>5, <1>7, <3>1
  <2> HIDE DEF l
  <2> QED
    BY <2>4, <2>5
<1>16. \A n \in 1..k : n \in 1..(k - 1) \/ n = k
  BY <1>3
<1>17. ASSUME NEW n \in 1..k
       PROVE  LET b == AccountOf(d, d.contexts[n].account)
              IN /\ Carries(d, next.contexts[n], b)
                 /\ next.contexts[n].name = d.contexts[n].name
                 /\ next.contexts[n].ref = b.ref
                      <=> (b.ref = None \/ Owner(d, b) = d.contexts[n].name)
  <2>1. CASE n \in 1..(k - 1)
    BY <1>5, <1>15, <2>1
  <2>2. CASE n = k
    BY <1>13, <1>14, <1>15, <2>2 DEF a, c
  <2> QED
    BY <1>16, <2>1, <2>2
<1> QED
  BY <1>15, <1>17 DEF ConvertedSoFar, next, c

LEMMA ConvertedIs ==
  ASSUME NEW d, OldForm(d)
  PROVE  ConvertedSoFar(d, Converted(d), Len(d.contexts))
<1> DEFINE k == Len(d.contexts)
           none == Unconverted(d)
           upTo == CHOOSE f : ConvertStages(d, none, k, f)
           wrong == {n \in 0..k : ~ ConvertedSoFar(d, upTo[n], n)}
<1>1. k \in Nat
  BY OldFormIs
<1>2. Converted(d) = upTo[k]
  BY DEF Converted, ConvertStages, Unconverted
<1> HIDE DEF none, k
<1>3. upTo = [n \in 0..k |-> IF n = 0 THEN none ELSE Convert(d, upTo[n - 1], d.contexts[n])]
  <2>1. ConvertStages(d, none, k, upTo)
    BY <1>1, ConvertedUpTo
  <2> HIDE DEF upTo
  <2> QED
    BY <2>1 DEF ConvertStages
<1> HIDE DEF upTo
<1>4. ConvertedSoFar(d, upTo[0], 0)
  <2>1. upTo[0] = none
    BY <1>1, <1>3
  <2>2. /\ none.contexts = << >> /\ none.claimed = {} /\ none.names = Names(d)
    BY DEF none, Unconverted, Names
  <2>3. Len(<< >>) = 0 /\ DOMAIN << >> = {} /\ IsSequence(<< >>)
    BY DEF IsSequence
  <2>4. 1..0 = {}
    OBVIOUS
  <2>5. Gathered(d, none)
    BY <2>2, <2>3 DEF Gathered
  <2> QED
    BY <2>1, <2>2, <2>3, <2>4, <2>5 DEF ConvertedSoFar
<1>5. ASSUME NEW n \in 1..k, ConvertedSoFar(d, upTo[n - 1], n - 1)
      PROVE  ConvertedSoFar(d, upTo[n], n)
  <2>1. upTo[n] = Convert(d, upTo[n - 1], d.contexts[n])
    <3>1. n \in 0..k /\ n # 0
      BY <1>1
    <3> QED
      BY <1>3, <3>1
  <2> QED
    BY <1>5, <2>1, ConvertIs DEF k
<1>6. wrong = {}
  <2> SUFFICES ASSUME wrong # {} PROVE FALSE
    OBVIOUS
  <2>1. wrong \in SUBSET Nat
    BY <1>1
  <2>2. PICK n \in wrong : \A j \in wrong : n <= j
    BY <2>1, LeastPosition
  <2>3. n # 0
    BY <1>4
  <2>4. n \in 1..k /\ n - 1 \in 0..k /\ ~(n <= n - 1)
    BY <1>1, <2>3
  <2>5. ConvertedSoFar(d, upTo[n - 1], n - 1)
    BY <2>2, <2>4
  <2> QED
    BY <1>5, <2>4, <2>5
<1> QED
  BY <1>1, <1>2, <1>6 DEF k

AdoptStages(d, none, k, f) ==
  f = [n \in 0..k |-> IF n = 0 THEN none ELSE Adopt(d, f[n - 1], d.accounts[n])]

LEMMA AdoptedUpTo ==
  ASSUME NEW d, NEW none, NEW k \in Nat
  PROVE  \E f : AdoptStages(d, none, k, f)
<1> DEFINE Stage(m) ==
             \E f : f = [n \in 0..m |-> IF n = 0 THEN none ELSE Adopt(d, f[n - 1], d.accounts[n])]
           missing == {m \in 0..k : ~ Stage(m)}
<1>1. Stage(0)
  <2> DEFINE f == [n \in 0..0 |-> none]
  <2>1. f = [n \in 0..0 |-> IF n = 0 THEN none ELSE Adopt(d, f[n - 1], d.accounts[n])]
    OBVIOUS
  <2> QED
    BY <2>1
<1>2. ASSUME NEW m \in 1..k, Stage(m - 1) PROVE Stage(m)
  <2>1. PICK g : g = [n \in 0..(m - 1) |-> IF n = 0 THEN none ELSE Adopt(d, g[n - 1], d.accounts[n])]
    BY <1>2
  <2> DEFINE f == [n \in 0..m |-> IF n = m THEN Adopt(d, g[m - 1], d.accounts[m]) ELSE g[n]]
  <2>2. m \in Nat /\ m # 0 /\ \A n \in 0..m : n # m => n \in 0..(m - 1)
    OBVIOUS
  <2>3. ASSUME NEW n \in 0..m
        PROVE  f[n] = IF n = 0 THEN none ELSE Adopt(d, f[n - 1], d.accounts[n])
    <3>1. CASE n = m
      <4>1. m - 1 \in 0..m /\ m - 1 # m
        BY <2>2
      <4>2. f[m - 1] = g[m - 1]
        BY <4>1
      <4> QED
        BY <2>2, <3>1, <4>2
    <3>2. CASE n # m
      <4>1. n \in 0..(m - 1) /\ f[n] = g[n]
        BY <2>2, <3>2
      <4>2. g[n] = IF n = 0 THEN none ELSE Adopt(d, g[n - 1], d.accounts[n])
        BY <2>1, <4>1
      <4>3. n # 0 => n - 1 \in 0..m /\ n - 1 # m
        BY <2>2, <3>2
      <4>4. n # 0 => f[n - 1] = g[n - 1]
        BY <4>3
      <4> HIDE DEF f
      <4> QED
        BY <4>1, <4>2, <4>4
    <3> QED
      BY <3>1, <3>2
  <2>4. f = [n \in 0..m |-> f[n]]
    OBVIOUS
  <2> HIDE DEF f
  <2>5. f = [n \in 0..m |-> IF n = 0 THEN none ELSE Adopt(d, f[n - 1], d.accounts[n])]
    BY <2>3, <2>4
  <2> QED
    BY <2>5
<1> HIDE DEF Stage
<1>3. missing = {}
  <2> SUFFICES ASSUME missing # {} PROVE FALSE
    OBVIOUS
  <2>1. missing \in SUBSET Nat
    OBVIOUS
  <2>2. PICK m \in missing : \A j \in missing : m <= j
    BY <2>1, LeastPosition
  <2>3. m # 0
    BY <1>1
  <2>4. m \in 1..k /\ m - 1 \in 0..k /\ ~(m <= m - 1)
    BY <2>3
  <2>5. Stage(m - 1)
    BY <2>2, <2>4
  <2> QED
    BY <1>2, <2>4, <2>5
<1>4. Stage(k)
  BY <1>3
<1> QED
  BY <1>4 DEF Stage, AdoptStages

\* The accounts adopted so far: those no context used, and after the contexts
\* converted.
AdoptedSoFar(d, acc, k) ==
  /\ Gathered(d, acc)
  /\ acc.names = {acc.contexts[n].name : n \in DOMAIN acc.contexts}
  /\ Len(d.contexts) <= Len(acc.contexts) /\ Len(acc.contexts) <= Len(d.contexts) + k
  /\ \A n \in 1..Len(d.contexts) : acc.contexts[n] = Converted(d).contexts[n]
  /\ \A n \in DOMAIN acc.contexts : \E m \in DOMAIN d.accounts :
       /\ Carries(d, acc.contexts[n], d.accounts[m])
       /\ Users(d, d.accounts[m]) # {} \/ m \in 1..k
  /\ \A n \in 1..k : Users(d, d.accounts[n]) = {} => d.accounts[n].ref \in acc.claimed

\* Nothing has claimed the reference of an account no context used.
LEMMA AdoptIs ==
  ASSUME NEW d, OldForm(d), NEW k \in 1..Len(d.accounts), NEW acc, AdoptedSoFar(d, acc, k - 1)
  PROVE  AdoptedSoFar(d, Adopt(d, acc, d.accounts[k]), k)
<1> DEFINE a == d.accounts[k]
           name == FreeName(a.name, acc.names)
           own == a.ref = None \/ a.ref \notin acc.claimed
           free == FreeName(name, Reserved(d) \cup acc.claimed)
           ref == IF own THEN a.ref ELSE free
           next == Adopt(d, acc, a)
           j == Len(d.accounts)
           l == Len(d.contexts)
           x == Len(acc.contexts)
           NamesOf(s) == {s[n].name : n \in DOMAIN s}
<1>1. next = IF Users(d, a) # {} THEN acc ELSE Joined(acc, a, name, None, ref)
  BY DEF Adopt
<1>2. /\ SoundAccounts(d) /\ l \in Nat /\ DOMAIN d.contexts = 1..l
      /\ j \in Nat /\ DOMAIN d.accounts = 1..j
  BY OldFormIs
<1>3. k \in 1..j
  OBVIOUS
<1>4. /\ Gathered(d, acc) /\ acc.names = NamesOf(acc.contexts)
      /\ l <= x /\ x <= l + (k - 1)
      /\ \A n \in 1..l : acc.contexts[n] = Converted(d).contexts[n]
  BY DEF AdoptedSoFar
<1>5. \A n \in DOMAIN acc.contexts : \E m \in DOMAIN d.accounts :
        /\ Carries(d, acc.contexts[n], d.accounts[m])
        /\ Users(d, d.accounts[m]) # {} \/ m \in 1..(k - 1)
  BY DEF AdoptedSoFar
<1>6. \A n \in 1..(k - 1) : Users(d, d.accounts[n]) = {} => d.accounts[n].ref \in acc.claimed
  BY DEF AdoptedSoFar
<1>7. DOMAIN acc.contexts = 1..x /\ x \in Nat
  BY <1>4, SequenceIs DEF Gathered
<1> HIDE DEF j, l, x
<1>8. k \in Nat /\ k - 1 \in Nat /\ k \in DOMAIN d.accounts
      /\ (\A n \in 1..k : n \in 1..(k - 1) \/ n = k)
      /\ k \notin 1..(k - 1) /\ k \in 1..k /\ 1..(k - 1) \subseteq 1..k
  BY <1>2, <1>3
<1>9. a \in Accounts(d) /\ Recorded(a)
  <2>1. a \in Accounts(d)
    BY <1>8 DEF Accounts
  <2> QED
    BY <2>1, AccountIs
<1>10. CASE Users(d, a) # {}
  <2>1. next = acc
    BY <1>1, <1>10
  <2>2. x <= l + k
    BY <1>2, <1>4, <1>7, <1>8
  <2>3. \A n \in DOMAIN acc.contexts : \E m \in DOMAIN d.accounts :
          /\ Carries(d, acc.contexts[n], d.accounts[m])
          /\ Users(d, d.accounts[m]) # {} \/ m \in 1..k
    BY <1>5, <1>8
  <2>4. \A n \in 1..k : Users(d, d.accounts[n]) = {} => d.accounts[n].ref \in acc.claimed
    BY <1>6, <1>8, <1>10
  <2> HIDE DEF next, a
  <2> QED
    BY <1>4, <2>1, <2>2, <2>3, <2>4 DEF AdoptedSoFar, next, l, x, a
<1>11. CASE Users(d, a) = {}
  <2>1. next = Joined(acc, a, name, None, ref)
    BY <1>1, <1>11
  <2>2. own
    <3> SUFFICES ASSUME a.ref # None, a.ref \in acc.claimed PROVE FALSE
      OBVIOUS
    <3>1. PICK n \in DOMAIN acc.contexts : acc.contexts[n].ref = a.ref
      BY <1>4 DEF Gathered
    <3>2. PICK m \in DOMAIN d.accounts :
            /\ Carries(d, acc.contexts[n], d.accounts[m])
            /\ Users(d, d.accounts[m]) # {} \/ m \in 1..(k - 1)
      BY <1>5
    <3>3. a.ref \in Reserved(d)
      BY <1>8 DEF Reserved
    <3>4. d.accounts[m].ref = a.ref
      BY <3>1, <3>2, <3>3 DEF Carries
    <3>5. m = k
      BY <1>2, <1>8, <3>4 DEF SoundAccounts
    <3> QED
      BY <1>8, <1>11, <3>2, <3>5
  <2>3. ref = a.ref
    BY <2>2
  <2>4. name \notin acc.names
    <3> DEFINE s == acc.contexts
               names == [n \in 1..x |-> s[n].name]
               T == {names[n] : n \in 1..x}
               base == a.name
               size == Len(Numbered[base])
    <3>1. Holding(names, 1..x)
      BY DEF Holding
    <3>2. acc.names = T
      BY <1>4, <1>7
    <3> HIDE DEF names
    <3>3. IsFiniteSet(T) /\ Cardinality(T) \in Nat /\ Cardinality(T) <= x
      BY <1>7, <3>1, FewValues
    <3>4. base \in DOMAIN Numbered /\ size > l + 2 * j
      BY <1>8, <1>11, OldFormIs DEF l, j
    <3>5. size \in Nat
      BY <3>4, NumberedAssumption
    <3> HIDE DEF T, size
    <3>6. Cardinality(T) < size
      BY <1>2, <1>3, <1>4, <1>7, <3>3, <3>4, <3>5
    <3> HIDE DEF base
    <3>7. FreeName(base, T) \notin T
      BY <3>3, <3>4, <3>6, FreeNameIs DEF size
    <3> QED
      BY <3>2, <3>7 DEF base
  <2> HIDE DEF ref, own, name, next, a
  <2>5. \A n \in DOMAIN acc.contexts : acc.contexts[n].name # name
    BY <1>4, <2>4
  <2>6. Joinable(d, acc, a, name, ref)
    <3>1. a.ref # None => a.ref \notin acc.claimed
      BY <2>2 DEF own
    <3>2. a.ref \in STRING \cup {None}
      BY <1>9 DEF Recorded, Text
    <3> QED
      BY <1>9, <2>3, <2>5, <3>1, <3>2 DEF Joinable
  <2>7. JoinedTo(d, acc, a, name, ref, next)
    BY <1>4, <2>1, <2>6, JoinedIs
  <2>8. /\ Gathered(d, next) /\ Len(next.contexts) = x + 1
        /\ DOMAIN next.contexts = 1..(x + 1)
        /\ \A n \in 1..x : next.contexts[n] = acc.contexts[n]
        /\ Carries(d, next.contexts[x + 1], a)
        /\ next.contexts[x + 1].name = name
        /\ next.claimed = acc.claimed \cup {ref}
        /\ next.names = acc.names \cup {name}
    BY <2>7 DEF JoinedTo, x
  <2>9. \A n \in 1..(x + 1) : n \in 1..x \/ n = x + 1
    BY <1>7
  <2>10. next.names = NamesOf(next.contexts)
    <3>1. NamesOf(next.contexts) = {next.contexts[n].name : n \in 1..(x + 1)}
      BY <2>8
    <3>2. 1..(x + 1) = (1..x) \cup {x + 1}
      BY <1>7
    <3>3. NamesOf(acc.contexts) = {acc.contexts[n].name : n \in 1..x}
      BY <1>7
    <3>4. {next.contexts[n].name : n \in 1..(x + 1)}
            = {next.contexts[n].name : n \in 1..x} \cup {next.contexts[x + 1].name}
      BY <3>2
    <3>5. {next.contexts[n].name : n \in 1..x} = {acc.contexts[n].name : n \in 1..x}
      BY <2>8
    <3> QED
      BY <1>4, <2>8, <3>1, <3>3, <3>4, <3>5
  <2>11. l <= x + 1 /\ x + 1 <= l + k
    BY <1>2, <1>4, <1>7, <1>8
  <2>12. \A n \in 1..l : next.contexts[n] = Converted(d).contexts[n]
    <3>1. \A n \in 1..l : n \in 1..x
      BY <1>2, <1>4, <1>7
    <3> QED
      BY <1>4, <2>8, <3>1
  <2>13. ASSUME NEW n \in DOMAIN next.contexts
         PROVE  \E m \in DOMAIN d.accounts :
                  /\ Carries(d, next.contexts[n], d.accounts[m])
                  /\ Users(d, d.accounts[m]) # {} \/ m \in 1..k
    <3>1. CASE n \in 1..x
      BY <1>5, <1>7, <1>8, <2>8, <3>1
    <3>2. CASE n = x + 1
      BY <1>8, <2>8, <3>2 DEF a
    <3> QED
      BY <2>8, <2>9, <3>1, <3>2
  <2>14. \A n \in 1..k : Users(d, d.accounts[n]) = {} => d.accounts[n].ref \in next.claimed
    BY <1>6, <1>8, <2>3, <2>8 DEF a
  <2> QED
    BY <2>8, <2>10, <2>11, <2>12, <2>13, <2>14 DEF AdoptedSoFar, next, l, a
<1> QED
  BY <1>10, <1>11

LEMMA AdoptedIs ==
  ASSUME NEW d, OldForm(d)
  PROVE  AdoptedSoFar(d, Adopted(d, Converted(d)), Len(d.accounts))
<1> DEFINE k == Len(d.accounts)
           l == Len(d.contexts)
           none == Converted(d)
           upTo == CHOOSE f : AdoptStages(d, none, k, f)
           wrong == {n \in 0..k : ~ AdoptedSoFar(d, upTo[n], n)}
<1>1. k \in Nat /\ l \in Nat /\ DOMAIN d.contexts = 1..l /\ DOMAIN d.accounts = 1..k
  BY OldFormIs
<1>2. Adopted(d, none) = upTo[k]
  BY DEF Adopted, AdoptStages
<1>3. ConvertedSoFar(d, none, l)
  BY ConvertedIs
<1> HIDE DEF none, k, l
<1>4. upTo = [n \in 0..k |-> IF n = 0 THEN none ELSE Adopt(d, upTo[n - 1], d.accounts[n])]
  <2>1. AdoptStages(d, none, k, upTo)
    BY <1>1, AdoptedUpTo
  <2> HIDE DEF upTo
  <2> QED
    BY <2>1 DEF AdoptStages
<1> HIDE DEF upTo
<1>5. AdoptedSoFar(d, upTo[0], 0)
  <2>1. upTo[0] = none
    BY <1>1, <1>4
  <2>2. /\ Gathered(d, none) /\ Len(none.contexts) = l /\ none.names = Names(d)
        /\ \A n \in 1..l :
             /\ Carries(d, none.contexts[n], AccountOf(d, d.contexts[n].account))
             /\ none.contexts[n].name = d.contexts[n].name
    BY <1>3 DEF ConvertedSoFar
  <2>3. DOMAIN none.contexts = 1..l
    BY <2>2, SequenceIs DEF Gathered
  <2>4. none.names = {none.contexts[n].name : n \in DOMAIN none.contexts}
    BY <1>1, <2>2, <2>3 DEF Names
  <2>5. l <= l /\ l <= l + 0 /\ 1..0 = {}
    BY <1>1
  <2>6. ASSUME NEW n \in DOMAIN none.contexts
        PROVE  \E m \in DOMAIN d.accounts :
                 /\ Carries(d, none.contexts[n], d.accounts[m])
                 /\ Users(d, d.accounts[m]) # {} \/ m \in 1..0
    <3> DEFINE a == AccountOf(d, d.contexts[n].account)
    <3>1. n \in DOMAIN d.contexts /\ Carries(d, none.contexts[n], a)
      BY <1>1, <2>2, <2>3
    <3>2. a \in Accounts(d) /\ a.name = d.contexts[n].account
      BY <3>1, AccountIs
    <3>3. PICK m \in DOMAIN d.accounts : a = d.accounts[m]
      BY <3>2 DEF Accounts
    <3> HIDE DEF a
    <3>4. d.contexts[n].name \in Users(d, a)
      BY <3>1, <3>2 DEF Users
    <3> QED
      BY <3>1, <3>3, <3>4
  <2> QED
    BY <2>1, <2>2, <2>4, <2>5, <2>6 DEF AdoptedSoFar, none, l
<1>6. ASSUME NEW n \in 1..k, AdoptedSoFar(d, upTo[n - 1], n - 1)
      PROVE  AdoptedSoFar(d, upTo[n], n)
  <2>1. upTo[n] = Adopt(d, upTo[n - 1], d.accounts[n])
    <3>1. n \in 0..k /\ n # 0
      BY <1>1
    <3> QED
      BY <1>4, <3>1
  <2> QED
    BY <1>6, <2>1, AdoptIs DEF k
<1>7. wrong = {}
  <2> SUFFICES ASSUME wrong # {} PROVE FALSE
    OBVIOUS
  <2>1. wrong \in SUBSET Nat
    BY <1>1
  <2>2. PICK n \in wrong : \A j \in wrong : n <= j
    BY <2>1, LeastPosition
  <2>3. n # 0
    BY <1>5
  <2>4. n \in 1..k /\ n - 1 \in 0..k /\ ~(n <= n - 1)
    BY <1>1, <2>3
  <2>5. AdoptedSoFar(d, upTo[n - 1], n - 1)
    BY <2>2, <2>4
  <2> QED
    BY <1>6, <2>4, <2>5
<1> QED
  BY <1>1, <1>2, <1>7 DEF k, none

\* A login is pinned to a direct product, or to none.
LEMMA LoginNamespaceIs ==
  ASSUME NEW c
  PROVE  \/ LoginNamespace(c) = None
         \/ /\ LoginNamespace(c) \in DOMAIN c.products
            /\ Direct(c.products[LoginNamespace(c)])
<1> DEFINE direct == {n \in DOMAIN NamespaceOrder :
                   /\ NamespaceOrder[n] \in DOMAIN c.products
                   /\ Direct(c.products[NamespaceOrder[n]])}
           first == CHOOSE n \in direct : \A m \in direct : n <= m
           pinned == c.login \in DOMAIN c.products /\ Direct(c.products[c.login])
<1>1. LoginNamespace(c) =
        IF pinned THEN c.login ELSE IF direct = {} THEN None ELSE NamespaceOrder[first]
  BY DEF LoginNamespace
<1>2. ASSUME direct # {} PROVE first \in direct
  <2>1. direct \subseteq Nat
    <3>1. DOMAIN NamespaceOrder = 1..Len(NamespaceOrder) /\ Len(NamespaceOrder) \in Nat
      BY InputsAssumption, SequenceIs
    <3> QED
      BY <3>1
  <2> HIDE DEF direct
  <2>2. \E n \in direct : \A m \in direct : n <= m
    BY <1>2, <2>1, LeastPosition
  <2> QED
    BY <2>2
<1>3. \A n \in direct : NamespaceOrder[n] \in DOMAIN c.products /\ Direct(c.products[NamespaceOrder[n]])
  OBVIOUS
<1> HIDE DEF direct, first
<1> QED
  BY <1>1, <1>2, <1>3

\* An account that is legal makes a context that is, its login pinned.
LEMMA ValidFrozen ==
  ASSUME NEW c, Recorded(c), ValidAccount(c)
  PROVE  ValidContext(FreezeContext(c))
<1> DEFINE e == FreezeContext(c)
<1>1. CASE c.login # None \/ c.kind = "client-credentials" \/ c.synthetic
  <2>1. e = c /\ ~(c.login = None /\ c.kind # "client-credentials")
    BY <1>1 DEF FreezeContext, Recorded
  <2> QED
    BY <2>1 DEF ValidContext
<1>2. CASE ~(c.login # None \/ c.kind = "client-credentials" \/ c.synthetic)
  <2>1. e = [c EXCEPT !.login = LoginNamespace(c)]
    BY <1>2 DEF FreezeContext
  <2>2. LoginNamespace(e) = LoginNamespace(c)
    BY FrozenAlike DEF Recorded, Alike
  <2> HIDE DEF e
  <2>3. /\ e.kind = c.kind /\ e.type = c.type
        /\ e.issuer = c.issuer /\ e.issuerID = c.issuerID /\ e.client = c.client
        /\ e.provider = c.provider /\ e.narrowing = c.narrowing /\ e.secret = c.secret
        /\ e.ref = c.ref /\ e.products = c.products /\ e.login = LoginNamespace(c)
    BY <2>1 DEF Recorded, Holding, ContextMembers
  <2>4. ValidAuth(e)
    BY <2>3 DEF ValidAccount, ValidAuth, ValidIssuerID
  <2>5. ValidDerivation(e)
    BY <2>3 DEF ValidAccount, ValidDerivation, Derivation
  <2>6. e.login # None => e.login \in DOMAIN e.products /\ Direct(e.products[e.login])
    BY <2>3, LoginNamespaceIs
  <2>7. ValidAccount(e)
    BY <2>3, <2>4, <2>5, <2>6 DEF ValidAccount
  <2>8. e.login = None => LoginNamespace(e) = None
    BY <2>2, <2>3
  <2> QED
    BY <2>7, <2>8 DEF ValidContext, e
<1> QED
  BY <1>1, <1>2

\* A context that carries an account is what a command may record, and where it
\* has the account's reference it has its sessions.
LEMMA CarriedIs ==
  ASSUME NEW d, OldForm(d), NEW c, NEW a, Carries(d, c, a)
  PROVE  Recorded(c) /\ ValidAccount(c) /\ (c.ref = a.ref => Pairs(c) = Pairs(a))
<1>1. Recorded(a) /\ ValidAccount(a)
  BY AccountIs DEF Carries
<1>2. /\ c = [a EXCEPT !.name = c.name, !.org = c.org, !.ref = c.ref]
      /\ c.ref \in STRING \cup {None} /\ (c.ref = None <=> a.ref = None)
  BY DEF Carries
<1>3. Holding(a, ContextMembers)
  BY <1>1 DEF Recorded
<1>4. /\ Holding(c, ContextMembers) /\ c.synthetic = a.synthetic
      /\ c.kind = a.kind /\ c.type = a.type
      /\ c.issuer = a.issuer /\ c.issuerID = a.issuerID /\ c.client = a.client
      /\ c.provider = a.provider /\ c.narrowing = a.narrowing /\ c.secret = a.secret
      /\ c.products = a.products /\ c.login = a.login
  BY <1>2, <1>3 DEF Holding, ContextMembers
<1>5. Recorded(c)
  BY <1>1, <1>2, <1>4 DEF Recorded, Text
<1>6. ValidAuth(c)
  BY <1>1, <1>2, <1>4 DEF ValidAccount, ValidAuth, ValidIssuerID
<1>7. ValidDerivation(c)
  BY <1>1, <1>4 DEF ValidAccount, ValidDerivation, Derivation
<1>8. ValidAccount(c)
  BY <1>1, <1>4, <1>6, <1>7 DEF ValidAccount
<1>9. ASSUME c.ref = a.ref PROVE Pairs(c) = Pairs(a)
  <2>1. Alike(a, c)
    BY <1>4, <1>9, SameLogin DEF Alike
  <2> QED
    BY <2>1, AlikeSessions DEF Pairs
<1> QED
  BY <1>5, <1>8, <1>9

\* The contexts an old document is migrated to, as they are read.
LEMMA MigrateIs ==
  ASSUME NEW d, OldForm(d)
  PROVE  LET s == Adopted(d, Converted(d)).contexts
             r == Migrate(d).contexts
         IN /\ IsSequence(s) /\ IsSequence(r) /\ DOMAIN r = DOMAIN s
            /\ \A n \in DOMAIN s : /\ r[n] = FreezeContext(s[n]) /\ Recorded(r[n])
                                   /\ ValidContext(r[n])
                                   /\ r[n].name = s[n].name /\ r[n].ref = s[n].ref
                                   /\ Pairs(r[n]) = Pairs(s[n])
            /\ Migrate(d).default = d.default
            /\ {"contexts", "default"} \subseteq DOMAIN Migrate(d)
<1> DEFINE s == Adopted(d, Converted(d)).contexts
           m == [version |-> Current, contexts |-> s, default |-> d.default]
           r == Migrate(d).contexts
<1>1. AdoptedSoFar(d, Adopted(d, Converted(d)), Len(d.accounts))
  BY AdoptedIs
<1>2. IsSequence(s) /\ \A n \in DOMAIN s : \E a : Carries(d, s[n], a)
  BY <1>1 DEF AdoptedSoFar, Gathered
<1>3. Migrate(d) = Freeze(m)
  BY DEF Migrate
<1> HIDE DEF s
<1>4. Migrate(d) = [m EXCEPT !.contexts = [n \in DOMAIN s |-> FreezeContext(s[n])]]
  BY <1>3 DEF Freeze
<1>5. /\ r = [n \in DOMAIN s |-> FreezeContext(s[n])]
      /\ Migrate(d).default = d.default
      /\ DOMAIN Migrate(d) = {"version", "contexts", "default"}
  BY <1>4
<1>6. Len(s) \in Nat /\ DOMAIN s = 1..Len(s)
  BY <1>2, SequenceIs
<1>7. IsSequence(r) /\ DOMAIN r = DOMAIN s
  <2>1. Holding(r, 1..Len(s))
    BY <1>5, <1>6 DEF Holding
  <2> HIDE DEF r
  <2> QED
    BY <1>6, <2>1, SequenceOf
<1>8. ASSUME NEW n \in DOMAIN s
      PROVE  /\ r[n] = FreezeContext(s[n]) /\ Recorded(r[n]) /\ ValidContext(r[n])
             /\ r[n].name = s[n].name /\ r[n].ref = s[n].ref
             /\ Pairs(r[n]) = Pairs(s[n])
  <2>1. r[n] = FreezeContext(s[n])
    BY <1>5
  <2>2. Recorded(s[n]) /\ ValidAccount(s[n])
    BY <1>2, CarriedIs
  <2> HIDE DEF r
  <2> QED
    BY <2>1, <2>2, FrozenIs, ValidFrozen
<1> HIDE DEF r, m
<1> QED
  BY <1>2, <1>5, <1>7, <1>8 DEF s, r

\* What an old document is migrated to is sound.
LEMMA MigrateSound ==
  ASSUME NEW d, OldForm(d)
  PROVE  Sound(Migrate(d))
<1> DEFINE s == Adopted(d, Converted(d)).contexts
           r == Migrate(d).contexts
           l == Len(d.contexts)
<1>1. /\ IsSequence(s) /\ IsSequence(r) /\ DOMAIN r = DOMAIN s
      /\ \A n \in DOMAIN s : /\ Recorded(r[n]) /\ ValidContext(r[n])
                             /\ r[n].name = s[n].name /\ r[n].ref = s[n].ref
      /\ Migrate(d).default = d.default
      /\ {"contexts", "default"} \subseteq DOMAIN Migrate(d)
  BY MigrateIs
<1>2. AdoptedSoFar(d, Adopted(d, Converted(d)), Len(d.accounts))
  BY AdoptedIs
<1>3. \A m, n \in DOMAIN s : m # n => /\ s[m].name # s[n].name
                                      /\ s[m].ref # None => s[m].ref # s[n].ref
  BY <1>2 DEF AdoptedSoFar, Gathered
<1>4. l <= Len(s) /\ \A n \in 1..l : s[n] = Converted(d).contexts[n]
  BY <1>2 DEF AdoptedSoFar
<1>5. \A n \in 1..l : Converted(d).contexts[n].name = d.contexts[n].name
  BY ConvertedIs DEF ConvertedSoFar
<1>6. SoundAccounts(d) /\ l \in Nat /\ DOMAIN d.contexts = 1..l
  BY OldFormIs
<1>7. Names(Migrate(d)) \subseteq Nameable
  <2> DEFINE all == {Names(Read(e)) : e \in Documents}
             others == Range(ContextNames) \cup Range(AssignedNames)
                         \cup (UNION {{file[n].name : n \in DOMAIN file} : file \in Files})
  <2>1. Names(Migrate(d)) \in all
    BY OldFormIs DEF OldForm
  <2>2. Nameable = others \cup (UNION all)
    BY DEF Nameable
  <2> HIDE DEF all, others
  <2>3. \A name \in Names(Migrate(d)) : name \in UNION all
    BY <2>1
  <2> QED
    BY <2>2, <2>3
<1>8. \A n \in DOMAIN r : r[n].name \in Names(Migrate(d))
  BY DEF Names
<1>9. d.default # None => d.default \in Names(Migrate(d))
  <2> SUFFICES ASSUME d.default # None PROVE d.default \in Names(Migrate(d))
    OBVIOUS
  <2>1. PICK n \in 1..l : d.default = d.contexts[n].name
    BY <1>6 DEF SoundAccounts, Names
  <2>2. n \in DOMAIN s
    <3>1. DOMAIN s = 1..Len(s) /\ Len(s) \in Nat
      BY <1>1, SequenceIs
    <3> HIDE DEF s, l
    <3> QED
      BY <1>4, <1>6, <3>1
  <2>3. r[n].name = d.default
    BY <1>1, <1>4, <1>5, <2>1, <2>2
  <2> HIDE DEF r
  <2>4. r[n].name \in Names(Migrate(d))
    BY <1>1, <1>8, <2>2
  <2> QED
    BY <2>3, <2>4
<1> HIDE DEF s
<1>10. Shaped(Migrate(d))
  BY <1>1, <1>7, <1>8 DEF Shaped
<1>11. ValidDocument(Migrate(d))
  BY <1>1, <1>3, <1>9 DEF ValidDocument
<1> QED
  BY <1>10, <1>11 DEF Sound

\* The selected context keeps the sessions it had, and every account's sessions
\* have a context that reaches them.
LEMMA AccountReached ==
  ASSUME NEW d, OldForm(d), NEW a \in Accounts(d), a.ref # None
  PROVE  Pairs(a) \subseteq SessionIDs(Migrate(d))
<1> DEFINE acc == Adopted(d, Converted(d))
           s == acc.contexts
           r == Migrate(d).contexts
           l == Len(d.contexts)
           k == Len(d.accounts)
<1>1. AdoptedSoFar(d, acc, k)
  BY AdoptedIs
<1>2. /\ acc.claimed = {s[n].ref : n \in DOMAIN s} /\ IsSequence(s)
      /\ \A n \in DOMAIN s : \E b : Carries(d, s[n], b)
  BY <1>1 DEF AdoptedSoFar, Gathered
<1>3. \A n \in 1..k : Users(d, d.accounts[n]) = {} => d.accounts[n].ref \in acc.claimed
  BY <1>1 DEF AdoptedSoFar
<1>4. l <= Len(s) /\ \A n \in 1..l : s[n] = Converted(d).contexts[n]
  BY <1>1 DEF AdoptedSoFar
<1>5. \A n \in 1..l :
        /\ Converted(d).contexts[n].name = d.contexts[n].name
        /\ Converted(d).contexts[n].ref = AccountOf(d, d.contexts[n].account).ref
             <=> \/ AccountOf(d, d.contexts[n].account).ref = None
                 \/ Owner(d, AccountOf(d, d.contexts[n].account)) = d.contexts[n].name
  BY ConvertedIs DEF ConvertedSoFar
<1>6. /\ SoundAccounts(d) /\ l \in Nat /\ DOMAIN d.contexts = 1..l
      /\ k \in Nat /\ DOMAIN d.accounts = 1..k
  BY OldFormIs
<1>7. PICK i \in DOMAIN d.accounts : a = d.accounts[i]
  BY DEF Accounts
<1>8. AccountOf(d, a.name) = a
  BY AccountIs
<1>9. a.ref \in acc.claimed
  <2>1. CASE Users(d, a) = {}
    <3> HIDE DEF acc, k
    <3> QED
      BY <1>3, <1>6, <1>7, <2>1
  <2>2. CASE Users(d, a) # {}
    <3> DEFINE users == Users(d, a)
    <3>1. users = {d.contexts[n].name : n \in {m \in DOMAIN d.contexts : d.contexts[m].account = a.name}}
      BY DEF Users
    <3>2. users \subseteq Range(ContextNames)
      BY <1>6, <3>1 DEF SoundAccounts
    <3>3. FirstByName(users) \in users
      <4> DEFINE S == {n \in DOMAIN ContextNames : ContextNames[n] \in users}
                 first == CHOOSE n \in DOMAIN ContextNames :
                            /\ ContextNames[n] \in users
                            /\ \A m \in 1..(n - 1) : ContextNames[m] \notin users
      <4>1. DOMAIN ContextNames = 1..Len(ContextNames) /\ Len(ContextNames) \in Nat
        BY InputsAssumption, SequenceIs
      <4>2. S # {} /\ S \in SUBSET Nat
        BY <2>2, <3>2, <4>1 DEF Range
      <4>3. PICK n \in S : \A m \in S : n <= m
        BY <4>2, LeastPosition
      <4>4. n \in DOMAIN ContextNames /\ ContextNames[n] \in users
        OBVIOUS
      <4>5. ASSUME NEW m \in 1..(n - 1) PROVE ContextNames[m] \notin users
        <5>1. m \in DOMAIN ContextNames /\ ~(n <= m)
          BY <4>1, <4>4
        <5> QED
          BY <4>3, <5>1
      <4>6. first \in DOMAIN ContextNames /\ ContextNames[first] \in users
        BY <4>4, <4>5
      <4>7. FirstByName(users) = ContextNames[first]
        BY DEF FirstByName
      <4> HIDE DEF first
      <4> QED
        BY <4>6, <4>7
    <3>4. Owner(d, a) \in users
      BY <3>3 DEF Owner
    <3> HIDE DEF users
    <3>5. PICK n \in DOMAIN d.contexts : d.contexts[n].account = a.name /\ Owner(d, a) = d.contexts[n].name
      BY <3>1, <3>4
    <3>6. Converted(d).contexts[n].ref = a.ref
      BY <1>5, <1>6, <1>8, <3>5
    <3>7. n \in DOMAIN s
      <4>1. DOMAIN s = 1..Len(s) /\ Len(s) \in Nat
        BY <1>2, SequenceIs
      <4> HIDE DEF s, l
      <4> QED
        BY <1>4, <1>6, <4>1
    <3>8. s[n].ref = a.ref
      BY <1>4, <1>6, <3>6
    <3> HIDE DEF s, acc
    <3> QED
      BY <1>2, <3>7, <3>8
  <2> QED
    BY <2>1, <2>2
<1>10. PICK n \in DOMAIN s : s[n].ref = a.ref
  BY <1>2, <1>9
<1>11. PICK b : Carries(d, s[n], b)
  BY <1>2
<1>12. b = a
  <2>1. a.ref \in Reserved(d)
    BY <1>7 DEF Reserved
  <2> HIDE DEF s, acc
  <2>2. b \in Accounts(d) /\ s[n].ref = b.ref
    BY <1>10, <1>11, <2>1 DEF Carries
  <2> QED
    BY <1>10, <2>2, AccountIs
<1>13. Pairs(s[n]) = Pairs(a)
  BY <1>10, <1>11, <1>12, CarriedIs
<1>14. DOMAIN r = DOMAIN s /\ Pairs(r[n]) = Pairs(s[n])
  BY MigrateIs
<1>15. r[n] \in Contexts(Migrate(d))
  BY <1>14 DEF Contexts
<1> HIDE DEF r, s
<1>16. Pairs(r[n]) \subseteq SessionIDs(Migrate(d))
  BY <1>15, SessionIDsAre
<1> QED
  BY <1>13, <1>14, <1>16

\* What is written is read as it was written, and what is given is sound.
LEMMA LoadedSound ==
  ASSUME DiskSound, Writable
  PROVE  /\ Sound(Loaded) /\ Shaped(Loaded) /\ Apart(Loaded)
         /\ Readable /\ disk.version # LegacyVersion
<1>1. disk.version \in {0, Current} \cup AccountsVersions
  BY DEF Writable
<1>2. CASE disk.version \in {0, Current}
  <2>1. Sound(disk)
    BY <1>2, DocumentsAssumption DEF DiskSound
  <2>2. Loaded = disk
    BY <1>2 DEF Loaded, Read, AccountsVersions, Current
  <2> QED
    BY <1>1, <1>2, <2>1, <2>2, ValidIsApart DEF Sound, Readable, Current, LegacyVersion
<1>3. CASE disk.version \in AccountsVersions
  <2>1. OldForm(disk)
    BY <1>3 DEF DiskSound, OldForm, Current, AccountsVersions
  <2>2. Loaded = Migrate(disk)
    BY <1>3 DEF Loaded, Read
  <2> QED
    BY <1>1, <1>3, <2>1, <2>2, MigrateSound, ValidIsApart
       DEF Sound, Readable, Current, LegacyVersion, AccountsVersions
<1> QED
  BY <1>1, <1>2, <1>3

----------------------------------------------------------------------------
(* How a record is reached, and under which reference.                      *)

AccessMembers ==
  {"strategy", "key", "issuer", "issuerID", "client", "audience", "scopes", "resource", "ref"}

\* A product's own session is not the login's.
LEMMA RefsApart ==
  ASSUME NEW c, c.ref \in STRING \cup {None}, NEW ns \in DOMAIN Published,
         NEW key \in {Key(ns), GatewayKey(ns)}
  PROVE  ProductSessionRef(c, key) # LoginRef(c)
<1>1. ns \in STRING
  BY InputsAssumption
<1>2. ns \in Words /\ c.ref \in Words /\ "gateway" \in Words
  BY <1>1 DEF Words
<1>3. <<c.ref>> \in Seq(Words) /\ Len(<<c.ref>>) = 1
  BY <1>2
<1>4. key \in Seq(Words) /\ (Len(key) = 1 \/ Len(key) = 2)
  <2>1. <<ns>> \in Seq(Words) /\ Len(<<ns>>) = 1
    BY <1>2
  <2>2. <<ns, "gateway">> \in Seq(Words) /\ Len(<<ns, "gateway">>) = 2
    BY <1>2
  <2>3. CASE key = Key(ns)
    BY <2>1, <2>3 DEF Key
  <2>4. CASE key = GatewayKey(ns)
    BY <2>2, <2>4 DEF GatewayKey
  <2> QED
    BY <2>3, <2>4
<1> DEFINE own == ProductSessionRef(c, key)
           login == LoginRef(c)
<1>5. Len(own) = 2 \/ Len(own) = 3
  <2>1. Len(own) = 1 + Len(key)
    BY <1>3, <1>4 DEF ProductSessionRef
  <2> HIDE DEF own
  <2>2. CASE Len(key) = 1
    BY <2>1, <2>2
  <2>3. CASE Len(key) = 2
    BY <2>1, <2>3
  <2> QED
    BY <2>2, <2>3, <1>4
<1>6. Len(login) = 1
  BY <1>3 DEF LoginRef
<1> HIDE DEF own, login
<1>7. own # login
  BY <1>5, <1>6
<1> QED
  BY <1>7 DEF own, login

LEMMA ReachedIs ==
  ASSUME NEW c, NEW strategy, NEW key, NEW record, NEW ref
  PROVE  LET a == Reached(c, strategy, key, record, ref)
         IN /\ Holding(a, AccessMembers) /\ a.strategy = strategy /\ a.issuer = c.issuer
            /\ a.client = c.client /\ a.scopes = record.scopes /\ a.ref = ref
            /\ a.resource = IF Derivation(c) = "token-resource" THEN record.audience ELSE None
BY DEF Reached, Holding, AccessMembers

LEMMA AtLoginIssuerIs ==
  ASSUME NEW c, NEW a, Holding(a, AccessMembers)
  PROVE  LET b == AtLoginIssuer(c, a)
         IN /\ b.strategy = a.strategy /\ b.issuer = a.issuer /\ b.client = a.client
            /\ b.scopes = a.scopes /\ b.ref = a.ref /\ b.resource = a.resource
            /\ Holding(b, AccessMembers) /\ Binding(b) = Binding(a)
<1> DEFINE id == IF a.issuer # None /\ a.issuer = c.issuer THEN c.issuerID ELSE None
           b == AtLoginIssuer(c, a)
<1>1. b = [a EXCEPT !.issuerID = id]
  BY DEF AtLoginIssuer
<1> HIDE DEF id, b
<1>2. /\ b.strategy = a.strategy /\ b.issuer = a.issuer /\ b.client = a.client
      /\ b.scopes = a.scopes /\ b.ref = a.ref /\ b.resource = a.resource
      /\ Holding(b, AccessMembers)
  BY <1>1 DEF Holding, AccessMembers
<1>3. Binding(b) = Binding(a)
  BY <1>2 DEF Binding
<1> QED
  BY <1>2, <1>3 DEF b

LEMMA LoginAccessIs ==
  ASSUME NEW c
  PROVE  LET a == LoginAccess(c)
             ns == LoginNamespace(c)
         IN /\ Holding(a, AccessMembers) /\ a.strategy = "direct" /\ a.issuer = c.issuer
            /\ a.client = c.client /\ a.ref = LoginRef(c)
            /\ ns # None =>
                 /\ a.scopes = c.products[ns].scopes
                 /\ a.resource = IF Derivation(c) = "token-resource"
                                 THEN c.products[ns].audience ELSE None
<1> DEFINE ns == LoginNamespace(c)
           record == IF ns = None THEN [audience |-> None, scopes |-> {}] ELSE c.products[ns]
           access == Reached(c, "direct", Key(ns), record, LoginRef(c))
           bound == IF ns = None THEN [access EXCEPT !.resource = None] ELSE access
           a == LoginAccess(c)
<1>1. a = AtLoginIssuer(c, bound)
  BY DEF LoginAccess
<1>2. /\ Holding(access, AccessMembers) /\ access.strategy = "direct" /\ access.issuer = c.issuer
      /\ access.client = c.client /\ access.scopes = record.scopes /\ access.ref = LoginRef(c)
      /\ access.resource = IF Derivation(c) = "token-resource" THEN record.audience ELSE None
  BY ReachedIs
<1> HIDE DEF access
<1>3. /\ Holding(bound, AccessMembers) /\ bound.strategy = "direct" /\ bound.issuer = c.issuer
      /\ bound.client = c.client /\ bound.ref = LoginRef(c)
      /\ ns # None => bound = access
  BY <1>2 DEF Holding, AccessMembers
<1> HIDE DEF bound, a
<1>4. /\ a.strategy = bound.strategy /\ a.issuer = bound.issuer /\ a.client = bound.client
      /\ a.scopes = bound.scopes /\ a.ref = bound.ref /\ a.resource = bound.resource
      /\ Holding(a, AccessMembers)
  BY <1>1, <1>3, AtLoginIssuerIs
<1>5. ns # None => record = c.products[ns]
  OBVIOUS
<1> HIDE DEF record, ns
<1>6. ns # None => /\ a.scopes = c.products[ns].scopes
                   /\ a.resource = IF Derivation(c) = "token-resource"
                                   THEN c.products[ns].audience ELSE None
  BY <1>2, <1>3, <1>4, <1>5
<1> QED
  BY <1>3, <1>4, <1>6 DEF a, ns

\* Whether it is the login's session a record is reached with, it is bound as
\* the login's is; otherwise it is a session beside it.
AsLogin(c, a) ==
  a.strategy = "direct" /\ a.ref = LoginRef(c) /\ Binding(a) = Binding(LoginAccess(c))

LEMMA OfLoginIs ==
  ASSUME NEW c, NEW a, Holding(a, AccessMembers), a.issuer = c.issuer, a.client = c.client,
         NEW pinned, pinned => SharesLogin(c, a)
  PROVE  LET b == OfLogin(c, a, pinned)
         IN /\ Holding(b, AccessMembers)
            /\ AsLogin(c, b) \/ (b.strategy = "sibling" /\ b.ref = a.ref)
<1> DEFINE b == OfLogin(c, a, pinned)
<1>1. CASE pinned \/ SharesLogin(c, a)
  <2>1. b = [a EXCEPT !.strategy = "direct", !.ref = LoginRef(c)]
    BY <1>1 DEF OfLogin
  <2> HIDE DEF b
  <2>2. /\ Holding(b, AccessMembers) /\ b.strategy = "direct" /\ b.ref = LoginRef(c)
        /\ b.issuer = c.issuer /\ b.client = c.client
        /\ b.scopes = a.scopes /\ b.resource = a.resource
    BY <2>1 DEF Holding, AccessMembers
  <2>3. b.scopes = LoginAccess(c).scopes /\ b.resource = LoginAccess(c).resource
    BY <1>1, <2>2 DEF SharesLogin
  <2>4. Binding(b) = Binding(LoginAccess(c))
    BY <2>2, <2>3, LoginAccessIs DEF Binding
  <2> QED
    BY <2>2, <2>4 DEF b, AsLogin
<1>2. CASE ~(pinned \/ SharesLogin(c, a))
  <2>1. b = [a EXCEPT !.strategy = "sibling"]
    BY <1>2 DEF OfLogin
  <2> HIDE DEF b
  <2>2. Holding(b, AccessMembers) /\ b.strategy = "sibling" /\ b.ref = a.ref
    BY <2>1 DEF Holding, AccessMembers
  <2> QED
    BY <2>2 DEF b
<1> QED
  BY <1>1, <1>2

\* A context of a sound document, or one that has no product yet.
Usable(c) ==
  /\ Recorded(c)
  /\ \A ns \in DOMAIN c.products : ~Direct(c.products[ns]) => c.products[ns].grant.kind \in LegalGrants

LEMMA SoundContexts ==
  ASSUME NEW d, Sound(d), NEW c \in Contexts(d)
  PROVE  Usable(c) /\ ValidContext(c) /\ c.name \in Nameable /\ c.name \in Names(d)
<1>1. ValidContext(c)
  BY DEF Sound, ValidDocument, Contexts
<1>2. Recorded(c) /\ c.name \in Nameable /\ c.name \in Names(d)
  BY ShapedContexts DEF Sound
<1>3. \A ns \in DOMAIN c.products : ValidProduct(c.products[ns])
  BY <1>1 DEF ValidContext, ValidAccount
<1> QED
  BY <1>1, <1>2, <1>3 DEF Usable, ValidProduct, ValidGrant, Direct

\* How a record is reached, when a person logs in to its context.
LEMMA AccessIs ==
  ASSUME NEW c, Usable(c), c.kind # "client-credentials", NEW key \in RecordKeys(c)
  PROVE  LET a == Access(c, key)
         IN \/ a.strategy = "exchanged"
            \/ AsLogin(c, a)
            \/ a.strategy \notin {"direct", "exchanged"} /\ a.ref = ProductSessionRef(c, key)
<1> DEFINE a == Access(c, key)
<1>1. PICK ns \in DOMAIN c.products : key \in {Key(ns), GatewayKey(ns)}
  BY DEF RecordKeys
<1>2. key[1] = ns /\ (key = Key(ns) => ~IsGatewayKey(key)) /\ (key = GatewayKey(ns) => IsGatewayKey(key))
  BY <1>1 DEF Key, GatewayKey, IsGatewayKey
<1>3. ns \in STRING /\ ns # None
  BY InputsAssumption, NoneAssumption DEF Usable, Recorded
<1>4. CASE key = GatewayKey(ns)
  <2> DEFINE access == Reached(c, "sibling", key, c.products[ns].gateway, ProductSessionRef(c, key))
             grant == c.products[ns].grant
             g == GatewayAccess(c, ns)
  <2>1. a = AtLoginIssuer(c, g)
    BY <1>2, <1>4 DEF Access
  <2>2. g = IF grant # None /\ grant.kind = "exchange"
            THEN [access EXCEPT !.strategy = "exchanged", !.resource = access.audience, !.ref = None]
            ELSE OfLogin(c, access, FALSE)
    BY <1>4 DEF GatewayAccess
  <2>3. /\ Holding(access, AccessMembers) /\ access.issuer = c.issuer
        /\ access.client = c.client /\ access.ref = ProductSessionRef(c, key)
    BY ReachedIs
  <2> HIDE DEF access, g, a
  <2>4. CASE grant # None /\ grant.kind = "exchange"
    <3>1. Holding(g, AccessMembers) /\ g.strategy = "exchanged"
      BY <2>2, <2>3, <2>4 DEF Holding, AccessMembers
    <3> QED
      BY <2>1, <3>1, AtLoginIssuerIs DEF a
  <2>5. CASE ~(grant # None /\ grant.kind = "exchange")
    <3>1. /\ Holding(g, AccessMembers)
          /\ AsLogin(c, g) \/ (g.strategy = "sibling" /\ g.ref = access.ref)
      BY <2>2, <2>3, <2>5, OfLoginIs
    <3>2. a.strategy = g.strategy /\ a.ref = g.ref /\ Binding(a) = Binding(g)
      BY <2>1, <3>1, AtLoginIssuerIs
    <3> QED
      BY <2>3, <3>1, <3>2 DEF AsLogin, a
  <2> QED
    BY <2>4, <2>5
<1>5. CASE key = Key(ns)
  <2> DEFINE p == c.products[ns]
             access == Reached(c, "direct", Key(ns), p, ProductSessionRef(c, Key(ns)))
             own == ns = LoginNamespace(c)
             g == ProductAccess(c, ns)
  <2>1. a = AtLoginIssuer(c, g)
    BY <1>2, <1>5 DEF Access
  <2>2. g = IF Direct(p) THEN OfLogin(c, access, own)
            ELSE CASE p.grant.kind = "exchange" ->
                        [access EXCEPT !.strategy = "exchanged", !.resource = p.audience, !.ref = None]
                   [] p.grant.kind = "jwt-bearer" ->
                        [access EXCEPT !.strategy = "derived", !.scopes = AssertionScopes(p.grant),
                                       !.resource = p.grant.resource]
                   [] p.grant.kind = "federated" ->
                        [access EXCEPT !.strategy = "federated", !.issuer = p.grant.issuer,
                                       !.client = p.grant.client, !.resource = p.grant.resource]
    BY DEF ProductAccess
  <2>3. /\ Holding(access, AccessMembers) /\ access.issuer = c.issuer
        /\ access.client = c.client /\ access.ref = ProductSessionRef(c, key)
        /\ access.scopes = p.scopes
        /\ access.resource = IF Derivation(c) = "token-resource" THEN p.audience ELSE None
    BY <1>5, ReachedIs
  <2>4. own => SharesLogin(c, access)
    <3>1. own => /\ LoginAccess(c).scopes = p.scopes
                 /\ LoginAccess(c).resource =
                      IF Derivation(c) = "token-resource" THEN p.audience ELSE None
      BY <1>3, LoginAccessIs
    <3> HIDE DEF access, own, p
    <3> QED
      BY <2>3, <3>1 DEF SharesLogin
  <2>5. ~Direct(p) => p.grant.kind \in {"jwt-bearer", "federated", "exchange"}
    BY DEF Usable, LegalGrants
  <2> HIDE DEF access, g, a, p, own
  <2>6. CASE Direct(p)
    <3>1. /\ Holding(g, AccessMembers)
          /\ AsLogin(c, g) \/ (g.strategy = "sibling" /\ g.ref = access.ref)
      BY <2>2, <2>3, <2>4, <2>6, OfLoginIs
    <3>2. a.strategy = g.strategy /\ a.ref = g.ref /\ Binding(a) = Binding(g)
      BY <2>1, <3>1, AtLoginIssuerIs
    <3> QED
      BY <2>3, <3>1, <3>2 DEF AsLogin, a
  <2>7. CASE ~Direct(p)
    <3>1. /\ Holding(g, AccessMembers)
          /\ \/ g.strategy = "exchanged"
             \/ g.strategy \in {"derived", "federated"} /\ g.ref = access.ref
      <4>1. CASE p.grant.kind = "exchange"
        <5>1. g = [access EXCEPT !.strategy = "exchanged", !.resource = p.audience, !.ref = None]
          BY <2>2, <2>7, <4>1
        <5> QED
          BY <2>3, <5>1 DEF Holding, AccessMembers
      <4>2. CASE p.grant.kind = "jwt-bearer"
        <5>1. g = [access EXCEPT !.strategy = "derived", !.scopes = AssertionScopes(p.grant),
                                 !.resource = p.grant.resource]
          BY <2>2, <2>7, <4>2
        <5> QED
          BY <2>3, <5>1 DEF Holding, AccessMembers
      <4>3. CASE p.grant.kind = "federated"
        <5>1. g = [access EXCEPT !.strategy = "federated", !.issuer = p.grant.issuer,
                                 !.client = p.grant.client, !.resource = p.grant.resource]
          BY <2>2, <2>7, <4>3
        <5> QED
          BY <2>3, <5>1 DEF Holding, AccessMembers
      <4> QED
        BY <2>5, <2>7, <4>1, <4>2, <4>3
    <3>2. a.strategy = g.strategy /\ a.ref = g.ref
      BY <2>1, <3>1, AtLoginIssuerIs
    <3> QED
      BY <2>3, <3>1, <3>2 DEF a
  <2> QED
    BY <2>6, <2>7
<1> QED
  BY <1>1, <1>4, <1>5

\* A session a context reaches is the login's, or of one of its records.
LEMMA SessionIs ==
  ASSUME NEW c, Usable(c), NEW a \in SessionsOf(c)
  PROVE  /\ c.kind # "client-credentials" /\ a.ref[1] = c.ref
         /\ \/ a.ref = LoginRef(c) /\ Binding(a) = Binding(LoginAccess(c))
            \/ \E key \in RecordKeys(c) : a = Access(c, key) /\ a.ref = ProductSessionRef(c, key)
<1>1. c.kind # "client-credentials" /\ a \in Accesses(c)
  BY DEF SessionsOf
<1>2. \/ a = LoginAccess(c)
      \/ \E key \in RecordKeys(c) : /\ a = Access(c, key) /\ a.strategy # "exchanged"
                                    /\ a.ref # LoginRef(c)
  BY <1>1 DEF Accesses
<1>3. c.ref \in STRING \cup {None} /\ DOMAIN c.products \subseteq DOMAIN Published
  BY DEF Usable, Recorded, Text
<1>4. CASE a = LoginAccess(c)
  <2>1. a.ref = LoginRef(c)
    BY <1>4, LoginAccessIs
  <2>2. LoginRef(c)[1] = c.ref
    BY <1>3, CommandsAssumption, RefsLead
  <2> QED
    BY <1>1, <1>4, <2>1, <2>2
<1>5. ASSUME NEW key \in RecordKeys(c), a = Access(c, key), a.strategy # "exchanged",
             a.ref # LoginRef(c)
      PROVE  a.ref = ProductSessionRef(c, key) /\ a.ref[1] = c.ref
  <2>1. PICK ns \in DOMAIN c.products : key \in {Key(ns), GatewayKey(ns)}
    BY DEF RecordKeys
  <2>2. a.ref = ProductSessionRef(c, key)
    BY <1>1, <1>5, AccessIs DEF AsLogin
  <2> QED
    BY <1>3, <2>1, <2>2, RefsLead
<1> QED
  BY <1>1, <1>2, <1>4, <1>5

\* A reference is of one record.
LEMMA KeyIs ==
  ASSUME NEW c, c.ref \in STRING \cup {None},
         NEW ns \in DOMAIN Published, NEW key \in {Key(ns), GatewayKey(ns)},
         NEW os \in DOMAIN Published, NEW other \in {Key(os), GatewayKey(os)},
         ProductSessionRef(c, key) = ProductSessionRef(c, other)
  PROVE  key = other
<1>1. ns \in Words /\ os \in Words /\ c.ref \in Words /\ "gateway" \in Words
  BY InputsAssumption DEF Words
<1>2. ASSUME NEW n \in Words
      PROVE  /\ Len(<<c.ref>> \o <<n>>) = 2 /\ (<<c.ref>> \o <<n>>)[2] = n
             /\ Len(<<c.ref>> \o <<n, "gateway">>) = 3 /\ (<<c.ref>> \o <<n, "gateway">>)[2] = n
  <2>1. /\ <<c.ref>> \in Seq(Words) /\ Len(<<c.ref>>) = 1
        /\ <<n>> \in Seq(Words) /\ Len(<<n>>) = 1 /\ <<n>>[1] = n
        /\ <<n, "gateway">> \in Seq(Words) /\ Len(<<n, "gateway">>) = 2
        /\ <<n, "gateway">>[1] = n
    BY <1>1
  <2> QED
    BY <2>1
<1> DEFINE r == ProductSessionRef(c, key)
           t == ProductSessionRef(c, other)
<1>3. \/ key = Key(ns) /\ Len(r) = 2 /\ r[2] = ns
      \/ key = GatewayKey(ns) /\ Len(r) = 3 /\ r[2] = ns
  BY <1>1, <1>2 DEF ProductSessionRef, Key, GatewayKey
<1>4. \/ other = Key(os) /\ Len(t) = 2 /\ t[2] = os
      \/ other = GatewayKey(os) /\ Len(t) = 3 /\ t[2] = os
  BY <1>1, <1>2 DEF ProductSessionRef, Key, GatewayKey
<1>5. r = t
  OBVIOUS
<1> HIDE DEF r, t
<1>6. ns = os
  BY <1>3, <1>4, <1>5
<1> QED
  BY <1>3, <1>4, <1>5, <1>6

\* In a sound document a reference is of one context, for one purpose.
LEMMA RefBinds ==
  ASSUME NEW d, Sound(d), NEW c \in Contexts(d), NEW e \in Contexts(d),
         NEW a \in SessionsOf(c), NEW b \in SessionsOf(e), a.ref = b.ref
  PROVE  c = e /\ Binding(a) = Binding(b)
<1>1. Usable(c) /\ Usable(e) /\ ValidContext(c)
  BY SoundContexts
<1>2. c.kind # "client-credentials" /\ c.ref = e.ref
  BY <1>1, SessionIs
<1>3. c.ref # None
  BY <1>1, <1>2 DEF ValidContext, ValidAccount, ValidAuth, LegalKinds
<1>4. c = e
  BY <1>2, <1>3 DEF Sound, ValidDocument, Contexts
<1>5. c.ref \in STRING \cup {None} /\ DOMAIN c.products \subseteq DOMAIN Published
  BY <1>1 DEF Usable, Recorded, Text
<1>6. \A key \in RecordKeys(c) : \E ns \in DOMAIN Published : key \in {Key(ns), GatewayKey(ns)}
  BY <1>5 DEF RecordKeys
<1>7. \/ a.ref = LoginRef(c) /\ Binding(a) = Binding(LoginAccess(c))
      \/ \E key \in RecordKeys(c) : a = Access(c, key) /\ a.ref = ProductSessionRef(c, key)
  BY <1>1, SessionIs
<1>8. \/ b.ref = LoginRef(c) /\ Binding(b) = Binding(LoginAccess(c))
      \/ \E key \in RecordKeys(c) : b = Access(c, key) /\ b.ref = ProductSessionRef(c, key)
  BY <1>1, <1>4, SessionIs
<1>9. \A key \in RecordKeys(c) : ProductSessionRef(c, key) # LoginRef(c)
  BY <1>5, <1>6, RefsApart
<1>10. \A key, other \in RecordKeys(c) :
         ProductSessionRef(c, key) = ProductSessionRef(c, other) => key = other
  BY <1>5, <1>6, KeyIs
<1> QED
  BY <1>4, <1>7, <1>8, <1>9, <1>10

----------------------------------------------------------------------------
(* What every command keeps.                                                *)

\* The stored sessions are reached.
Held == Readable => Reaches(sessions, strays, Loaded)

\* The sessions of a context are stored as they were.
StoredStill(c) ==
  \A a \in SessionsOf(c) : a.ref \in DOMAIN sessions =>
    a.ref \in DOMAIN sessions' /\ sessions'[a.ref] = sessions[a.ref]

\* A document that has every context but those named, and selects what it did
\* unless that is named.
Leaves(next, names) ==
  /\ \A c \in Contexts(Loaded) : c.name \notin names => c \in Contexts(next)
  /\ Loaded.default \notin names => next.default \in {Loaded.default} \cup names

\* The sessions stored are reached still, a document that could be written
\* still can, and what is not named is as it was.
Stays == DiskSound' /\ Held' /\ (Writable => Writable') /\ SparesOthers

\* And what is said of the next step holds.
Kept == Stays /\ NextStepHolds'

LEMMA QuietKept ==
  ASSUME Stays, done'.next = None
  PROVE  Kept
<1>1. (done').next # "reached"
  BY NoneAssumption
<1> QED
  BY <1>1 DEF Kept, NextStepHolds

LEMMA StayedKept ==
  ASSUME DiskSound, disk' = disk, Readable => Reaches(sessions', strays', Loaded),
         done'.next = None,
         \A name \in Names(Loaded) \ done'.names : StoredStill(FreezeContext(Find(Loaded, name)))
  PROVE  Kept
<1>1. /\ Loaded' = Loaded /\ Readable' = Readable /\ Writable' = Writable
      /\ Read(disk') = Loaded
  BY DEF Loaded, Readable, Writable
<1>2. DiskSound'
  BY DEF DiskSound
<1>3. SparesOthers
  BY <1>1 DEF SparesOthers, StoredStill
<1>4. Held'
  BY <1>1 DEF Held
<1> QED
  BY <1>1, <1>2, <1>3, <1>4, QuietKept DEF Stays

\* Nothing is stored or ended.
LEMMA UntouchedKept ==
  ASSUME DiskSound, Held, disk' = disk, sessions' = sessions, strays' = strays,
         done'.next = None
  PROVE  Kept
<1>1. \A c : StoredStill(c)
  BY DEF StoredStill
<1> QED
  BY <1>1, StayedKept DEF Held

\* The contexts of a sound document, whichever way they are named.
LEMMA StoredContexts ==
  ASSUME Shaped(Loaded), NEW names,
         \A c \in Contexts(Loaded) : c.name \notin names => StoredStill(c)
  PROVE  \A name \in Names(Loaded) \ names : StoredStill(FreezeContext(Find(Loaded, name)))
<1> SUFFICES ASSUME NEW name \in Names(Loaded) \ names
             PROVE  StoredStill(FreezeContext(Find(Loaded, name)))
  OBVIOUS
<1> DEFINE c == Find(Loaded, name)
<1>1. c \in Contexts(Loaded) /\ c.name = name
  BY FoundIn
<1> HIDE DEF c
<1>2. SessionsOf(FreezeContext(c)) = SessionsOf(c)
  <2>1. Holding(c, ContextMembers)
    BY <1>1, ShapedContexts DEF Recorded
  <2> QED
    BY <2>1, FrozenAlike, AlikeSessions
<1>3. StoredStill(c)
  BY <1>1
<1>4. StoredStill(FreezeContext(c))
  BY <1>2, <1>3 DEF StoredStill
<1> QED
  BY <1>4 DEF c

LEMMA WroteStays ==
  ASSUME DiskSound, Writable, NEW next, Shaped(next), ValidDocument(Freeze(next)),
         disk' = Written(next), Reaches(sessions', strays', next), Leaves(next, done'.names),
         \A c \in Contexts(Loaded) : c.name \notin done'.names => StoredStill(c)
  PROVE  Stays /\ Loaded' = Written(next) /\ Sound(Loaded') /\ Readable'
<1>1. /\ Sound(Written(next)) /\ Written(next).version = Current
      /\ Read(Written(next)) = Written(next)
      /\ Contexts(Written(next)) = {FreezeContext(c) : c \in Contexts(next)}
      /\ SessionIDs(Written(next)) = SessionIDs(next)
      /\ Written(next).default = next.default
  BY WrittenIs
<1>2. DiskSound'
  BY <1>1 DEF DiskSound, Current
<1>3. Loaded' = Written(next) /\ Readable' /\ Writable'
  BY <1>1 DEF Loaded, Readable, Writable, Current
<1>4. Held'
  BY <1>1, <1>3 DEF Held, Reaches
<1>5. SparesOthers
  <2>1. Shaped(Loaded)
    BY LoadedSound
  <2> SUFFICES ASSUME NEW name \in Names(Loaded) \ done'.names
               PROVE  LET c == FreezeContext(Find(Loaded, name))
                          after == Written(next)
                      IN /\ name \in Names(after) /\ FreezeContext(Find(after, name)) = c
                         /\ StoredStill(c)
                         /\ Loaded.default = name => after.default \in {name} \cup done'.names
    BY <1>1 DEF SparesOthers, StoredStill
  <2> DEFINE e == Find(Loaded, name)
             c == FreezeContext(e)
             after == Written(next)
  <2>2. e \in Contexts(Loaded) /\ e.name = name
    BY FoundIn
  <2> HIDE DEF e
  <2>3. Recorded(e) /\ e \in Contexts(next)
    BY <2>1, <2>2, ShapedContexts DEF Leaves
  <2>4. FreezeContext(c) = c /\ c.name = name /\ c \in Contexts(after)
    BY <1>1, <2>2, <2>3, FrozenIs
  <2>5. name \in Names(after) /\ Apart(after)
    BY <1>1, <2>4, ShapedContexts, ValidIsApart DEF Sound
  <2>6. Find(after, name) = c
    BY <2>4, <2>5, FoundIn
  <2>7. StoredStill(c)
    BY <2>1, StoredContexts DEF e
  <2>8. Loaded.default = name => next.default \in {name} \cup done'.names
    BY DEF Leaves
  <2> HIDE DEF c, after
  <2>9. FreezeContext(Find(after, name)) = c
    BY <2>4, <2>6
  <2> QED
    BY <1>1, <2>5, <2>7, <2>8, <2>9 DEF c, after, e
<1> QED
  BY <1>1, <1>2, <1>3, <1>4, <1>5 DEF Stays

LEMMA SubsetReached ==
  ASSUME NEW d, NEW e, SessionIDs(d) \subseteq SessionIDs(e), NEW store, NEW lost,
         Reaches(store, lost, d)
  PROVE  Reaches(store, lost, e)
BY DEF Reaches

LEMMA RefusedKept ==
  ASSUME DiskSound, Held, NEW report, Holding(report, ReportMembers), NEW code,
         Refused(report, code), strays' = strays
  PROVE  Kept
<1>1. /\ disk' = disk /\ sessions' = sessions
      /\ done' = [report EXCEPT !.refused = code, !.next = None]
  BY DEF Refused, RefusedLeaving
<1>2. done'.next = None
  BY <1>1 DEF Holding, ReportMembers
<1> QED
  BY <1>1, <1>2, UntouchedKept

LEMMA UpdateKept ==
  ASSUME DiskSound, Held, Readable, NEW report, Holding(report, ReportMembers),
         report.next = None, NEW next, Update(report, next), strays' = strays,
         Writable => /\ Shaped(next) /\ SessionIDs(Loaded) \subseteq SessionIDs(next)
                     /\ Leaves(next, report.names)
  PROVE  Kept
<1>1. /\ sessions' = sessions /\ done'.names = report.names /\ done'.next = None
      /\ \/ disk' = disk
         \/ Writable /\ ValidDocument(Freeze(next)) /\ disk' = Written(next)
  BY UpdateEnds DEF Update
<1>2. CASE disk' = disk
  BY <1>1, <1>2, UntouchedKept
<1>3. CASE Writable /\ ValidDocument(Freeze(next)) /\ disk' = Written(next)
  <2>1. Reaches(sessions', strays', next)
    BY <1>1, <1>3, SubsetReached DEF Held
  <2>2. \A c : StoredStill(c)
    BY <1>1 DEF StoredStill
  <2>3. Stays
    BY <1>1, <1>3, <2>1, <2>2, WroteStays
  <2> QED
    BY <1>1, <2>3, QuietKept
<1> QED
  BY <1>1, <1>2, <1>3

\* A change ends no session of a context it leaves.
LEMMA EndingSpares ==
  ASSUME DiskSound, Writable, NEW next, Shaped(next),
         NEW c \in Contexts(Loaded), c \in Contexts(next), NEW a \in SessionsOf(c)
  PROVE  a.ref \notin Ending(next)
<1> SUFFICES ASSUME a.ref \in Ending(next) PROVE FALSE
  OBVIOUS
<1> DEFINE of(e) == UNION {SessionsOf(e.contexts[n]) : n \in DOMAIN e.contexts}
<1>1. SessionsUnreachedBy(Loaded, Freeze(next)) =
        {u \in of(Loaded) : \A b \in of(Freeze(next)) : b.ref = u.ref => Binding(u) # Binding(b)}
  BY DEF SessionsUnreachedBy
<1>2. \A d, u : u \in of(d) <=> \E e \in Contexts(d) : u \in SessionsOf(e)
  <2> SUFFICES ASSUME NEW d, NEW u
               PROVE  u \in of(d) <=> \E e \in Contexts(d) : u \in SessionsOf(e)
    OBVIOUS
  <2>1. u \in of(d) <=> \E n \in DOMAIN d.contexts : u \in SessionsOf(d.contexts[n])
    OBVIOUS
  <2> HIDE DEF of
  <2> QED
    BY <2>1 DEF Contexts
<1> HIDE DEF of
<1>3. PICK u \in SessionsUnreachedBy(Loaded, Freeze(next)) : u.ref = a.ref
  BY DEF Ending
<1>4. PICK e \in Contexts(Loaded) : u \in SessionsOf(e)
  BY <1>1, <1>2, <1>3
<1>5. Sound(Loaded) /\ Shaped(Loaded)
  BY LoadedSound
<1>6. Binding(u) = Binding(a)
  BY <1>3, <1>4, <1>5, RefBinds
<1>7. FreezeContext(c) \in Contexts(Freeze(next))
  BY FreezeIs
<1>8. a \in SessionsOf(FreezeContext(c))
  <2>1. Holding(c, ContextMembers)
    BY <1>5, ShapedContexts DEF Recorded
  <2> QED
    BY <2>1, FrozenAlike, AlikeSessions
<1>9. a \in of(Freeze(next))
  BY <1>2, <1>7, <1>8
<1> QED
  BY <1>1, <1>3, <1>6, <1>9

LEMMA ChangeStays ==
  ASSUME DiskSound, Held, Readable, NEW report, Holding(report, ReportMembers), NEW next,
         Change(report, next), strays' = strays,
         Writable => Shaped(next) /\ Leaves(next, report.names)
  PROVE  \/ Kept
         \/ /\ Stays /\ Writable /\ Loaded' = Written(next) /\ Sound(Loaded') /\ Readable'
            /\ done' = report /\ sessions' = Keeping(sessions, Ending(next))
<1>1. /\ Fewer(sessions', sessions) /\ done'.names = report.names
      /\ DOMAIN sessions \ Ending(next) \subseteq DOMAIN sessions'
      /\ \/ disk' = disk /\ done'.next = None
         \/ /\ Writable /\ ValidDocument(Freeze(next)) /\ disk' = Written(next)
            /\ sessions' = Keeping(sessions, Ending(next)) /\ done' = report
  BY ChangeEnds
<1>2. Reaches(sessions, strays, Loaded)
  BY DEF Held
<1>3. ASSUME Writable, NEW c \in Contexts(Loaded), c.name \notin done'.names
      PROVE  StoredStill(c)
  <2>1. Shaped(next) /\ c \in Contexts(next)
    BY <1>1, <1>3 DEF Leaves
  <2>2. \A a \in SessionsOf(c) : a.ref \notin Ending(next)
    BY <1>3, <2>1, EndingSpares
  <2> QED
    BY <1>1, <2>2 DEF StoredStill, Fewer
<1>4. CASE disk' = disk /\ done'.next = None /\ Writable
  <2>1. Reaches(sessions', strays', Loaded)
    BY <1>1, <1>2, FewerReached
  <2>2. \A name \in Names(Loaded) \ done'.names : StoredStill(FreezeContext(Find(Loaded, name)))
    BY <1>3, <1>4, LoadedSound, StoredContexts
  <2> QED
    BY <1>4, <2>1, <2>2, StayedKept
<1>5. CASE ~Writable
  BY <1>5, RefusedKept DEF Change
<1>6. CASE /\ Writable /\ ValidDocument(Freeze(next)) /\ disk' = Written(next)
           /\ sessions' = Keeping(sessions, Ending(next)) /\ done' = report
  <2>1. Reaches(Keeping(sessions, Ending(next)), strays, next)
    BY <1>2, <1>6, EndingLeaves
  <2>2. Reaches(sessions', strays', next)
    BY <1>6, <2>1
  <2> QED
    BY <1>1, <1>3, <1>6, <2>2, WroteStays
<1> QED
  BY <1>1, <1>4, <1>5, <1>6

LEMMA ChangeKept ==
  ASSUME DiskSound, Held, Readable, NEW report, Holding(report, ReportMembers),
         report.next = None, NEW next, Change(report, next), strays' = strays,
         Writable => Shaped(next) /\ Leaves(next, report.names)
  PROVE  Kept
BY ChangeStays, QuietKept

----------------------------------------------------------------------------
(* What each command does.                                                 *)

\* Another selection changes nothing else.
LEMMA SelectedIs ==
  ASSUME NEW d, {"contexts", "default"} \subseteq DOMAIN d, NEW name
  PROVE  LET e == [d EXCEPT !.default = name]
         IN /\ e.contexts = d.contexts /\ e.default = name
            /\ Shaped(d) => Shaped(e)
            /\ Contexts(e) = Contexts(d) /\ Names(e) = Names(d)
            /\ SessionIDs(e) = SessionIDs(d)
<1> DEFINE e == [d EXCEPT !.default = name]
<1>1. e.contexts = d.contexts /\ e.default = name /\ DOMAIN e = DOMAIN d
  OBVIOUS
<1> HIDE DEF e
<1>2. Shaped(d) => Shaped(e)
  BY <1>1 DEF Shaped
<1>3. Contexts(e) = Contexts(d) /\ Names(e) = Names(d) /\ SessionIDs(e) = SessionIDs(d)
  BY <1>1 DEF Contexts, Names, SessionIDs
<1> QED
  BY <1>1, <1>2, <1>3 DEF e

LEMMA SelectIs ==
  ASSUME NEW d, NEW name, Select(d, name) # None
  PROVE  Select(d, name) \in Contexts(d) /\ Select(d, name).name \in Names(d)
<1> DEFINE wanted == IF name # None THEN name ELSE d.default
<1>1. wanted \in Names(d) /\ Select(d, name) = Find(d, wanted)
  BY DEF Select
<1> QED
  BY <1>1, FoundIn

\* A context put in the document leaves the others.
LEMMA PutLeaves ==
  ASSUME Shaped(Loaded), NEW c, Recorded(c), c.name \in Nameable, NEW names, c.name \in names
  PROVE  Leaves(Put(Loaded, c), names)
<1>1. /\ Put(Loaded, c).default = Loaded.default
      /\ Contexts(Put(Loaded, c)) = {e \in Contexts(Loaded) : e.name # c.name} \cup {c}
  BY PutIs
<1> QED
  BY <1>1 DEF Leaves

LEMMA SelectLeaves ==
  ASSUME NEW d, {"contexts", "default"} \subseteq DOMAIN d, NEW names, Leaves(d, names),
         NEW name \in names
  PROVE  Leaves([d EXCEPT !.default = name], names)
<1> DEFINE e == [d EXCEPT !.default = name]
<1>1. e.default = name /\ Contexts(e) = Contexts(d)
  BY SelectedIs
<1> HIDE DEF e
<1>2. Leaves(e, names)
  BY <1>1 DEF Leaves
<1> QED
  BY <1>2 DEF e

LEMMA UpgradeKept ==
  ASSUME DiskSound, Held, Upgrade
  PROVE  Kept
<1>1. Readable /\ strays' = strays /\ Update(Report("upgrade", {}), Loaded)
  BY DEF Upgrade, Readable
<1>2. /\ Holding(Report("upgrade", {}), ReportMembers)
      /\ Report("upgrade", {}).next = None /\ Report("upgrade", {}).names = {}
  BY ReportIs
<1>3. Writable => Shaped(Loaded) /\ Leaves(Loaded, {})
  BY LoadedSound DEF Leaves
<1> QED
  BY <1>1, <1>2, <1>3, UpdateKept

LEMMA UseKept ==
  ASSUME DiskSound, Held, Use
  PROVE  Kept
<1>1. Readable /\ strays' = strays
  BY DEF Use
<1>2. PICK name \in Names(Loaded) :
        Update(Report("use", {name}), [Loaded EXCEPT !.default = name])
  BY DEF Use
<1>3. /\ Holding(Report("use", {name}), ReportMembers)
      /\ Report("use", {name}).next = None /\ Report("use", {name}).names = {name}
  BY ReportIs
<1> DEFINE next == [Loaded EXCEPT !.default = name]
<1>4. ASSUME Writable
      PROVE  /\ Shaped(next) /\ SessionIDs(Loaded) \subseteq SessionIDs(next)
             /\ Leaves(next, {name})
  <2>1. Shaped(Loaded) /\ {"contexts", "default"} \subseteq DOMAIN Loaded
    BY <1>4, LoadedSound DEF Shaped
  <2>2. Leaves(Loaded, {name})
    BY DEF Leaves
  <2> QED
    BY <2>1, <2>2, SelectedIs, SelectLeaves
<1> HIDE DEF next
<1>5. Update(Report("use", {name}), next)
  BY <1>2 DEF next
<1> QED
  BY <1>1, <1>3, <1>4, <1>5, UpdateKept

\* Renamed, a context is where it was, under the other name.
RenamedTo(d, name, renamed) ==
  Put(Without(d, name), [Find(d, name) EXCEPT !.name = renamed])

LEMMA RenamedToIs ==
  ASSUME NEW d, Shaped(d), Apart(d), NEW name \in Names(d), NEW renamed \in Nameable,
         renamed \notin Names(d)
  PROVE  LET r == RenamedTo(d, name, renamed)
             c == [Find(d, name) EXCEPT !.name = renamed]
         IN /\ Shaped(r) /\ Apart(r) /\ SessionIDs(d) \subseteq SessionIDs(r)
            /\ r.default = IF d.default = name THEN None ELSE d.default
            /\ Contexts(r) = {e \in Contexts(d) : e.name # name} \cup {c}
            /\ Names(r) = (Names(d) \ {name}) \cup {renamed}
<1> DEFINE r == RenamedTo(d, name, renamed)
           f == Find(d, name)
           c == [f EXCEPT !.name = renamed]
           w == Without(d, name)
<1>1. f \in Contexts(d) /\ \A e \in Contexts(d) : e.name = name => e = f
  BY FoundIn
<1>2. Recorded(f)
  BY <1>1, ShapedContexts
<1>3. Recorded(c) /\ c.name = renamed /\ Pairs(c) = Pairs(f)
  BY <1>2, RenamedIs
<1>4. /\ Shaped(w) /\ Apart(w) /\ w.default = IF d.default = name THEN None ELSE d.default
      /\ Contexts(w) = {e \in Contexts(d) : e.name # name}
      /\ Names(w) = Names(d) \ {name}
  BY WithoutIs
<1>5. r = Put(w, c)
  BY DEF RenamedTo
<1>6. \A e \in Contexts(d) : e.name # renamed
  BY ShapedContexts
<1> HIDE DEF r, f, c, w
<1>7. /\ Shaped(r) /\ Apart(r) /\ r.default = w.default
      /\ Contexts(r) = {e \in Contexts(w) : e.name # c.name} \cup {c}
      /\ Names(r) = Names(w) \cup {c.name}
  BY <1>3, <1>4, <1>5, PutIs
<1>8. Contexts(r) = {e \in Contexts(d) : e.name # name} \cup {c}
  BY <1>3, <1>4, <1>6, <1>7
<1>9. SessionIDs(d) \subseteq SessionIDs(r)
  <2>1. /\ SessionIDs(d) = UNION {Pairs(e) : e \in Contexts(d)}
        /\ SessionIDs(r) = UNION {Pairs(e) : e \in Contexts(r)}
    BY SessionIDsAre
  <2> QED
    BY <1>1, <1>3, <1>8, <2>1
<1> QED
  BY <1>3, <1>4, <1>7, <1>8, <1>9 DEF r, f, c

LEMMA RenameKept ==
  ASSUME DiskSound, Held, Rename
  PROVE  Kept
<1>1. Readable /\ strays' = strays
  BY DEF Rename
<1>2. PICK name \in Names(Loaded), renamed \in Range(ContextNames) :
        LET report == Report("rename", {name, renamed})
            put == RenamedTo(Loaded, name, renamed)
        IN IF renamed \in Names(Loaded) THEN Refused(report, "context_exists")
           ELSE Update(report, IF Loaded.default = name
                               THEN [put EXCEPT !.default = renamed] ELSE put)
  BY DEF Rename, RenamedTo
<1> DEFINE report == Report("rename", {name, renamed})
           put == RenamedTo(Loaded, name, renamed)
           next == IF Loaded.default = name THEN [put EXCEPT !.default = renamed] ELSE put
<1>3. /\ Holding(report, ReportMembers) /\ report.next = None
      /\ report.names = {name, renamed}
  BY ReportIs
<1>4. \/ Refused(report, "context_exists")
      \/ renamed \notin Names(Loaded) /\ Update(report, next)
  BY <1>2
<1>5. ASSUME Writable, renamed \notin Names(Loaded)
      PROVE  /\ Shaped(next) /\ SessionIDs(Loaded) \subseteq SessionIDs(next)
             /\ Leaves(next, {name, renamed})
  <2>1. Shaped(Loaded) /\ Apart(Loaded)
    BY <1>5, LoadedSound
  <2>2. renamed \in Nameable
    BY DEF Nameable
  <2>3. /\ Shaped(put) /\ SessionIDs(Loaded) \subseteq SessionIDs(put)
        /\ put.default = IF Loaded.default = name THEN None ELSE Loaded.default
        /\ \A e \in Contexts(Loaded) : e.name # name => e \in Contexts(put)
    BY <1>5, <2>1, <2>2, RenamedToIs
  <2>4. {"contexts", "default"} \subseteq DOMAIN put
    BY <2>3 DEF Shaped
  <2> HIDE DEF put
  <2>5. Shaped([put EXCEPT !.default = renamed])
        /\ SessionIDs([put EXCEPT !.default = renamed]) = SessionIDs(put)
    BY <2>3, <2>4, SelectedIs
  <2>6. Leaves(put, {name, renamed})
    BY <2>3 DEF Leaves
  <2>7. Leaves([put EXCEPT !.default = renamed], {name, renamed})
    BY <2>4, <2>6, SelectLeaves
  <2> QED
    BY <2>3, <2>5, <2>6, <2>7
<1> HIDE DEF report, next
<1> QED
  BY <1>1, <1>3, <1>4, <1>5, RefusedKept, UpdateKept

LEMMA DeleteKept ==
  ASSUME DiskSound, Held, Delete
  PROVE  Kept
<1>1. Readable /\ strays' = strays
  BY DEF Delete
<1>2. PICK name \in Names(Loaded) : Change(Report("delete", {name}), Without(Loaded, name))
  BY DEF Delete
<1>3. /\ Holding(Report("delete", {name}), ReportMembers)
      /\ Report("delete", {name}).next = None /\ Report("delete", {name}).names = {name}
  BY ReportIs
<1>4. ASSUME Writable
      PROVE  Shaped(Without(Loaded, name)) /\ Leaves(Without(Loaded, name), {name})
  <2>1. /\ Shaped(Without(Loaded, name))
        /\ Without(Loaded, name).default = IF Loaded.default = name THEN None ELSE Loaded.default
        /\ Contexts(Without(Loaded, name)) = {e \in Contexts(Loaded) : e.name # name}
    BY <1>4, LoadedSound, WithoutIs
  <2> QED
    BY <2>1 DEF Leaves
<1> QED
  BY <1>1, <1>2, <1>3, <1>4, ChangeKept

LEMMA OrgUseKept ==
  ASSUME DiskSound, Held, OrgUse
  PROVE  Kept
<1>1. Readable /\ strays' = strays
  BY DEF OrgUse
<1> DEFINE c == Target(None)
<1>2. PICK org \in Organizations \cup {None} :
        IF c = None THEN Refused(Report("org", {}), "no_context_selected")
        ELSE IF org # None /\ c.provider \in {"thunder", "identity-server"}
        THEN Refused(Report("org", {c.name}), "organization_switch_unsupported")
        ELSE Update(Report("org", {c.name}), Put(Loaded, [c EXCEPT !.org = org]))
  BY DEF OrgUse
<1> DEFINE moved == [c EXCEPT !.org = org]
<1>3. /\ Holding(Report("org", {}), ReportMembers) /\ Holding(Report("org", {c.name}), ReportMembers)
      /\ Report("org", {c.name}).next = None /\ Report("org", {c.name}).names = {c.name}
  BY ReportIs
<1>4. \/ Refused(Report("org", {}), "no_context_selected")
      \/ Refused(Report("org", {c.name}), "organization_switch_unsupported")
      \/ c # None /\ Update(Report("org", {c.name}), Put(Loaded, moved))
  BY <1>2
<1>5. ASSUME Writable, c # None
      PROVE  /\ Shaped(Put(Loaded, moved))
             /\ SessionIDs(Loaded) \subseteq SessionIDs(Put(Loaded, moved))
             /\ Leaves(Put(Loaded, moved), {c.name})
  <2>1. Shaped(Loaded) /\ Apart(Loaded)
    BY <1>5, LoadedSound
  <2>2. c \in Contexts(Loaded)
    BY <1>5, SelectIs DEF Target
  <2>3. Recorded(c) /\ c.name \in Nameable /\ c.name \in Names(Loaded)
    BY <2>1, <2>2, ShapedContexts
  <2>4. \A e \in Contexts(Loaded) : e.name = c.name => e = c
    BY <2>1, <2>2, <2>3, FoundIn
  <2> HIDE DEF c
  <2>5. Recorded(moved) /\ moved.name = c.name /\ Pairs(moved) = Pairs(c)
    BY <2>3, MovedIs
  <2> HIDE DEF moved
  <2> QED
    BY <2>1, <2>3, <2>4, <2>5, PutIs, PutReaches, PutLeaves
<1> HIDE DEF c, moved
<1> QED
  BY <1>1, <1>3, <1>4, <1>5, RefusedKept, UpdateKept

LEMMA ProductRemoveKept ==
  ASSUME DiskSound, Held, ProductRemove
  PROVE  Kept
<1>1. Readable /\ strays' = strays
  BY DEF ProductRemove
<1>2. PICK name \in Names(Loaded) :
        LET c == FreezeContext(Find(Loaded, name))
        IN \E key \in RecordKeys(c) :
             IF c.kind # "client-credentials" /\ key = Key(c.login)
             THEN Refused(Report("remove", {name}), "login_product")
             ELSE Change(Report("remove", {name}), Put(Loaded, WithoutRecord(c, key)))
  BY DEF ProductRemove
<1> DEFINE c == FreezeContext(Find(Loaded, name))
<1>3. PICK key \in RecordKeys(c) :
        \/ Refused(Report("remove", {name}), "login_product")
        \/ Change(Report("remove", {name}), Put(Loaded, WithoutRecord(c, key)))
  BY <1>2
<1>4. /\ Holding(Report("remove", {name}), ReportMembers)
      /\ Report("remove", {name}).next = None /\ Report("remove", {name}).names = {name}
  BY ReportIs
<1>5. ASSUME Writable
      PROVE  /\ Shaped(Put(Loaded, WithoutRecord(c, key)))
             /\ Leaves(Put(Loaded, WithoutRecord(c, key)), {name})
  <2>1. Shaped(Loaded)
    BY <1>5, LoadedSound
  <2>2. /\ Recorded(Find(Loaded, name)) /\ Find(Loaded, name).name \in Nameable
        /\ Find(Loaded, name).name = name
    BY <2>1, FoundIn, ShapedContexts
  <2>3. Recorded(c) /\ c.name \in Nameable /\ c.name = name
    BY <2>2, FrozenIs
  <2> HIDE DEF c
  <2>4. Recorded(WithoutRecord(c, key)) /\ WithoutRecord(c, key).name = c.name
    BY <2>3, WithoutRecordIs
  <2> QED
    BY <2>1, <2>3, <2>4, PutIs, PutLeaves
<1> HIDE DEF c
<1> QED
  BY <1>1, <1>3, <1>4, <1>5, RefusedKept, ChangeKept

----------------------------------------------------------------------------
(* The numbers of a base.                                                   *)

\* A context gets a reference no other has.
LEMMA NewRefIs ==
  ASSUME NEW d, Shaped(d), Apart(d), NEW base \in Nameable
  PROVE  /\ NewCredentialRef(d, Numbered[base]) \in STRING
         /\ \A c \in Contexts(d) : c.ref # NewCredentialRef(d, Numbered[base])
<1> DEFINE s == d.contexts
           k == Len(s)
           bases == Numbered[base]
           names == [n \in 1..k |-> s[n].name]
           refs == [n \in 1..k |-> s[n].ref]
           taken == {refs[n] : n \in 1..k}
<1>1. k \in Nat /\ DOMAIN s = 1..k
  BY SequenceIs DEF Shaped
<1>2. /\ bases \in Seq(STRING)
      /\ \A m, n \in DOMAIN bases : bases[m] = bases[n] => m = n
      /\ Len(bases) > Cardinality(Nameable)
      /\ IsFiniteSet(Nameable)
  BY NumberedAssumption
<1>3. names \in Injection(1..k, Nameable)
  <2>1. \A n \in 1..k : s[n].name \in Nameable
    BY <1>1 DEF Shaped
  <2>2. \A m, n \in 1..k : m # n => s[m].name # s[n].name
    BY <1>1 DEF Apart
  <2> HIDE DEF s, k
  <2> QED
    BY <2>1, <2>2 DEF Injection, IsInjective
<1>4. Holding(refs, 1..k)
  BY DEF Holding
<1>5. taken = {s[n].ref : n \in 1..k}
  OBVIOUS
<1> HIDE DEF names, refs
<1>6. Cardinality(1..k) <= Cardinality(Nameable) /\ Cardinality(1..k) = k
  <2>1. Cardinality(1..k) <= Cardinality(Nameable)
    BY <1>2, <1>3, FS_Injection
  <2> QED
    BY <1>1, <2>1, FS_Interval
<1>7. IsFiniteSet(taken) /\ Cardinality(taken) \in Nat /\ Cardinality(taken) <= k
  BY <1>1, <1>4, FewValues
<1>8. Cardinality(Nameable) \in Nat
  BY <1>2, FS_CardinalityType
<1>9. Len(bases) \in Nat
  BY <1>2
<1> DEFINE first == CHOOSE n \in DOMAIN bases :
                      /\ bases[n] \notin taken
                      /\ \A m \in 1..(n - 1) : bases[m] \in taken
<1> HIDE DEF taken, k, s, bases
<1>10. Cardinality(taken) < Len(bases)
  BY <1>1, <1>2, <1>6, <1>7, <1>8, <1>9
<1>11. bases[first] \in STRING /\ bases[first] \notin taken
  BY <1>2, <1>7, <1>10, FreeOne
<1>12. NewCredentialRef(d, bases) = bases[first]
  BY <1>1, <1>5 DEF NewCredentialRef, s
<1> HIDE DEF first
<1>13. \A c \in Contexts(d) : c.ref \in taken
  BY <1>1, <1>5 DEF Contexts, s
<1> QED
  BY <1>11, <1>12, <1>13 DEF bases

LEMMA WithRefIs ==
  ASSUME NEW d, Shaped(d), Apart(d), NEW c, Holding(c, ContextMembers), c.name \in Nameable
  PROVE  LET e == WithRef(d, c)
         IN /\ e = [c EXCEPT !.ref = e.ref] /\ Holding(e, ContextMembers)
            /\ e.ref \in STRING \cup {None}
            /\ e.ref # None => \A o \in Contexts(d) : o.ref # e.ref
<1>1. CASE c.kind = "client-credentials"
  <2>1. WithRef(d, c) = [c EXCEPT !.ref = None]
    BY <1>1 DEF WithRef
  <2> QED
    BY <2>1 DEF Holding, ContextMembers
<1>2. CASE c.kind # "client-credentials"
  <2> DEFINE ref == NewCredentialRef(d, Numbered[c.name])
  <2>1. WithRef(d, c) = [c EXCEPT !.ref = ref]
    BY <1>2 DEF WithRef
  <2>2. ref \in STRING /\ \A o \in Contexts(d) : o.ref # ref
    BY NewRefIs
  <2> HIDE DEF ref
  <2>3. WithRef(d, c).ref = ref /\ Holding(WithRef(d, c), ContextMembers)
    BY <2>1 DEF Holding, ContextMembers
  <2> QED
    BY <2>1, <2>2, <2>3
<1> QED
  BY <1>1, <1>2

----------------------------------------------------------------------------
(* Contexts created, and products added to them.                            *)

\* What a release tells of a product, enough to record it.
Telling(d) ==
  d # None => /\ d.client \in Text /\ d.scopes # None
              /\ d.gateway # None => d.gateway.scopes \in Scopes \ {None}

LEMMA DescriptorIs ==
  ASSUME NEW store, Inventory(store), NEW ns \in DOMAIN Published
  PROVE  Telling(Descriptor(store, ns))
<1>1. store[ns] \in {None} \cup DOMAIN Published[ns]
  BY DEF Inventory
<1>2. Descriptor(store, ns) = IF store[ns] = None THEN None ELSE Published[ns][store[ns]]
  BY DEF Descriptor
<1> QED
  BY <1>1, <1>2, InputsAssumption DEF Telling

\* A URL is one without the slashes it ends in.
LEMMA TrimRightIs ==
  ASSUME NEW u \in STRING
  PROVE  TrimRight(u) \in STRING
BY AccountsAssumption, InputsAssumption DEF TrimRight

\* What a gateway has, once its URL is trimmed.
LEMMA TrimmedGatewayIs ==
  ASSUME NEW S, NEW g \in Gateway(S)
  PROVE  LET h == [g EXCEPT !.url = TrimRight(@)]
         IN /\ h \in Gateway(S) /\ h.url = TrimRight(g.url)
            /\ h.audience = g.audience /\ h.scopes = g.scopes
<1> DEFINE url == TrimRight(g.url)
<1>1. url \in STRING
  BY TrimRightIs DEF Gateway
<1> HIDE DEF url
<1>2. LET h == [g EXCEPT !.url = url]
      IN /\ h \in Gateway(S) /\ h.url = url /\ h.audience = g.audience /\ h.scopes = g.scopes
  BY <1>1 DEF Gateway
<1> QED
  BY <1>2 DEF url

\* What is stated of a product is stated of it with its URLs trimmed.
LEMMA TrimmedStateable ==
  ASSUME NEW spec, Stateable(spec)
  PROVE  Stateable(TrimURLs(spec))
<1> DEFINE members == DOMAIN NewSpec(None)
           gateway == IF spec.gateway = None THEN None
                      ELSE [spec.gateway EXCEPT !.url = TrimRight(@)]
           url == TrimRight(spec.url)
<1>1. Holding(spec, members) /\ spec.gateway \in {None} \cup Gateway({None} \cup Scopes)
  BY DEF Stateable
<1>2. members = {"url", "audience", "scopes", "grant", "client", "id", "secret",
                 "gateway", "version"}
  BY DEF NewSpec
<1>3. TrimURLs(spec) = [spec EXCEPT !.url = url, !.gateway = gateway]
  BY DEF TrimURLs
<1>4. gateway \in {None} \cup Gateway({None} \cup Scopes)
  BY <1>1, TrimmedGatewayIs
<1> HIDE DEF members, gateway, url
<1>5. Holding(TrimURLs(spec), members) /\ TrimURLs(spec).gateway = gateway
  BY <1>1, <1>2, <1>3 DEF Holding
<1> QED
  BY <1>4, <1>5 DEF Stateable, members

\* A product recorded as it was stated.
LEMMA AsStatedIs ==
  ASSUME NEW spec, Stateable(spec)
  PROVE  RecordedProduct(AsStated(spec))
<1> DEFINE gateway == IF spec.gateway = None THEN None
                      ELSE [spec.gateway EXCEPT !.scopes = Or(@, {})]
<1>1. AsStated(spec) = [url |-> spec.url, audience |-> spec.audience,
                        scopes |-> Or(spec.scopes, {}), grant |-> spec.grant, id |-> spec.id,
                        secret |-> spec.secret, gateway |-> gateway]
  BY DEF AsStated
<1>2. Or(spec.scopes, {}) # None
  BY NoneAssumption DEF Or
<1>3. gateway # None => gateway \in Gateway(Scopes) /\ gateway.scopes # None
  <2> SUFFICES ASSUME spec.gateway # None
               PROVE  gateway \in Gateway(Scopes) /\ gateway.scopes # None
    OBVIOUS
  <2>1. spec.gateway \in Gateway({None} \cup Scopes)
    BY DEF Stateable
  <2>2. Or(spec.gateway.scopes, {}) \in Scopes /\ Or(spec.gateway.scopes, {}) # None
    BY <2>1, NoneAssumption DEF Or, Scopes, Gateway
  <2>3. gateway = [spec.gateway EXCEPT !.scopes = Or(spec.gateway.scopes, {})]
    BY <2>1 DEF Gateway
  <2> QED
    BY <2>1, <2>2, <2>3 DEF Gateway
<1> HIDE DEF gateway
<1> QED
  BY <1>1, <1>2, <1>3 DEF RecordedProduct, Holding

\* Its gateway is filled in from what the release tells and the context's client.
LEMMA GatewayIs ==
  ASSUME NEW d, d # None, Telling(d), NEW spec, Stateable(spec), NEW target,
         target.client \in Text, NEW product, RecordedProduct(product),
         ResolveGateway(d, spec, target, product).refused = None
  PROVE  RecordedProduct(ResolveGateway(d, spec, target, product).value)
<1> DEFINE asked == spec.gateway
           audience ==
             CASE asked.audience # None -> asked.audience
               [] asked.audience = None /\ d.gateway.audience = "client"
                  /\ Derivation(target) # "token-resource" -> target.client
               [] OTHER -> IF product.grant # None /\ product.grant.kind = "exchange"
                           THEN asked.url ELSE None
           gateway == [url |-> asked.url, audience |-> audience,
                       scopes |-> Or(asked.scopes, d.gateway.scopes)]
           r == ResolveGateway(d, spec, target, product)
<1>1. r = CASE asked = None -> Give(product)
            [] asked # None /\ d.gateway = None -> Refuse("invalid_argument")
            [] asked # None /\ d.gateway # None
               /\ target.kind = "client-credentials" /\ "inline" \notin d.gateway.machine ->
                 Refuse("product_not_configured")
            [] OTHER ->
                 IF audience = None THEN Refuse("missing_required_flag")
                 ELSE Give([product EXCEPT !.gateway = gateway])
  BY DEF ResolveGateway
<1>2. asked # None /\ d.gateway # None => gateway \in Gateway(Scopes) /\ gateway.scopes # None
  <2> SUFFICES ASSUME asked # None, d.gateway # None
               PROVE  gateway \in Gateway(Scopes) /\ gateway.scopes # None
    OBVIOUS
  <2>1. asked \in Gateway({None} \cup Scopes)
    BY DEF Stateable
  <2>2. asked.url \in STRING /\ asked.audience \in Text /\ asked.scopes \in {None} \cup Scopes
    BY <2>1 DEF Gateway
  <2>3. audience \in Text
    BY <2>2 DEF Text
  <2>4. Or(asked.scopes, d.gateway.scopes) \in Scopes \ {None}
    BY <2>2 DEF Telling, Or
  <2> HIDE DEF audience
  <2> QED
    BY <2>2, <2>3, <2>4 DEF Gateway
<1> HIDE DEF audience, gateway, r
<1>3. {"invalid_argument", "missing_required_flag", "product_not_configured"} \subseteq Codes
  BY DEF Codes
<1>4. \A code \in Codes : Refuse(code).refused # None
  BY NoneAssumption DEF Refuse
<1>5. r.refused = None
  BY DEF r
<1>6. \/ r = Give(product)
      \/ asked # None /\ d.gateway # None /\ r = Give([product EXCEPT !.gateway = gateway])
  BY <1>1, <1>3, <1>4, <1>5
<1>7. CASE r = Give(product)
  BY <1>7 DEF Give, r
<1>8. CASE asked # None /\ d.gateway # None /\ r = Give([product EXCEPT !.gateway = gateway])
  <2>1. r.value = [product EXCEPT !.gateway = gateway]
    BY <1>8 DEF Give
  <2>2. RecordedProduct([product EXCEPT !.gateway = gateway])
    BY <1>2, <1>8 DEF RecordedProduct, Holding
  <2> QED
    BY <2>1, <2>2 DEF r
<1> QED
  BY <1>6, <1>7, <1>8

\* A product added to a context is one it can record.
LEMMA ResolvedProductIs ==
  ASSUME NEW ns, NEW d, Telling(d), NEW spec, Stateable(spec), NEW target,
         target.client \in Text, ResolveProduct(ns, d, spec, target).refused = None
  PROVE  RecordedProduct(ResolveProduct(ns, d, spec, target).value)
<1> DEFINE stated == [AsStated(spec) EXCEPT !.scopes = Or(spec.scopes, d.scopes),
                                            !.gateway = None]
           grant == Or(spec.grant, DescribedGrant(d, spec))
           audience == Or(Or(spec.audience, AudienceFor(d, spec.client)),
                          IF grant.kind = "exchange" THEN spec.url ELSE None)
           through == [stated EXCEPT !.audience = Or(@, AudienceFor(d, target.client))]
           beside == [stated EXCEPT !.grant = grant, !.audience = audience]
           r == ResolveProduct(ns, d, spec, target)
<1>1. r = CASE d = None -> Give(AsStated(spec))
            [] LoginProvider(d) /\ DescriptorIssuer(d, spec.url) # target.issuer ->
                 Refuse("conflicting_arguments")
            [] LoginProvider(d) /\ DescriptorIssuer(d, spec.url) = target.issuer ->
                 ResolveGateway(d, spec, target, through)
            [] ~LoginProvider(d) /\ d # None ->
                 IF ProductRefused(d, spec, target) # None
                 THEN Refuse(ProductRefused(d, spec, target))
                 ELSE ResolveGateway(d, spec, target, beside)
  BY DEF ResolveProduct
<1>2. RecordedProduct(AsStated(spec))
  BY AsStatedIs
<1>3. d # None => RecordedProduct(stated)
  <2> SUFFICES ASSUME d # None PROVE RecordedProduct(stated)
    OBVIOUS
  <2>1. Or(spec.scopes, d.scopes) # None
    BY DEF Telling, Or
  <2>2. stated.gateway = None
    BY <1>2 DEF RecordedProduct, Holding
  <2> QED
    BY <1>2, <2>1, <2>2 DEF RecordedProduct, Holding
<1>4. d # None => RecordedProduct(through) /\ RecordedProduct(beside)
  <2> HIDE DEF stated, grant, audience
  <2> QED
    BY <1>3 DEF RecordedProduct, Holding
<1> HIDE DEF through, beside, r
<1>5. \A code : Refuse(code).refused = code
  BY DEF Refuse
<1>6. "conflicting_arguments" # None
  BY NoneAssumption DEF Codes
<1>7. r.refused = None
  BY DEF r
<1>8. \/ r = Give(AsStated(spec))
      \/ /\ d # None
         /\ \/ r = ResolveGateway(d, spec, target, through)
            \/ r = ResolveGateway(d, spec, target, beside)
  BY <1>1, <1>5, <1>6, <1>7 DEF LoginProvider
<1>9. CASE r = Give(AsStated(spec))
  BY <1>2, <1>9 DEF Give, r
<1>10. CASE d # None /\ r = ResolveGateway(d, spec, target, through)
  BY <1>4, <1>7, <1>10, GatewayIs DEF r
<1>11. CASE d # None /\ r = ResolveGateway(d, spec, target, beside)
  BY <1>4, <1>7, <1>11, GatewayIs DEF r
<1> QED
  BY <1>8, <1>9, <1>10, <1>11

LEMMA LoginProductIs ==
  ASSUME NEW ns, NEW d, NEW spec, NEW login, Holding(login, ContextMembers),
         login.client \in Text, Telling(d), Stateable(spec),
         ResolveLoginProduct(ns, d, spec, login).refused = None
  PROVE  LET e == ResolveLoginProduct(ns, d, spec, login).value.login
         IN /\ Holding(e, ContextMembers) /\ e.name = login.name /\ e.ref = login.ref
            /\ e.synthetic = login.synthetic /\ e.products = login.products
            /\ e.kind = login.kind /\ e.client \in Text
            /\ RecordedProduct(ResolveLoginProduct(ns, d, spec, login).value.product)
            /\ Holding(ResolveLoginProduct(ns, d, spec, login).value, {"login", "product"})
<1> DEFINE client == Or(login.client, d.client)
           issuer == IF login.issuer = None THEN DescriptorIssuer(d, spec.url) ELSE login.issuer
           provider == IF login.provider = None /\ login.narrowing = None
                       THEN d.provider ELSE login.provider
           named == [login EXCEPT !.login = ns, !.client = client, !.issuer = issuer,
                                  !.provider = provider]
           product == [AsStated(spec) EXCEPT
                    !.audience = Or(@, AudienceFor(d, client)),
                    !.scopes = Or(spec.scopes, d.scopes),
                    !.grant = None, !.id = None, !.secret = None, !.gateway = None]
           r == ResolveLoginProduct(ns, d, spec, login)
<1>1. named = [login EXCEPT
                 !.login = ns, !.client = client,
                 !.issuer = IF @ = None THEN DescriptorIssuer(d, spec.url) ELSE @,
                 !.provider = IF @ = None /\ login.narrowing = None
                              THEN d.provider ELSE @]
  BY DEF Holding, ContextMembers
<1>2. r = IF ~LoginProvider(d) THEN Refuse("invalid_argument")
          ELSE CASE client = None -> Refuse("missing_required_flag")
                 [] client # None /\ login.kind = "client-credentials"
                    /\ ~AllowsMachine(d, "inline") -> Refuse("product_not_configured")
                 [] OTHER -> IF product.audience = None THEN Refuse("missing_required_flag")
                             ELSE Give([login |-> named, product |-> product])
  BY <1>1 DEF ResolveLoginProduct
<1>3. LoginProvider(d) => client \in Text /\ RecordedProduct(product)
  <2> SUFFICES ASSUME LoginProvider(d) PROVE client \in Text /\ RecordedProduct(product)
    OBVIOUS
  <2>1. d # None
    BY DEF LoginProvider
  <2>2. client \in Text
    BY <2>1 DEF Telling, Or, Text
  <2>3. RecordedProduct(AsStated(spec))
    BY AsStatedIs
  <2>4. Or(spec.scopes, d.scopes) # None
    BY <2>1 DEF Telling, Or
  <2> HIDE DEF client
  <2>5. product.gateway = None /\ product.scopes = Or(spec.scopes, d.scopes)
        /\ Holding(product, {"url", "audience", "scopes", "grant", "id", "secret", "gateway"})
    BY <2>3 DEF RecordedProduct, Holding
  <2> QED
    BY <2>2, <2>4, <2>5 DEF RecordedProduct
<1> HIDE DEF client, named, product, r
<1>4. r \in {Refuse("invalid_argument"), Refuse("missing_required_flag"),
             Refuse("product_not_configured"), Give([login |-> named, product |-> product])}
  BY <1>2
<1>5. {"invalid_argument", "missing_required_flag", "product_not_configured"} \subseteq Codes
  BY DEF Codes
<1>6. \A code \in Codes : Refuse(code).refused # None
  BY NoneAssumption DEF Refuse
<1>7. r = Give([login |-> named, product |-> product])
  BY <1>4, <1>5, <1>6 DEF r
<1>8. r.value.login = named /\ Holding(r.value, {"login", "product"})
  BY <1>7 DEF Give, Holding
<1>9. r.value.product = product /\ LoginProvider(d)
  BY <1>2, <1>5, <1>6, <1>7 DEF Give, r
<1>10. /\ Holding(named, ContextMembers) /\ named.name = login.name /\ named.ref = login.ref
      /\ named.synthetic = login.synthetic /\ named.products = login.products
      /\ named.kind = login.kind /\ named.client = client
  BY DEF Holding, ContextMembers, named
<1> QED
  BY <1>8, <1>10, <1>9, <1>3 DEF r

\* What a context is, before it has a reference.
Unreferenced(c) ==
  /\ Holding(c, ContextMembers) /\ c.synthetic = FALSE /\ c.client \in Text
  /\ Holding(c.products, DOMAIN c.products) /\ DOMAIN c.products \subseteq DOMAIN Published
  /\ \A ns \in DOMAIN c.products : RecordedProduct(c.products[ns])

LEMMA DescribedIs ==
  ASSUME NEW name, NEW flags, flags.product \in {None} \cup DOMAIN Published,
         flags.client \in Text, NEW store, Inventory(store),
         Described(name, flags, store).refused = None
  PROVE  Unreferenced(Described(name, flags, store).value)
         /\ Described(name, flags, store).value.name = name
<1> DEFINE kind == IF flags.device THEN "oauth-device"
                   ELSE IF flags.secret # None THEN "client-credentials" ELSE "oauth-browser"
           login == [NewContext(name) EXCEPT !.kind = kind, !.client = flags.client,
                       !.provider = flags.provider, !.secret = flags.secret]
           url == TrimRight(flags.url)
           issuer == TrimRight(flags.issuer)
           spec == [NewSpec(url) EXCEPT !.audience = flags.audience,
                                        !.scopes = flags.scopes]
           through == ResolveLoginProduct(flags.product, Descriptor(store, flags.product),
                                          spec, login)
           placed(c) == [c EXCEPT !.type = IdentityTypeForIssuer(c.issuer),
                                  !.tenant = TenantForIssuer(c.issuer),
                                  !.org = Or(flags.org, TenantForIssuer(c.issuer))]
           stated == [login EXCEPT !.issuer = issuer, !.issuerID = flags.issuerID]
           product == OneProduct(flags.product, through.value.product)
           r == Described(name, flags, store)
<1>1. r = IF flags.product = None
          THEN IF Served[flags.issuer] \in {"unreadable", "userinfo"}
               THEN Refuse("invalid_argument")
               ELSE IF flags.provider = "thunder" THEN Refuse("conflicting_arguments")
               ELSE Give(placed(stated))
          ELSE IF through.refused # None THEN through
          ELSE Give([placed(through.value.login) EXCEPT !.products = product])
  BY DEF Described
<1>2. /\ Holding(login, ContextMembers) /\ login.name = name
      /\ login.synthetic = FALSE /\ login.products = << >> /\ login.client = flags.client
  <2> DEFINE n == NewContext(name)
  <2>1. Holding(n, ContextMembers) /\ n.name = name /\ n.synthetic = FALSE /\ n.products = << >>
    BY DEF NewContext, Holding, ContextMembers
  <2>2. login = [n EXCEPT !.kind = kind, !.client = flags.client,
                          !.provider = flags.provider, !.secret = flags.secret]
    OBVIOUS
  <2> HIDE DEF n, kind, login
  <2> QED
    BY <2>1, <2>2 DEF Holding, ContextMembers
<1>3. /\ Holding(stated, ContextMembers) /\ stated.name = name
      /\ stated.synthetic = FALSE /\ stated.products = << >> /\ stated.client = flags.client
  <2> HIDE DEF login, issuer
  <2> QED
    BY <1>2 DEF Holding, ContextMembers
<1>4. ASSUME NEW c, Holding(c, ContextMembers)
      PROVE  /\ Holding(placed(c), ContextMembers) /\ placed(c).name = c.name
             /\ placed(c).synthetic = c.synthetic /\ placed(c).products = c.products
             /\ placed(c).client = c.client
  BY <1>4 DEF Holding, ContextMembers
<1>5. DOMAIN << >> = {} /\ Holding(<< >>, DOMAIN << >>)
  BY DEF Holding
<1>6. /\ DOMAIN product = {flags.product} /\ Holding(product, DOMAIN product)
      /\ product[flags.product] = through.value.product
  BY DEF OneProduct, Holding
<1>7. {"invalid_argument", "conflicting_arguments"} \subseteq Codes
  BY DEF Codes
<1>8. \A code \in Codes : Refuse(code).refused # None
  BY NoneAssumption DEF Refuse
<1>9. Stateable(spec)
  <2> DEFINE n == NewSpec(url)
             members == DOMAIN NewSpec(None)
  <2>1. Holding(n, members) /\ n.gateway = None
        /\ members = {"url", "audience", "scopes", "grant", "client", "id", "secret",
                      "gateway", "version"}
    BY DEF NewSpec, Holding
  <2>2. spec = [n EXCEPT !.audience = flags.audience, !.scopes = flags.scopes]
    OBVIOUS
  <2> HIDE DEF n, members, spec
  <2>3. Holding(spec, members) /\ spec.gateway = None
    BY <2>1, <2>2 DEF Holding
  <2> QED
    BY <2>3 DEF Stateable, members
<1>10. through.refused = None /\ flags.product # None =>
        /\ Holding(through.value.login, ContextMembers) /\ through.value.login.name = name
        /\ through.value.login.synthetic = FALSE /\ through.value.login.client \in Text
        /\ RecordedProduct(through.value.product)
  <2> HIDE DEF login, spec
  <2>1. flags.product # None => Telling(Descriptor(store, flags.product))
    BY DescriptorIs
  <2> QED
    BY <1>2, <1>9, <2>1, LoginProductIs
<1> HIDE DEF login, spec, through, stated, placed, product, r
<1>11. CASE flags.product = None
  <2>1. r = Give(placed(stated))
    BY <1>1, <1>7, <1>8, <1>11 DEF r
  <2>2. r.value = placed(stated)
    BY <2>1 DEF Give
  <2> QED
    BY <1>3, <1>4, <1>5, <2>2 DEF Unreferenced, r
<1>12. CASE flags.product # None
  <2> DEFINE c == placed(through.value.login)
  <2>1. through.refused = None /\ r = Give([c EXCEPT !.products = product])
    BY <1>1, <1>12 DEF r
  <2>2. r.value = [c EXCEPT !.products = product]
    BY <2>1 DEF Give
  <2>3. Holding(c, ContextMembers) /\ c.name = name /\ c.synthetic = FALSE /\ c.client \in Text
    BY <1>4, <1>10, <1>12, <2>1
  <2> HIDE DEF c
  <2>4. /\ Holding(r.value, ContextMembers) /\ r.value.name = name
        /\ r.value.synthetic = FALSE /\ r.value.products = product /\ r.value.client \in Text
    BY <2>2, <2>3 DEF Holding, ContextMembers
  <2> QED
    BY <1>6, <1>10, <1>12, <2>1, <2>4 DEF Unreferenced, r
<1> QED
  BY <1>11, <1>12

\* A context that gets a reference can be recorded.
LEMMA ReferencedIs ==
  ASSUME NEW d, Shaped(d), Apart(d), NEW c, Unreferenced(c), c.name \in Nameable
  PROVE  Recorded(WithRef(d, c)) /\ WithRef(d, c).name = c.name
<1> DEFINE e == WithRef(d, c)
<1>1. /\ e = [c EXCEPT !.ref = e.ref] /\ Holding(e, ContextMembers)
      /\ e.ref \in STRING \cup {None}
  BY WithRefIs DEF Unreferenced
<1> HIDE DEF e
<1>2. /\ e.name = c.name /\ e.synthetic = c.synthetic /\ e.products = c.products
      /\ e.client = c.client
  BY <1>1 DEF Unreferenced, Holding, ContextMembers
<1>3. Recorded(e)
  BY <1>1, <1>2 DEF Unreferenced, Recorded, Text
<1> QED
  BY <1>2, <1>3 DEF e

LEMMA CreateFromKept ==
  ASSUME DiskSound, Held, Readable, NEW name \in Nameable, NEW flags,
         flags.product \in {None} \cup DOMAIN Published, flags.client \in Text, NEW ensured,
         Inventory(ensured.installed), NEW command,
         CreateFrom(name, flags, ensured, command), strays' = strays
  PROVE  Kept
<1> DEFINE report == Report(command, {name})
           described == Described(name, flags, ensured.installed)
           c == WithRef(Loaded, described.value)
           put == Put(Loaded, c)
           next == IF flags.use THEN [put EXCEPT !.default = name] ELSE put
<1>1. \/ \E code : Refused(report, code)
      \/ /\ Writable /\ name \notin Names(Loaded) /\ described.refused = None
         /\ Update(report, next)
  BY DEF CreateFrom
<1>2. Holding(report, ReportMembers) /\ report.next = None /\ report.names = {name}
  BY ReportIs
<1>3. ASSUME Writable, name \notin Names(Loaded), described.refused = None
      PROVE  /\ Shaped(next) /\ SessionIDs(Loaded) \subseteq SessionIDs(next)
             /\ Leaves(next, {name})
  <2>1. Shaped(Loaded) /\ Apart(Loaded)
    BY <1>3, LoadedSound
  <2>2. Unreferenced(described.value) /\ described.value.name = name
    BY <1>3, DescribedIs
  <2> HIDE DEF described
  <2>3. Recorded(c) /\ c.name = name
    BY <2>1, <2>2, ReferencedIs
  <2>4. \A e \in Contexts(Loaded) : e.name # name
    BY <1>3, <2>1, ShapedContexts
  <2> HIDE DEF c
  <2>5. /\ Shaped(put) /\ SessionIDs(Loaded) \subseteq SessionIDs(put)
        /\ Leaves(put, {name})
    BY <2>1, <2>3, <2>4, PutIs, PutReaches, PutLeaves
  <2>6. {"contexts", "default"} \subseteq DOMAIN put
    BY <2>5 DEF Shaped
  <2> HIDE DEF put
  <2> QED
    BY <2>5, <2>6, SelectedIs, SelectLeaves
<1> HIDE DEF report, described, next
<1>4. CASE \E code : Refused(report, code)
  <2>1. PICK code : Refused(report, code)
    BY <1>4
  <2> QED
    BY <1>2, <2>1, RefusedKept
<1> QED
  BY <1>1, <1>2, <1>3, <1>4, UpdateKept

LEMMA AddedIs ==
  ASSUME NEW c, Recorded(c), NEW ns \in DOMAIN Published, NEW product,
         RecordedProduct(product)
  PROVE  /\ Recorded(Added(c, ns, product)) /\ Added(c, ns, product).name = c.name
         /\ ns \in DOMAIN Added(c, ns, product).products
<1> DEFINE f == FreezeContext(c)
           products == [n \in DOMAIN f.products \cup {ns} |->
                          IF n = ns THEN product ELSE f.products[n]]
           e == Added(c, ns, product)
<1>1. Recorded(f) /\ f.name = c.name
  BY FrozenIs
<1>2. e = [f EXCEPT !.products = products]
  BY DEF Added
<1>3. /\ DOMAIN products = DOMAIN f.products \cup {ns} /\ Holding(products, DOMAIN products)
      /\ \A n \in DOMAIN products : RecordedProduct(products[n])
  BY <1>1 DEF Holding, Recorded
<1> HIDE DEF f, products, e
<1>4. /\ Holding(e, ContextMembers) /\ e.name = f.name /\ e.synthetic = f.synthetic
      /\ e.ref = f.ref /\ e.client = f.client /\ e.products = products
  BY <1>1, <1>2 DEF Recorded, Holding, ContextMembers
<1>5. Recorded(e)
  BY <1>1, <1>3, <1>4 DEF Recorded
<1> QED
  BY <1>1, <1>3, <1>4, <1>5 DEF e, products

LEMMA ContextOfIs ==
  ASSUME NEW d, Shaped(d), NEW name, ContextOf(d, name) # None
  PROVE  /\ name \in Names(d) /\ ContextOf(d, name) = Find(d, name)
         /\ Recorded(ContextOf(d, name)) /\ ContextOf(d, name).name = name
         /\ name \in Nameable
<1>1. name \in Names(d) /\ ContextOf(d, name) = Find(d, name)
  BY DEF ContextOf
<1> QED
  BY <1>1, FoundIn, ShapedContexts

\* What a person is told once the product is recorded is so.
LEMMA AddedAdvised ==
  ASSUME NEW next, Shaped(next), Loaded' = Written(next), Sound(Loaded'), Readable', Held',
         NEW added \in Contexts(next), Recorded(added), NEW ns \in DOMAIN Published,
         ns \in DOMAIN added.products,
         done'.names = {added.name}, done'.product = ns,
         done'.next = Advice(FreezeContext(added), ns, sessions')
  PROVE  NextStepHolds'
<1> DEFINE c == FreezeContext(added)
           access == Access(c, Key(ns))
           used == IF access.strategy = "exchanged" THEN LoginAccess(c) ELSE access
<1>1. c \in Contexts(Loaded') /\ c.name = added.name
  <2>1. Contexts(Written(next)) = {FreezeContext(e) : e \in Contexts(next)}
    <3>1. Contexts(Written(next)) = Contexts(Freeze(next))
      BY DEF Written, Contexts
    <3> QED
      BY <3>1, FreezeIs
  <2> QED
    BY <2>1, FrozenIs
<1>2. Find(Loaded', added.name) = c
  BY <1>1, ShapedContexts, ValidIsApart, FoundIn DEF Sound
<1>3. (CHOOSE name \in done'.names : TRUE) = added.name
  OBVIOUS
<1>4. Usable(c)
  BY <1>1, SoundContexts
<1> HIDE DEF c
<1>5. SUFFICES ASSUME done'.next = "reached", used.ref \notin strays'
               PROVE  used.ref \in DOMAIN sessions' /\ sessions'[used.ref] = Binding(used)
  BY <1>2, <1>3 DEF NextStepHolds
<1>6. Advice(c, ns, sessions') = "reached"
  BY <1>5 DEF c
<1>7. /\ c.kind # "client-credentials" /\ LoginAccess(c).ref \in DOMAIN sessions'
      /\ access.strategy \in {"exchanged", "direct"}
  BY <1>6 DEF Advice
<1>8. Key(ns) \in RecordKeys(c)
  <2>1. c.products = added.products
    BY FrozenAlike DEF Alike, Recorded, c
  <2> QED
    BY <2>1 DEF RecordKeys
<1>9. used.ref = LoginAccess(c).ref /\ Binding(used) = Binding(LoginAccess(c))
  BY <1>4, <1>7, <1>8, AccessIs, LoginAccessIs DEF AsLogin
<1> DEFINE ref == used.ref
<1>10. <<ref, sessions'[ref]>> \in SessionIDs(Loaded')
  BY <1>5, <1>7, <1>9 DEF Held, Reaches
<1>11. PICK e \in Contexts(Loaded') : <<ref, sessions'[ref]>> \in Pairs(e)
  BY <1>10, SessionIDsAre
<1>12. PICK a \in SessionsOf(e) : a.ref = ref /\ Binding(a) = sessions'[ref]
  BY <1>11 DEF Pairs
<1>13. LoginAccess(c) \in SessionsOf(c)
  <2>1. LoginAccess(c).ref # None /\ c.synthetic = FALSE
    <3>1. c.ref \in Words /\ c.synthetic = FALSE
      BY <1>4 DEF Usable, Recorded, Words, Text
    <3>2. LoginAccess(c).ref = <<c.ref>>
      BY LoginAccessIs DEF LoginRef
    <3>3. <<c.ref>> \in Seq(Words)
      BY <3>1
    <3> QED
      BY <3>1, <3>2, <3>3, NoneAssumption
  <2> QED
    BY <1>7, <2>1 DEF SessionsOf, Accesses
<1>14. Binding(a) = Binding(LoginAccess(c))
  BY <1>1, <1>9, <1>12, <1>13, RefBinds DEF c
<1> QED
  BY <1>7, <1>9, <1>12, <1>14

LEMMA AddToKept ==
  ASSUME DiskSound, Held, Readable, NEW name, NEW ns \in DOMAIN Published, NEW spec,
         Stateable(spec), NEW replace, NEW ensured, Inventory(ensured.installed),
         AddTo(name, ns, spec, replace, ensured), strays' = strays
  PROVE  Kept
<1> DEFINE c == ContextOf(Loaded, name)
           command == IF c # None /\ ns \in DOMAIN c.products THEN "replace" ELSE "add"
           report == Report(command, {name})
           product == ResolveProduct(ns, Descriptor(ensured.installed, ns), TrimURLs(spec),
                                     FreezeContext(c))
           added == Added(c, ns, product.value)
           next == Put(Loaded, added)
           advice == Advice(FreezeContext(added), ns, Keeping(sessions, Ending(next)))
           advised == [report EXCEPT !.product = ns, !.next = advice]
<1>1. \/ \E code : Refused(report, code)
      \/ Writable /\ c # None /\ product.refused = None /\ Change(advised, next)
  BY DEF AddTo
<1>2. Holding(report, ReportMembers) /\ report.names = {name}
  BY ReportIs
<1>3. /\ Holding(advised, ReportMembers) /\ advised.names = {name}
      /\ advised.product = ns /\ advised.next = advice
  <2> HIDE DEF report, added, next, advice
  <2> QED
    BY <1>2 DEF Holding, ReportMembers
<1>4. ASSUME Writable, c # None, product.refused = None
      PROVE  /\ Shaped(next) /\ Leaves(next, {name}) /\ Recorded(added)
             /\ added.name = name /\ added \in Contexts(next) /\ ns \in DOMAIN added.products
  <2>1. Shaped(Loaded)
    BY <1>4, LoadedSound
  <2>2. Recorded(c) /\ c.name = name /\ name \in Nameable
    BY <1>4, <2>1, ContextOfIs
  <2>3. RecordedProduct(product.value)
    <3>1. FreezeContext(c).client \in Text
      BY <2>2, FrozenIs DEF Recorded
    <3>2. Telling(Descriptor(ensured.installed, ns))
      BY DescriptorIs
    <3>3. Stateable(TrimURLs(spec))
      BY TrimmedStateable
    <3> HIDE DEF c
    <3> QED
      BY <1>4, <3>1, <3>2, <3>3, ResolvedProductIs
  <2> HIDE DEF c, product
  <2>4. Recorded(added) /\ added.name = name /\ ns \in DOMAIN added.products
    BY <2>2, <2>3, AddedIs
  <2> HIDE DEF added
  <2> QED
    BY <2>1, <2>2, <2>4, PutIs, PutLeaves
<1> HIDE DEF c, report, product, next, advised, added, advice
<1>5. CASE \E code : Refused(report, code)
  <2>1. PICK code : Refused(report, code)
    BY <1>5
  <2> QED
    BY <1>2, <2>1, RefusedKept
<1>6. CASE Writable /\ c # None /\ product.refused = None /\ Change(advised, next)
  <2>1. CASE Kept
    BY <2>1
  <2>2. CASE /\ Stays /\ Writable /\ Loaded' = Written(next) /\ Sound(Loaded') /\ Readable'
             /\ done' = advised /\ sessions' = Keeping(sessions, Ending(next))
    <3>1. Stays /\ Held'
      BY <2>2 DEF Stays
    <3>2. done'.next = Advice(FreezeContext(added), ns, sessions')
      BY <1>3, <2>2 DEF advice
    <3>3. done'.names = {added.name} /\ done'.product = ns
      BY <1>3, <1>4, <1>6, <2>2
    <3>4. NextStepHolds'
      BY <1>4, <1>6, <2>2, <3>1, <3>2, <3>3, AddedAdvised
    <3> QED
      BY <3>1, <3>4 DEF Kept
  <2> QED
    BY <1>3, <1>4, <1>6, <2>1, <2>2, ChangeStays
<1> QED
  BY <1>1, <1>5, <1>6

----------------------------------------------------------------------------
(* Contexts applied from a file.                                            *)

LEMMA FrozenShape ==
  ASSUME NEW c, Unreferenced(c)
  PROVE  Unreferenced(FreezeContext(c)) /\ FreezeContext(c).name = c.name
<1>1. CASE c.login # None \/ c.kind = "client-credentials" \/ c.synthetic
  BY <1>1 DEF FreezeContext
<1>2. CASE ~(c.login # None \/ c.kind = "client-credentials" \/ c.synthetic)
  <2> DEFINE e == FreezeContext(c)
  <2>1. e = [c EXCEPT !.login = LoginNamespace(c)]
    BY <1>2 DEF FreezeContext
  <2> HIDE DEF e
  <2>2. /\ Holding(e, ContextMembers) /\ e.name = c.name
        /\ e.synthetic = c.synthetic /\ e.products = c.products /\ e.client = c.client
    BY <2>1 DEF Unreferenced, Holding, ContextMembers
  <2> QED
    BY <2>2 DEF Unreferenced, e
<1> QED
  BY <1>1, <1>2

LEMMA NoNamespace == None \notin DOMAIN Published
BY NoneAssumption, InputsAssumption

LEMMA InputLoginIs ==
  ASSUME NEW d, NEW c, NEW login, Holding(login, ContextMembers),
         login.client \in Text, Telling(d), Stateable(c.products[c.login]),
         ResolveInputLogin(d, c, login).refused = None
  PROVE  LET e == ResolveInputLogin(d, c, login).value.login
         IN /\ Holding(e, ContextMembers) /\ e.name = login.name
            /\ e.synthetic = login.synthetic /\ e.kind = login.kind /\ e.client \in Text
            /\ RecordedProduct(ResolveInputLogin(d, c, login).value.product)
<1> DEFINE spec == TrimURLs(c.products[c.login])
           direct == ResolveLoginProduct(c.login, d, spec, login)
           gateway == ResolveGateway(d, spec, direct.value.login, direct.value.product)
           r == ResolveInputLogin(d, c, login)
<1>1. r = IF d = None
          THEN IF c.issuer = None \/ c.client = None THEN Refuse("input_malformed")
               ELSE Give([login |-> login, product |-> AsStated(spec)])
          ELSE IF direct.refused # None THEN direct
          ELSE IF gateway.refused # None THEN gateway
          ELSE Give([direct.value EXCEPT !.product = gateway.value])
  BY DEF ResolveInputLogin
<1>0. Stateable(spec)
  BY TrimmedStateable
<1>2. direct.refused = None =>
        LET e == direct.value.login
        IN /\ Holding(e, ContextMembers) /\ e.name = login.name
           /\ e.synthetic = login.synthetic /\ e.kind = login.kind /\ e.client \in Text
           /\ RecordedProduct(direct.value.product)
           /\ Holding(direct.value, {"login", "product"})
  BY <1>0, LoginProductIs
<1> HIDE DEF r
<1>3. d # None /\ direct.refused = None /\ gateway.refused = None =>
        RecordedProduct(gateway.value)
  <2> HIDE DEF direct
  <2> QED
    BY <1>0, <1>2, GatewayIs DEF gateway, spec
<1>4. RecordedProduct(AsStated(spec))
  BY <1>0, AsStatedIs
<1> HIDE DEF spec, direct, gateway
<1>5. Refuse("input_malformed").refused # None
  <2>1. "input_malformed" \in Codes
    BY DEF Codes
  <2> QED
    BY <2>1, NoneAssumption DEF Refuse
<1>6. /\ \/ r.value.login = login
         \/ direct.refused = None /\ r.value.login = direct.value.login
      /\ RecordedProduct(r.value.product)
  <2>1. r.refused = None
    BY DEF r
  <2>2. \/ r = Give([login |-> login, product |-> AsStated(spec)])
        \/ /\ d # None /\ direct.refused = None /\ gateway.refused = None
           /\ r = Give([direct.value EXCEPT !.product = gateway.value])
    BY <1>1, <1>5, <2>1
  <2>3. direct.refused = None =>
          /\ [direct.value EXCEPT !.product = gateway.value].login = direct.value.login
          /\ [direct.value EXCEPT !.product = gateway.value].product = gateway.value
    BY <1>2 DEF Holding
  <2>4. \A x : Give(x).value = x
    BY DEF Give
  <2>5. /\ [login |-> login, product |-> AsStated(spec)].login = login
        /\ [login |-> login, product |-> AsStated(spec)].product = AsStated(spec)
    OBVIOUS
  <2> QED
    BY <1>3, <1>4, <2>2, <2>3, <2>4, <2>5
<1> QED
  BY <1>2, <1>6 DEF r

\* A context of a file, filled in, keeps its name and has no session yet.
LEMMA ResolvedIs ==
  ASSUME NEW store, Inventory(store), NEW c, Holding(c, ContextMembers), c.synthetic = FALSE,
         c.client \in Text, c.login # None => c.login \in DOMAIN c.products,
         DOMAIN c.products \subseteq DOMAIN Published,
         \A ns \in DOMAIN c.products : Stateable(c.products[ns]), Resolve(store, c).refused = None
  PROVE  Unreferenced(Resolve(store, c).value) /\ Resolve(store, c).value.name = c.name
<1> DEFINE kind == IF c.secret # None THEN "client-credentials" ELSE "oauth-browser"
           login == [c EXCEPT !.kind = Or(@, kind)]
           through == IF c.login = None THEN Give([login |-> login])
                      ELSE ResolveInputLogin(Descriptor(store, c.login), c, login)
           start == through.value.login
           tenant == Or(start.tenant, TenantForIssuer(start.issuer))
           type == Or(start.type, IdentityTypeForIssuer(start.issuer))
           target == [start EXCEPT !.tenant = tenant, !.type = type, !.products = << >>]
           others == ResolveOthers(store, c, target)
           refused == {ns \in DOMAIN others : others[ns].refused # None}
           products == [ns \in DOMAIN c.products |->
                          IF ns = c.login THEN through.value.product ELSE others[ns].value]
           whole == [target EXCEPT !.products = products]
           r == Resolve(store, c)
<1>1. /\ Holding(login, ContextMembers) /\ login.name = c.name /\ login.synthetic = FALSE
      /\ login.client \in Text
  BY DEF Holding, ContextMembers
<1>2. r = ResolveThrough(store, c, through)
  BY DEF Resolve
<1>3. through.refused = None =>
        /\ Holding(start, ContextMembers) /\ start.name = c.name /\ start.synthetic = FALSE
        /\ start.client \in Text
        /\ c.login # None => RecordedProduct(through.value.product)
  <2> HIDE DEF login
  <2>1. CASE c.login = None
    <3>1. start = login
      BY <2>1 DEF Give
    <3> QED
      BY <1>1, <2>1, <3>1
  <2>2. CASE c.login # None
    <3>1. c.login \in DOMAIN Published /\ Stateable(c.products[c.login])
      BY <2>2
    <3>2. Telling(Descriptor(store, c.login))
      BY <3>1, DescriptorIs
    <3> QED
      BY <1>1, <2>2, <3>1, <3>2, InputLoginIs
  <2> QED
    BY <2>1, <2>2
<1> HIDE DEF login, through
<1>4. r = IF through.refused # None THEN through
          ELSE ResolveFor(store, c, through,
                 [start EXCEPT
                    !.tenant = Or(@, TenantForIssuer(start.issuer)),
                    !.type = Or(@, IdentityTypeForIssuer(start.issuer)),
                    !.products = << >>])
  BY <1>2 DEF ResolveThrough
<1>5. r.refused = None
  BY DEF r
<1> HIDE DEF r
<1>6. through.refused = None
  BY <1>4, <1>5
<1>7. /\ Holding(start, ContextMembers) /\ start.name = c.name /\ start.synthetic = FALSE
      /\ start.client \in Text
  BY <1>3, <1>6
<1>8. c.login # None => RecordedProduct(through.value.product)
  BY <1>3, <1>6
<1>9. r = ResolveFor(store, c, through, target)
  <2>1. [start EXCEPT !.tenant = Or(@, TenantForIssuer(start.issuer)),
                      !.type = Or(@, IdentityTypeForIssuer(start.issuer)),
                      !.products = << >>] = target
    BY <1>7 DEF Holding, ContextMembers
  <2> QED
    BY <1>4, <1>6, <2>1
<1>10. /\ Holding(target, ContextMembers) /\ target.name = c.name /\ target.synthetic = FALSE
      /\ target.client \in Text
  <2> HIDE DEF start, tenant, type
  <2> QED
    BY <1>7 DEF Holding, ContextMembers
<1> HIDE DEF target
<1>11. r = IF refused # {} THEN others[CHOOSE ns \in refused : TRUE]
           ELSE Give(FreezeContext(whole))
  BY <1>9 DEF ResolveFor, Assembled
<1>12. refused = {}
  <2> SUFFICES ASSUME refused # {} PROVE FALSE
    OBVIOUS
  <2>1. r = others[CHOOSE ns \in refused : TRUE]
    BY <1>11
  <2>2. (CHOOSE ns \in refused : TRUE) \in refused
    OBVIOUS
  <2>3. others[CHOOSE ns \in refused : TRUE].refused # None
    BY <2>2
  <2> QED
    BY <1>5, <2>1, <2>3
<1>13. r.value = FreezeContext(whole)
  BY <1>11, <1>12 DEF Give
<1>14. DOMAIN products = DOMAIN c.products /\ Holding(products, DOMAIN products)
  BY DEF Holding
<1>15. \A ns \in DOMAIN products : RecordedProduct(products[ns])
  <2> SUFFICES ASSUME NEW ns \in DOMAIN c.products PROVE RecordedProduct(products[ns])
    OBVIOUS
  <2>1. CASE ns = c.login
    <3>1. c.login # None
      BY <2>1, NoNamespace
    <3> QED
      BY <1>8, <2>1, <3>1
  <2>2. CASE ns # c.login
    <3>1. ns \in DOMAIN others
          /\ others[ns] = ResolveProduct(ns, Descriptor(store, ns), TrimURLs(c.products[ns]),
                                         target)
      BY <2>2 DEF ResolveOthers
    <3>2. others[ns].refused = None
      BY <1>12, <3>1
    <3>3. Telling(Descriptor(store, ns))
      BY DescriptorIs
    <3>4. Stateable(TrimURLs(c.products[ns]))
      BY TrimmedStateable
    <3>5. RecordedProduct(others[ns].value)
      BY <1>10, <3>1, <3>2, <3>3, <3>4, ResolvedProductIs
    <3> QED
      BY <2>2, <3>5
  <2> QED
    BY <2>1, <2>2
<1> HIDE DEF products, others
<1>16. /\ Holding(whole, ContextMembers) /\ whole.name = c.name
       /\ whole.synthetic = FALSE /\ whole.products = products /\ whole.client \in Text
  BY <1>10 DEF Holding, ContextMembers
<1> HIDE DEF whole
<1>17. Unreferenced(whole)
  BY <1>14, <1>16, <1>15 DEF Unreferenced
<1> QED
  BY <1>13, <1>16, <1>17, FrozenShape DEF r

\* The documents on the way to the one with every context of a file placed.
PlacedStages(d, resolved, k, f) ==
  f = [n \in 0..k |-> IF n = 0 THEN d ELSE Placed(f[n - 1], resolved[n])]

LEMMA PlacedUpTo ==
  ASSUME NEW d, NEW resolved, NEW k \in Nat
  PROVE  \E f : PlacedStages(d, resolved, k, f)
<1> DEFINE Stage(m) ==
             \E f : f = [n \in 0..m |-> IF n = 0 THEN d ELSE Placed(f[n - 1], resolved[n])]
           missing == {m \in 0..k : ~ Stage(m)}
<1>1. Stage(0)
  <2> DEFINE f == [n \in 0..0 |-> d]
  <2>1. f = [n \in 0..0 |-> IF n = 0 THEN d ELSE Placed(f[n - 1], resolved[n])]
    OBVIOUS
  <2> QED
    BY <2>1
<1>2. ASSUME NEW m \in 1..k, Stage(m - 1) PROVE Stage(m)
  <2>1. PICK g : g = [n \in 0..(m - 1) |-> IF n = 0 THEN d ELSE Placed(g[n - 1], resolved[n])]
    BY <1>2
  <2> DEFINE f == [n \in 0..m |-> IF n = m THEN Placed(g[m - 1], resolved[m]) ELSE g[n]]
  <2>2. m \in Nat /\ m # 0 /\ \A n \in 0..m : n # m => n \in 0..(m - 1)
    OBVIOUS
  <2>3. ASSUME NEW n \in 0..m
        PROVE  f[n] = IF n = 0 THEN d ELSE Placed(f[n - 1], resolved[n])
    <3>1. CASE n = m
      <4>1. m - 1 \in 0..m /\ m - 1 # m
        BY <2>2
      <4>2. f[m - 1] = g[m - 1]
        BY <4>1
      <4> QED
        BY <2>2, <3>1, <4>2
    <3>2. CASE n # m
      <4>1. n \in 0..(m - 1) /\ f[n] = g[n]
        BY <2>2, <3>2
      <4>2. g[n] = IF n = 0 THEN d ELSE Placed(g[n - 1], resolved[n])
        BY <2>1, <4>1
      <4>3. n # 0 => n - 1 \in 0..m /\ n - 1 # m
        BY <2>2, <3>2
      <4>4. n # 0 => f[n - 1] = g[n - 1]
        BY <4>3
      <4> HIDE DEF f
      <4> QED
        BY <4>1, <4>2, <4>4
    <3> QED
      BY <3>1, <3>2
  <2>4. f = [n \in 0..m |-> f[n]]
    OBVIOUS
  <2> HIDE DEF f
  <2>5. f = [n \in 0..m |-> IF n = 0 THEN d ELSE Placed(f[n - 1], resolved[n])]
    BY <2>3, <2>4
  <2> QED
    BY <2>5
<1> HIDE DEF Stage
<1>3. missing = {}
  <2> SUFFICES ASSUME missing # {} PROVE FALSE
    OBVIOUS
  <2>1. missing \in SUBSET Nat
    OBVIOUS
  <2>2. PICK m \in missing : \A j \in missing : m <= j
    BY <2>1, LeastPosition
  <2>3. m # 0
    BY <1>1
  <2>4. m \in 1..k /\ m - 1 \in 0..k /\ ~(m <= m - 1)
    BY <2>3
  <2>5. Stage(m - 1)
    BY <2>2, <2>4
  <2> QED
    BY <1>2, <2>4, <2>5
<1>4. Stage(k)
  BY <1>3
<1> QED
  BY <1>4 DEF Stage, PlacedStages

\* A document with the contexts of a file placed in it, so far: each is named
\* there once, and the contexts the file does not name are as they were.
PlacedSoFar(d, e, resolved, n) ==
  /\ Shaped(e) /\ Apart(e) /\ e.default = d.default
  /\ Names(e) = Names(d) \cup {resolved[m].name : m \in 1..n}
  /\ {c \in Contexts(e) : c.name \notin {resolved[m].name : m \in 1..n}}
       = {c \in Contexts(d) : c.name \notin {resolved[m].name : m \in 1..n}}

LEMMA PlacedIs ==
  ASSUME NEW d, Shaped(d), Apart(d), NEW c, Unreferenced(c), c.name \in Nameable
  PROVE  /\ Shaped(Placed(d, c)) /\ Apart(Placed(d, c)) /\ Placed(d, c).default = d.default
         /\ Names(Placed(d, c)) = Names(d) \cup {c.name}
         /\ {e \in Contexts(Placed(d, c)) : e.name # c.name} = {e \in Contexts(d) : e.name # c.name}
<1> DEFINE kept == IF c.name \in Names(d) THEN Find(d, c.name).ref ELSE None
           placed == IF c.kind = "client-credentials" \/ kept = None THEN WithRef(d, c)
                     ELSE [c EXCEPT !.ref = kept]
<1>1. Placed(d, c) = Put(d, placed)
  BY DEF Placed
<1>2. kept \in STRING \cup {None}
  BY FoundIn, ShapedContexts DEF Recorded, Text
<1> HIDE DEF kept
<1>3. Recorded(placed) /\ placed.name = c.name
  <2>1. CASE c.kind = "client-credentials" \/ kept = None
    BY <2>1, ReferencedIs
  <2>2. CASE ~(c.kind = "client-credentials" \/ kept = None)
    <3>1. placed = [c EXCEPT !.ref = kept]
      BY <2>2
    <3> HIDE DEF placed
    <3>2. /\ Holding(placed, ContextMembers) /\ placed.ref = kept /\ placed.name = c.name
          /\ placed.synthetic = c.synthetic /\ placed.products = c.products
          /\ placed.client = c.client
      BY <3>1 DEF Unreferenced, Holding, ContextMembers
    <3> QED
      BY <1>2, <3>2 DEF Recorded, Unreferenced, Text
  <2> QED
    BY <2>1, <2>2
<1> HIDE DEF placed
<1>4. /\ Shaped(Put(d, placed)) /\ Put(d, placed).default = d.default
      /\ Contexts(Put(d, placed)) = {e \in Contexts(d) : e.name # placed.name} \cup {placed}
      /\ Names(Put(d, placed)) = Names(d) \cup {placed.name}
      /\ Apart(Put(d, placed))
  BY <1>3, PutIs
<1> QED
  BY <1>1, <1>3, <1>4

LEMMA AppliedIs ==
  ASSUME NEW d, Shaped(d), Apart(d), NEW resolved, Len(resolved) \in Nat,
         \A n \in 1..Len(resolved) : Unreferenced(resolved[n]) /\ resolved[n].name \in Nameable
  PROVE  PlacedSoFar(d, Applied(d, resolved), resolved, Len(resolved))
<1> DEFINE k == Len(resolved)
           upTo == CHOOSE f : PlacedStages(d, resolved, k, f)
           wrong == {n \in 0..k : ~ PlacedSoFar(d, upTo[n], resolved, n)}
<1>1. Applied(d, resolved) = upTo[k]
  BY DEF Applied, PlacedStages
<1>2. upTo = [n \in 0..k |-> IF n = 0 THEN d ELSE Placed(upTo[n - 1], resolved[n])]
  <2>1. PlacedStages(d, resolved, k, upTo)
    BY PlacedUpTo
  <2> HIDE DEF upTo
  <2> QED
    BY <2>1 DEF PlacedStages
<1> HIDE DEF upTo
<1>3. PlacedSoFar(d, upTo[0], resolved, 0)
  <2>1. upTo[0] = d
    BY <1>2
  <2>2. {resolved[m].name : m \in 1..0} = {}
    OBVIOUS
  <2> QED
    BY <2>1, <2>2 DEF PlacedSoFar
<1>4. ASSUME NEW n \in 1..k, PlacedSoFar(d, upTo[n - 1], resolved, n - 1)
      PROVE  PlacedSoFar(d, upTo[n], resolved, n)
  <2> DEFINE e == upTo[n - 1]
             c == resolved[n]
             before == {resolved[m].name : m \in 1..(n - 1)}
             now == {resolved[m].name : m \in 1..n}
  <2>1. upTo[n] = Placed(e, c)
    <3>1. n \in 0..k /\ n # 0
      OBVIOUS
    <3> QED
      BY <1>2, <3>1
  <2>2. now = before \cup {c.name}
    <3>1. 1..n = (1..(n - 1)) \cup {n}
      OBVIOUS
    <3> QED
      BY <3>1
  <2>3. Unreferenced(c) /\ c.name \in Nameable
    OBVIOUS
  <2>4. /\ Shaped(e) /\ Apart(e) /\ e.default = d.default
        /\ Names(e) = Names(d) \cup before
        /\ {o \in Contexts(e) : o.name \notin before} = {o \in Contexts(d) : o.name \notin before}
    BY <1>4 DEF PlacedSoFar
  <2> HIDE DEF e, c, before, now
  <2>5. /\ Shaped(upTo[n]) /\ Apart(upTo[n]) /\ upTo[n].default = e.default
        /\ Names(upTo[n]) = Names(e) \cup {c.name}
        /\ {o \in Contexts(upTo[n]) : o.name # c.name} = {o \in Contexts(e) : o.name # c.name}
    BY <2>1, <2>3, <2>4, PlacedIs
  <2>6. {o \in Contexts(upTo[n]) : o.name \notin now} = {o \in Contexts(d) : o.name \notin now}
    BY <2>2, <2>4, <2>5
  <2> QED
    BY <2>2, <2>4, <2>5, <2>6 DEF PlacedSoFar, now
<1>5. wrong = {}
  <2> SUFFICES ASSUME wrong # {} PROVE FALSE
    OBVIOUS
  <2>1. wrong \in SUBSET Nat
    OBVIOUS
  <2>2. PICK n \in wrong : \A j \in wrong : n <= j
    BY <2>1, LeastPosition
  <2>3. n # 0
    BY <1>3
  <2>4. n \in 1..k /\ n - 1 \in 0..k /\ ~(n <= n - 1)
    BY <2>3
  <2>5. PlacedSoFar(d, upTo[n - 1], resolved, n - 1)
    BY <2>2, <2>4
  <2> QED
    BY <1>4, <2>4, <2>5
<1> QED
  BY <1>1, <1>5

\* What applying a file makes of a document.
LEMMA FileApplied ==
  ASSUME NEW d, Shaped(d), Apart(d), NEW file \in Files, ValidFile(file), NEW store,
         Inventory(store),
         \A n \in DOMAIN file : Resolve(store, file[n]).refused = None
  PROVE  LET values == [n \in DOMAIN file |-> Resolve(store, file[n]).value]
         IN /\ Shaped(Applied(d, values)) /\ Apart(Applied(d, values))
            /\ Applied(d, values).default = d.default
            /\ Names(Applied(d, values)) = Names(d) \cup {file[n].name : n \in DOMAIN file}
            /\ {c \in Contexts(Applied(d, values)) : c.name \notin {file[n].name : n \in DOMAIN file}}
                 = {c \in Contexts(d) : c.name \notin {file[n].name : n \in DOMAIN file}}
<1> DEFINE k == Len(file)
           values == [n \in DOMAIN file |-> Resolve(store, file[n]).value]
<1>1. k \in Nat /\ DOMAIN file = 1..k
  BY InputsAssumption, SequenceIs
<1>2. \A n \in DOMAIN file : /\ Holding(file[n], ContextMembers) /\ file[n].synthetic = FALSE
                             /\ file[n].client \in Text
                             /\ file[n].login # None => file[n].login \in DOMAIN file[n].products
                             /\ DOMAIN file[n].products \subseteq DOMAIN Published
                             /\ \A ns \in DOMAIN file[n].products :
                                  Stateable(file[n].products[ns])
  <2>1. \A n \in DOMAIN file : file[n].login # None => file[n].login \in DOMAIN file[n].products
    BY DEF ValidFile, ValidInput
  <2> QED
    BY <2>1, InputsAssumption
<1>3. \A n \in DOMAIN file : file[n].name \in Nameable
  <2> DEFINE named == {file[m].name : m \in DOMAIN file}
  <2>1. \A n \in DOMAIN file : file[n].name \in named
    OBVIOUS
  <2>2. named \in {{f[m].name : m \in DOMAIN f} : f \in Files}
    OBVIOUS
  <2> HIDE DEF named
  <2> QED
    BY <2>1, <2>2 DEF Nameable
<1>4. \A n \in DOMAIN file :
        /\ Unreferenced(Resolve(store, file[n]).value)
        /\ Resolve(store, file[n]).value.name = file[n].name
  BY <1>2, ResolvedIs
<1>5. Holding(values, 1..k)
  BY <1>1 DEF Holding
<1> HIDE DEF k
<1>6. Len(values) = k
  BY <1>1, <1>5, SequenceOf
<1>7. \A n \in 1..k : values[n] = Resolve(store, file[n]).value
  BY <1>1
<1> HIDE DEF values
<1>8. \A n \in 1..Len(values) : Unreferenced(values[n]) /\ values[n].name \in Nameable
  BY <1>1, <1>3, <1>4, <1>6, <1>7
<1>9. PlacedSoFar(d, Applied(d, values), values, k)
  BY <1>1, <1>6, <1>8, AppliedIs
<1>10. {values[n].name : n \in 1..k} = {file[n].name : n \in DOMAIN file}
  BY <1>1, <1>4, <1>7
<1> QED
  BY <1>9, <1>10 DEF PlacedSoFar, values

LEMMA ApplyFromKept ==
  ASSUME DiskSound, Held, Readable, NEW file \in Files, ValidFile(file),
         NEW use \in {None} \cup {file[n].name : n \in DOMAIN file}, NEW ensured,
         Inventory(ensured.installed), ApplyFrom(file, use, ensured), strays' = strays
  PROVE  Kept
<1> DEFINE names == {file[n].name : n \in DOMAIN file}
           report == Report("apply", names)
           resolved == [n \in DOMAIN file |-> Resolve(ensured.installed, file[n])]
           refused == {n \in DOMAIN file : resolved[n].refused # None}
           values == [n \in DOMAIN file |-> resolved[n].value]
           applied == Applied(Loaded, values)
           next == IF use = None THEN applied ELSE [applied EXCEPT !.default = use]
<1>1. \/ \E code : Refused(report, code)
      \/ refused = {} /\ Change(report, next)
  <2>1. IF ensured.refused # None THEN Refused(report, ensured.refused)
        ELSE IF refused # {}
        THEN Refused(report, resolved[CHOOSE n \in refused : TRUE].refused)
        ELSE Change(report, next)
    BY DEF ApplyFrom
  <2> HIDE DEF report, refused, resolved, next
  <2> QED
    BY <2>1
<1>2. Holding(report, ReportMembers) /\ report.next = None /\ report.names = names
  BY ReportIs
<1>3. ASSUME Writable, refused = {} PROVE Shaped(next) /\ Leaves(next, names)
  <2>1. Shaped(Loaded) /\ Apart(Loaded)
    BY <1>3, LoadedSound
  <2>2. \A n \in DOMAIN file : Resolve(ensured.installed, file[n]).refused = None
    BY <1>3
  <2> DEFINE given == [n \in DOMAIN file |-> Resolve(ensured.installed, file[n]).value]
             placed == Applied(Loaded, given)
  <2>3. values = given
    OBVIOUS
  <2>4. /\ Shaped(placed) /\ placed.default = Loaded.default
        /\ {c \in Contexts(placed) : c.name \notin names}
             = {c \in Contexts(Loaded) : c.name \notin names}
    BY <2>1, <2>2, FileApplied
  <2> HIDE DEF values, given
  <2>5. placed = applied
    BY <2>3
  <2> HIDE DEF placed, applied, names
  <2>6. /\ Shaped(applied) /\ applied.default = Loaded.default
        /\ {c \in Contexts(applied) : c.name \notin names}
             = {c \in Contexts(Loaded) : c.name \notin names}
    BY <2>4, <2>5
  <2>7. {"contexts", "default"} \subseteq DOMAIN applied
    BY <2>6 DEF Shaped
  <2>8. Leaves(applied, names)
    BY <2>6 DEF Leaves
  <2>9. use # None => use \in names
    BY DEF names
  <2> QED
    BY <2>6, <2>7, <2>8, <2>9, SelectedIs, SelectLeaves
<1> HIDE DEF report, refused, next, names
<1>4. CASE \E code : Refused(report, code)
  <2>1. PICK code : Refused(report, code)
    BY <1>4
  <2> QED
    BY <1>2, <2>1, RefusedKept
<1> QED
  BY <1>1, <1>2, <1>3, <1>4, ChangeKept

\* What is edited of a document is of its contexts, and leaves their names.
LEMMA EditedIs ==
  ASSUME NEW d, Shaped(d), NEW edited \in EditsOf(d)
  PROVE  Shaped(edited) /\ edited.default = d.default /\ Names(edited) = Names(d)
<1> DEFINE s == d.contexts
           r == edited.contexts
<1>1. Len(s) \in Nat /\ DOMAIN s = 1..Len(s) /\ {"contexts", "default"} \subseteq DOMAIN d
      /\ Holding(s, 1..Len(s))
  BY SequenceIs DEF Shaped
<1>2. \A n \in DOMAIN s : Recorded(s[n]) /\ s[n].name \in Nameable
  BY DEF Shaped
<1>3. /\ DOMAIN edited = DOMAIN d /\ edited.default = d.default
      /\ DOMAIN r = DOMAIN s /\ Holding(r, DOMAIN s)
      /\ \A n \in DOMAIN s : Recorded(r[n]) /\ r[n].name = s[n].name
  <2>1. CASE \E n \in DOMAIN s, issuer \in Issuers : edited = [d EXCEPT !.contexts[n].issuer = issuer]
    <3>1. PICK n \in DOMAIN s, issuer \in Issuers : edited = [d EXCEPT !.contexts[n].issuer = issuer]
      BY <2>1
    <3> DEFINE c == [s[n] EXCEPT !.issuer = issuer]
               t == [s EXCEPT ![n] = c]
    <3>2. edited = [d EXCEPT !.contexts = t]
      BY <3>1
    <3>3. /\ Holding(c, ContextMembers) /\ c.name = s[n].name /\ c.ref = s[n].ref
          /\ c.synthetic = s[n].synthetic /\ c.products = s[n].products
          /\ c.client = s[n].client
      BY <1>2 DEF Recorded, Holding, ContextMembers
    <3>4. Recorded(c)
      <4> HIDE DEF c
      <4> QED
        BY <1>2, <3>3 DEF Recorded
    <3> HIDE DEF c
    <3>5. DOMAIN t = DOMAIN s /\ Holding(t, DOMAIN s) /\ \A m \in DOMAIN s : t[m] = IF m = n THEN c ELSE s[m]
      BY <1>1 DEF Holding
    <3> HIDE DEF t
    <3>6. r = t /\ DOMAIN edited = DOMAIN d /\ edited.default = d.default
      BY <1>1, <3>2
    <3> QED
      BY <1>2, <3>3, <3>4, <3>5, <3>6
  <2>2. CASE \E m, n \in DOMAIN s :
               edited = [d EXCEPT !.contexts[m].ref = s[n].ref, !.contexts[n].ref = s[m].ref]
    <3>1. PICK m \in DOMAIN s, n \in DOMAIN s :
            edited = [d EXCEPT !.contexts[m].ref = s[n].ref, !.contexts[n].ref = s[m].ref]
      BY <2>2
    <3> DEFINE b == [s[m] EXCEPT !.ref = s[n].ref]
               u == [s EXCEPT ![m] = b]
               c == [u[n] EXCEPT !.ref = s[m].ref]
               t == [u EXCEPT ![n] = c]
    <3>2. edited = [d EXCEPT !.contexts = t]
      BY <1>1, <3>1
    <3>3. Recorded(b) /\ b.name = s[m].name
      <4>1. /\ Holding(b, ContextMembers) /\ b.name = s[m].name /\ b.ref = s[n].ref
            /\ b.synthetic = s[m].synthetic /\ b.products = s[m].products
            /\ b.client = s[m].client
        BY <1>2 DEF Recorded, Holding, ContextMembers
      <4> HIDE DEF b
      <4> QED
        BY <1>2, <4>1 DEF Recorded
    <3> HIDE DEF b
    <3>4. DOMAIN u = DOMAIN s /\ Holding(u, DOMAIN s) /\ \A i \in DOMAIN s : u[i] = IF i = m THEN b ELSE s[i]
      BY <1>1 DEF Holding
    <3> HIDE DEF u
    <3>5. Recorded(u[n]) /\ u[n].name = s[n].name
      BY <1>2, <3>3, <3>4
    <3>6. Recorded(c) /\ c.name = s[n].name
      <4>1. /\ Holding(c, ContextMembers) /\ c.name = u[n].name /\ c.ref = s[m].ref
            /\ c.synthetic = u[n].synthetic /\ c.products = u[n].products
            /\ c.client = u[n].client
        BY <3>5 DEF Recorded, Holding, ContextMembers
      <4> HIDE DEF c
      <4> QED
        BY <1>2, <3>5, <4>1 DEF Recorded
    <3> HIDE DEF c
    <3>7. DOMAIN t = DOMAIN s /\ Holding(t, DOMAIN s) /\ \A i \in DOMAIN s : t[i] = IF i = n THEN c ELSE u[i]
      BY <1>1, <3>4 DEF Holding
    <3> HIDE DEF t
    <3>8. r = t /\ DOMAIN edited = DOMAIN d /\ edited.default = d.default
      BY <1>1, <3>2
    <3> QED
      BY <1>2, <3>3, <3>4, <3>6, <3>7, <3>8
  <2>3. CASE \E n \in DOMAIN s :
               edited = [d EXCEPT !.contexts[n].products = << >>, !.contexts[n].login = None]
    <3>1. PICK n \in DOMAIN s :
            edited = [d EXCEPT !.contexts[n].products = << >>, !.contexts[n].login = None]
      BY <2>3
    <3> DEFINE c == [s[n] EXCEPT !.products = << >>, !.login = None]
               t == [s EXCEPT ![n] = c]
    <3>2. edited = [d EXCEPT !.contexts = t]
      BY <1>1, <3>1 DEF Holding
    <3>3. /\ Holding(c, ContextMembers) /\ c.name = s[n].name /\ c.ref = s[n].ref
          /\ c.synthetic = s[n].synthetic /\ c.products = << >> /\ c.client = s[n].client
      BY <1>2 DEF Recorded, Holding, ContextMembers
    <3>4. Recorded(c)
      <4>1. DOMAIN << >> = {} /\ Holding(<< >>, DOMAIN << >>)
        BY DEF Holding
      <4> HIDE DEF c
      <4> QED
        BY <1>2, <3>3, <4>1 DEF Recorded
    <3> HIDE DEF c
    <3>5. DOMAIN t = DOMAIN s /\ Holding(t, DOMAIN s) /\ \A m \in DOMAIN s : t[m] = IF m = n THEN c ELSE s[m]
      BY <1>1 DEF Holding
    <3> HIDE DEF t
    <3>6. r = t /\ DOMAIN edited = DOMAIN d /\ edited.default = d.default
      BY <1>1, <3>2
    <3> QED
      BY <1>2, <3>3, <3>4, <3>5, <3>6
  <2>4. \/ \E n \in DOMAIN s, issuer \in Issuers : edited = [d EXCEPT !.contexts[n].issuer = issuer]
        \/ \E m, n \in DOMAIN s :
             edited = [d EXCEPT !.contexts[m].ref = s[n].ref, !.contexts[n].ref = s[m].ref]
        \/ \E n \in DOMAIN s :
             edited = [d EXCEPT !.contexts[n].products = << >>, !.contexts[n].login = None]
    <3>1. \/ \E n \in DOMAIN s, issuer \in Issuers : edited = Reissued(d, n, issuer)
          \/ \E m, n \in DOMAIN s : edited = Swapped(d, m, n)
          \/ \E n \in DOMAIN s : edited = Emptied(d, n)
      BY DEF EditsOf
    <3> QED
      BY <3>1 DEF Reissued, Swapped, Emptied
  <2> QED
    BY <2>1, <2>2, <2>3, <2>4
<1>4. IsSequence(r)
  BY <1>1, <1>3, SequenceOf
<1>5. Shaped(edited)
  BY <1>1, <1>2, <1>3, <1>4 DEF Shaped
<1>6. Names(edited) = Names(d)
  BY <1>3 DEF Names
<1> QED
  BY <1>3, <1>5, <1>6

LEMMA EditKept ==
  ASSUME DiskSound, Held, Edit
  PROVE  Kept
<1> DEFINE report == Report("edit", Names(Loaded))
<1>1. Readable /\ strays' = strays
  BY DEF Edit
<1>2. \/ Refused(report, "document_frozen")
      \/ /\ Writable
         /\ \E edited \in EditsOf(Loaded) :
              IF edited = Loaded THEN done' = report /\ UNCHANGED <<disk, sessions>>
              ELSE Change(report, edited)
  BY DEF Edit
<1>3. Holding(report, ReportMembers) /\ report.next = None /\ report.names = Names(Loaded)
  BY ReportIs
<1> HIDE DEF report
<1>4. CASE Refused(report, "document_frozen")
  BY <1>1, <1>3, <1>4, RefusedKept
<1>5. ASSUME Writable, NEW edited \in EditsOf(Loaded), Change(report, edited)
      PROVE  Kept
  <2>1. Shaped(Loaded)
    BY <1>5, LoadedSound
  <2>2. Shaped(edited) /\ edited.default = Loaded.default
    BY <2>1, EditedIs
  <2>3. Leaves(edited, Names(Loaded))
    BY <2>1, <2>2, ShapedContexts DEF Leaves
  <2> QED
    BY <1>1, <1>3, <1>5, <2>2, <2>3, ChangeKept
<1>6. CASE disk' = disk /\ sessions' = sessions /\ done' = report
  BY <1>1, <1>3, <1>6, UntouchedKept
<1> QED
  BY <1>2, <1>4, <1>5, <1>6

----------------------------------------------------------------------------
(* What a login establishes is what its context reaches.                    *)

\* An access a login of c may establish.
Reaching(c, a) ==
  a = LoginAccess(c) \/ \E key \in RecordKeys(c) : a = Access(c, key) /\ a.strategy # "exchanged"

LEMMA EstablishedPairs ==
  ASSUME NEW c, Usable(c), c.kind # "client-credentials", NEW a, Reaching(c, a)
  PROVE  <<a.ref, Binding(a)>> \in Pairs(c)
<1> DEFINE login == LoginAccess(c)
<1>1. SessionsOf(c) = {b \in Accesses(c) : b.ref # None}
  BY DEF SessionsOf, Usable, Recorded
<1>2. Accesses(c) = {LoginAccess(c)} \cup
        {b \in {Access(c, key) : key \in RecordKeys(c)} :
           b.strategy # "exchanged" /\ b.ref # LoginRef(c)}
  BY DEF Accesses
<1>3. Suggested \in DOMAIN Published /\ c.ref \in STRING \cup {None}
  BY CommandsAssumption DEF Usable, Recorded, Text
<1>4. LoginRef(c) # None /\ login.ref = LoginRef(c)
  BY <1>3, RefsLead, LoginAccessIs
<1>5. <<login.ref, Binding(login)>> \in Pairs(c)
  <2>1. login \in SessionsOf(c)
    BY <1>1, <1>2, <1>4
  <2> HIDE DEF login
  <2> QED
    BY <2>1 DEF Pairs
<1>6. CASE a = login
  BY <1>5, <1>6
<1>7. ASSUME NEW key \in RecordKeys(c), a = Access(c, key), a.strategy # "exchanged"
      PROVE  <<a.ref, Binding(a)>> \in Pairs(c)
  <2>1. PICK ns \in DOMAIN c.products : key \in {Key(ns), GatewayKey(ns)}
    BY DEF RecordKeys
  <2>2. ns \in DOMAIN Published
    BY DEF Usable, Recorded
  <2>3. AsLogin(c, a) \/ a.ref = ProductSessionRef(c, key)
    BY <1>7, AccessIs
  <2>4. CASE AsLogin(c, a)
    BY <1>4, <1>5, <2>4 DEF AsLogin
  <2>5. CASE a.ref = ProductSessionRef(c, key)
    <3>1. a.ref # LoginRef(c) /\ a.ref # None
      BY <1>3, <2>1, <2>2, <2>5, RefsLead, RefsApart
    <3>2. a \in SessionsOf(c)
      BY <1>1, <1>2, <1>7, <3>1
    <3> QED
      BY <3>2 DEF Pairs
  <2> QED
    BY <2>3, <2>4, <2>5
<1> HIDE DEF login
<1>8. a = login \/ \E key \in RecordKeys(c) : a = Access(c, key) /\ a.strategy # "exchanged"
  BY DEF Reaching, login
<1> QED
  BY <1>6, <1>7, <1>8

LEMMA EstablishedReached ==
  ASSUME NEW store, NEW lost, NEW d, Reaches(store, lost, d), NEW accesses
  PROVE  LET refs == {a.ref : a \in accesses}
             after == Established(store, accesses)
         IN /\ Reaches(after, lost \cup refs, d)
            /\ (\A a \in accesses : <<a.ref, Binding(a)>> \in SessionIDs(d)) =>
                 Reaches(after, lost \ refs, d)
<1> DEFINE refs == {a.ref : a \in accesses}
           after == Established(store, accesses)
<1>1. /\ DOMAIN after = refs \cup DOMAIN store
      /\ \A ref \in DOMAIN after :
           after[ref] = IF ref \in refs THEN Binding(CHOOSE a \in accesses : a.ref = ref)
                        ELSE store[ref]
  BY DEF Established
<1>2. ASSUME NEW ref \in refs, \A a \in accesses : <<a.ref, Binding(a)>> \in SessionIDs(d)
      PROVE  <<ref, after[ref]>> \in SessionIDs(d)
  <2> DEFINE a == CHOOSE a \in accesses : a.ref = ref
  <2>1. a \in accesses /\ a.ref = ref
    OBVIOUS
  <2>2. after[ref] = Binding(a)
    BY <1>1
  <2> HIDE DEF a, after
  <2> QED
    BY <1>2, <2>1, <2>2
<1> HIDE DEF refs, after
<1>3. \A ref \in DOMAIN store \ lost : <<ref, store[ref]>> \in SessionIDs(d)
  BY DEF Reaches
<1>4. Reaches(after, lost \cup refs, d)
  BY <1>1, <1>3 DEF Reaches
<1>5. ASSUME \A a \in accesses : <<a.ref, Binding(a)>> \in SessionIDs(d)
      PROVE  Reaches(after, lost \ refs, d)
  <2>1. \A ref \in refs : <<ref, after[ref]>> \in SessionIDs(d)
    BY <1>2, <1>5
  <2>2. \A ref \in DOMAIN after : ref \notin refs => ref \in DOMAIN store /\ after[ref] = store[ref]
    BY <1>1
  <2>3. SUFFICES ASSUME NEW ref \in DOMAIN after \ (lost \ refs)
                 PROVE  <<ref, after[ref]>> \in SessionIDs(d)
    BY DEF Reaches
  <2> QED
    BY <1>3, <2>1, <2>2
<1> QED
  BY <1>4, <1>5 DEF refs, after

LEMMA LostGrows ==
  ASSUME NEW store, NEW lost, NEW more, lost \subseteq more, NEW d, Reaches(store, lost, d)
  PROVE  Reaches(store, more, d)
BY DEF Reaches

\* A document of version 1 has no context a person logs in to.
LEMMA LegacySynthetic ==
  ASSUME DiskSound, Readable, ~Writable
  PROVE  \A c \in Contexts(Loaded) : c.synthetic
<1>1. disk.version = LegacyVersion
  BY DEF Readable, Writable
<1>2. disk \in Documents /\ Loaded = disk
  BY <1>1 DEF DiskSound, Loaded, Read, LegacyVersion, Current, AccountsVersions
<1> QED
  BY <1>1, <1>2, DocumentsAssumption DEF Contexts

LEMMA FoundUsable ==
  ASSUME DiskSound, Readable, NEW name \in Names(Loaded), ~Find(Loaded, name).synthetic
  PROVE  /\ Writable /\ Usable(Find(Loaded, name)) /\ Find(Loaded, name).name = name
         /\ Pairs(Find(Loaded, name)) \subseteq SessionIDs(Loaded)
<1> DEFINE c == Find(Loaded, name)
<1>1. c \in Contexts(Loaded) /\ c.name = name
  BY FoundIn
<1>2. Writable
  BY <1>1, LegacySynthetic
<1>3. Usable(c)
  BY <1>1, <1>2, LoadedSound, SoundContexts
<1>4. Pairs(c) \subseteq SessionIDs(Loaded)
  <2> HIDE DEF c
  <2> QED
    BY <1>1, SessionIDsAre
<1> QED
  BY <1>1, <1>2, <1>3, <1>4

LEMMA LoginReaching ==
  ASSUME NEW c, c.kind # "client-credentials",
         NEW accesses \in {Accesses(c)} \cup LoginAccesses(c), NEW a \in accesses
  PROVE  Reaching(c, a)
<1>1. \A b \in Accesses(c) : Reaching(c, b)
  BY DEF Accesses, Reaching
<1>2. Reaching(c, LoginAccess(c))
  BY DEF Reaching
<1>3. ASSUME NEW key \in RecordKeys(c),
             a \in {b \in {Access(c, k) : k \in {key, GatewayKey(key[1])} \cap RecordKeys(c)} :
                      b.strategy # "exchanged"}
      PROVE  Reaching(c, a)
  BY <1>3 DEF Reaching
<1> DEFINE everything == IF LoginBinds(c) THEN {Accesses(c), {LoginAccess(c)}} ELSE {}
           OfKey(key) ==
             {b \in {Access(c, k) : k \in {key, GatewayKey(key[1])} \cap RecordKeys(c)} :
                b.strategy # "exchanged"}
<1>4. LoginAccesses(c) = everything \cup {OfKey(key) : key \in RecordKeys(c)}
  BY DEF LoginAccesses
<1>5. everything \subseteq {Accesses(c), {LoginAccess(c)}}
  OBVIOUS
<1> HIDE DEF everything
<1>6. \/ accesses \in {Accesses(c), {LoginAccess(c)}}
      \/ \E key \in RecordKeys(c) : accesses = OfKey(key)
  BY <1>4, <1>5
<1>7. CASE accesses \in {Accesses(c), {LoginAccess(c)}}
  BY <1>1, <1>2, <1>7
<1>8. ASSUME NEW key \in RecordKeys(c), accesses = OfKey(key) PROVE Reaching(c, a)
  BY <1>3, <1>8
<1> QED
  BY <1>6, <1>7, <1>8

\* A login stores nothing under another context's reference.
LEMMA EstablishedSpares ==
  ASSUME Sound(Loaded), NEW c \in Contexts(Loaded), NEW some,
         \A a \in some : <<a.ref, Binding(a)>> \in Pairs(c),
         sessions' = Established(sessions, some),
         NEW e \in Contexts(Loaded), e.name # c.name
  PROVE  StoredStill(e)
<1> SUFFICES ASSUME NEW b \in SessionsOf(e), b.ref \in DOMAIN sessions
             PROVE  b.ref \in DOMAIN sessions' /\ sessions'[b.ref] = sessions[b.ref]
  BY DEF StoredStill
<1>1. b.ref \notin {a.ref : a \in some}
  <2> SUFFICES ASSUME NEW a \in some, b.ref = a.ref PROVE FALSE
    OBVIOUS
  <2>1. PICK u \in SessionsOf(c) : u.ref = a.ref
    BY DEF Pairs
  <2> QED
    BY <2>1, RefBinds
<1> QED
  BY <1>1 DEF Established

LEMMA LogInKept ==
  ASSUME DiskSound, Held, LogIn
  PROVE  Kept
<1>1. Readable
  BY DEF LogIn
<1>2. PICK name \in Names(Loaded) :
        LET c == Find(Loaded, name)
            report == Report("login", {name})
        IN \/ \E code : Refused(report, code) /\ strays' = strays
           \/ /\ c.kind \in InteractiveKinds /\ ~c.synthetic /\ disk' = disk
              /\ \E accesses \in LoginAccesses(c) : \E some \in Establishable(c, accesses) :
                   /\ sessions' = Established(sessions, some)
                   /\ done' \in {report, [report EXCEPT !.refused = "login_failed"]}
                   /\ strays' = strays \ {a.ref : a \in some}
  BY DEF LogIn
<1> DEFINE c == Find(Loaded, name)
           report == Report("login", {name})
<1>3. Holding(report, ReportMembers) /\ report.next = None /\ report.names = {name}
  BY ReportIs
<1>4. ASSUME NEW code, Refused(report, code), strays' = strays PROVE Kept
  BY <1>4, <1>3, RefusedKept
<1>5. ASSUME c.kind \in InteractiveKinds, ~c.synthetic, disk' = disk,
             NEW accesses \in LoginAccesses(c), NEW some \in Establishable(c, accesses),
             sessions' = Established(sessions, some), strays' = strays \ {a.ref : a \in some},
             done' \in {report, [report EXCEPT !.refused = "login_failed"]}
      PROVE  Kept
  <2>1. Writable /\ Usable(c) /\ c.name = name /\ Pairs(c) \subseteq SessionIDs(Loaded)
    BY <1>1, <1>5, FoundUsable
  <2>2. c \in Contexts(Loaded)
    BY FoundIn
  <2>3. Sound(Loaded) /\ Shaped(Loaded)
    BY <2>1, LoadedSound
  <2>4. done'.next = None /\ done'.names = {name}
    <3> HIDE DEF report
    <3> QED
      BY <1>5, <1>3 DEF Holding, ReportMembers
  <2>5. c.kind # "client-credentials"
    BY <1>5 DEF InteractiveKinds
  <2>6. some \subseteq accesses
    BY <1>5 DEF Establishable
  <2> HIDE DEF c, report
  <2>7. \A a \in some : <<a.ref, Binding(a)>> \in Pairs(c)
    BY <1>5, <2>1, <2>5, <2>6, LoginReaching, EstablishedPairs
  <2>8. \A a \in some : <<a.ref, Binding(a)>> \in SessionIDs(Loaded)
    BY <2>1, <2>7
  <2>9. Reaches(sessions, strays, Loaded)
    BY <1>1 DEF Held
  <2>10. Reaches(sessions', strays', Loaded)
    BY <1>5, <2>8, <2>9, EstablishedReached
  <2> QED
    <3>1. \A e \in Contexts(Loaded) : e.name \notin done'.names => StoredStill(e)
      BY <1>5, <2>1, <2>2, <2>3, <2>4, <2>7, EstablishedSpares
    <3>2. \A other \in Names(Loaded) \ done'.names :
            StoredStill(FreezeContext(Find(Loaded, other)))
      BY <2>3, <3>1, StoredContexts
    <3> QED
      BY <1>5, <2>10, <2>4, <3>2, StayedKept
<1> HIDE DEF c, report
<1>6. \/ \E code : Refused(report, code) /\ strays' = strays
      \/ /\ c.kind \in InteractiveKinds /\ ~c.synthetic /\ disk' = disk
         /\ \E accesses \in LoginAccesses(c) : \E some \in Establishable(c, accesses) :
              /\ sessions' = Established(sessions, some)
              /\ done' \in {report, [report EXCEPT !.refused = "login_failed"]}
              /\ strays' = strays \ {a.ref : a \in some}
  BY <1>2 DEF c, report
<1> QED
  BY <1>4, <1>5, <1>6

LEMMA LogoutKept ==
  ASSUME DiskSound, Held, Logout
  PROVE  Kept
<1>1. Readable /\ strays' = strays
  BY DEF Logout
<1>2. PICK name \in Names(Loaded) :
        LET c == Find(Loaded, name)
            report == Report("logout", {name})
            refs == {a.ref : a \in SessionsOf(c)} \cap DOMAIN sessions
        IN IF c.kind \notin InteractiveKinds \cup {"client-credentials"} \/ c.synthetic
           THEN Refused(report, "kind_unsupported")
           ELSE \/ done' = report /\ sessions' = Keeping(sessions, refs) /\ UNCHANGED disk
                \/ \E ended \in SUBSET refs \ {refs} :
                     RefusedLeaving(report, "interrupted", Keeping(sessions, ended))
  BY DEF Logout
<1> DEFINE c == Find(Loaded, name)
           report == Report("logout", {name})
           refs == {a.ref : a \in SessionsOf(c)} \cap DOMAIN sessions
<1>3. Holding(report, ReportMembers) /\ report.next = None /\ report.names = {name}
  BY ReportIs
<1>4. \/ Refused(report, "kind_unsupported")
      \/ /\ ~c.synthetic /\ disk' = disk
         /\ done' \in {report, [report EXCEPT !.refused = "interrupted", !.next = None]}
         /\ \E ended \in SUBSET refs : sessions' = Keeping(sessions, ended)
  <2>1. IF c.kind \notin InteractiveKinds \cup {"client-credentials"} \/ c.synthetic
        THEN Refused(report, "kind_unsupported")
        ELSE \/ done' = report /\ sessions' = Keeping(sessions, refs) /\ UNCHANGED disk
             \/ \E ended \in SUBSET refs \ {refs} :
                  RefusedLeaving(report, "interrupted", Keeping(sessions, ended))
    BY <1>2
  <2> HIDE DEF c, report, refs
  <2> QED
    BY <2>1 DEF RefusedLeaving
<1>5. ASSUME ~c.synthetic, disk' = disk,
             done' \in {report, [report EXCEPT !.refused = "interrupted", !.next = None]},
             NEW ended \in SUBSET refs, sessions' = Keeping(sessions, ended)
      PROVE  Kept
  <2>1. Writable /\ c.name = name /\ c \in Contexts(Loaded)
    BY <1>1, <1>5, FoundIn, FoundUsable
  <2>2. Sound(Loaded) /\ Shaped(Loaded)
    BY <2>1, LoadedSound
  <2>3. done'.next = None /\ done'.names = {name}
    <3> HIDE DEF report
    <3> QED
      BY <1>3, <1>5 DEF Holding, ReportMembers
  <2>4. Reaches(sessions', strays', Loaded)
    BY <1>1, <1>5, KeepingIs, FewerReached DEF Held
  <2> HIDE DEF c
  <2>5. ASSUME NEW e \in Contexts(Loaded), e.name # name PROVE StoredStill(e)
    <3>1. \A b \in SessionsOf(e) : b.ref \notin ended
      BY <2>1, <2>2, <2>5, RefBinds
    <3> QED
      BY <1>5, <3>1 DEF StoredStill, Keeping
  <2>6. \A other \in Names(Loaded) \ done'.names :
          StoredStill(FreezeContext(Find(Loaded, other)))
    <3>1. \A e \in Contexts(Loaded) : e.name \notin done'.names => StoredStill(e)
      BY <2>3, <2>5
    <3> QED
      BY <2>2, <3>1, StoredContexts
  <2> QED
    BY <1>5, <2>3, <2>4, <2>6, StayedKept
<1> HIDE DEF c, report, refs
<1> QED
  BY <1>1, <1>3, <1>4, <1>5, RefusedKept

\* The context a login is for: one there is, or one no other shares a name or a
\* reference with, that reaches nothing but its login.
LEMMA PlannedIs ==
  ASSUME DiskSound, Writable, NEW issuer, NEW client \in Clients,
         NEW name \in Range(ContextNames) \cup LoginName(issuer, client)
  PROVE  LET c == PlannedLogin(name, issuer, client)
         IN /\ c.name = name /\ name \in Nameable
            /\ name \in Names(Loaded) =>
                 c = Find(Loaded, name) /\ Usable(c) /\ Pairs(c) \subseteq SessionIDs(Loaded)
            /\ name \notin Names(Loaded) =>
                 /\ Usable(c) /\ Accesses(c) = {LoginAccess(c)}
                 /\ \A o \in Contexts(Loaded) : o.ref # c.ref
<1> DEFINE c == PlannedLogin(name, issuer, client)
<1>1. Sound(Loaded) /\ Shaped(Loaded) /\ Apart(Loaded)
  BY LoadedSound
<1>2. name \in Range(ContextNames) \cup Range(AssignedNames) \cup Names(Loaded)
  <2> DEFINE there == {n \in DOMAIN Loaded.contexts :
                         /\ Loaded.contexts[n].issuer = issuer
                         /\ Loaded.contexts[n].client = client
                         /\ Loaded.contexts[n].kind = "oauth-browser"}
             free == {n \in DOMAIN AssignedNames : AssignedNames[n] \notin Names(Loaded)}
             First(s) == {n \in s : \A m \in s : n <= m}
  <2>1. LoginName(issuer, client) =
          IF there # {} THEN {Loaded.contexts[n].name : n \in First(there)}
          ELSE {AssignedNames[n] : n \in First(free)}
    BY DEF LoginName
  <2>2. First(there) \subseteq DOMAIN Loaded.contexts /\ First(free) \subseteq DOMAIN AssignedNames
    OBVIOUS
  <2> HIDE DEF there, free, First
  <2>3. LoginName(issuer, client) \subseteq Range(AssignedNames) \cup Names(Loaded)
    BY <2>1, <2>2 DEF Names, Range
  <2> QED
    BY <2>3
<1>3. Names(Loaded) \subseteq Nameable
  BY <1>1 DEF Shaped, Names
<1>4. name \in Nameable
  BY <1>2, <1>3 DEF Nameable
<1>5. ASSUME name \in Names(Loaded)
      PROVE  /\ c = Find(Loaded, name) /\ c.name = name /\ Usable(c)
             /\ Pairs(c) \subseteq SessionIDs(Loaded)
  <2>1. c = Find(Loaded, name)
    BY <1>5 DEF PlannedLogin
  <2> HIDE DEF c
  <2>2. c \in Contexts(Loaded) /\ c.name = name
    BY <1>5, <2>1, FoundIn
  <2> QED
    BY <1>1, <2>1, <2>2, SoundContexts, SessionIDsAre
<1>6. ASSUME name \notin Names(Loaded)
      PROVE  /\ c.name = name /\ Usable(c) /\ Accesses(c) = {LoginAccess(c)}
             /\ \A o \in Contexts(Loaded) : o.ref # c.ref
  <2> DEFINE n == NewContext(name)
             ref == NewCredentialRef(Loaded, Numbered[name])
             type == IdentityTypeForIssuer(issuer)
             tenant == TenantForIssuer(issuer)
  <2>1. c = [n EXCEPT !.issuer = issuer, !.client = client, !.type = type,
                      !.tenant = tenant, !.org = tenant, !.ref = ref]
    BY <1>6 DEF PlannedLogin
  <2>2. /\ Holding(n, ContextMembers) /\ n.name = name /\ n.synthetic = FALSE
        /\ n.products = << >> /\ n.kind = "oauth-browser"
    BY DEF NewContext, Holding, ContextMembers
  <2>3. ref \in STRING /\ \A o \in Contexts(Loaded) : o.ref # ref
    BY <1>1, <1>4, NewRefIs
  <2> HIDE DEF n, ref, type, tenant, c
  <2>4. /\ Holding(c, ContextMembers) /\ c.name = name /\ c.synthetic = FALSE
        /\ c.products = << >> /\ c.kind = "oauth-browser" /\ c.ref = ref
        /\ c.client = client
    BY <2>1, <2>2 DEF Holding, ContextMembers
  <2>5. DOMAIN << >> = {} /\ Holding(<< >>, DOMAIN << >>)
    BY DEF Holding
  <2>6. Usable(c)
    BY <2>3, <2>4, <2>5, InputsAssumption DEF Usable, Recorded, Text
  <2>7. RecordKeys(c) = {}
    BY <2>4, <2>5 DEF RecordKeys
  <2>8. Accesses(c) = {LoginAccess(c)}
    BY <2>4, <2>7 DEF Accesses
  <2> QED
    BY <2>3, <2>4, <2>6, <2>8
<1> QED
  BY <1>4, <1>5, <1>6

\* How it ends: refused before anything is stored, or with sessions stored.
LEMMA LogInCreatingEnds ==
  ASSUME LogInCreating
  PROVE  \E issuer \in Issuers, client \in Clients :
         \E name \in Range(ContextNames) \cup LoginName(issuer, client) :
           LET c == PlannedLogin(name, issuer, client)
               report == Report("login-creating", {name})
               default == IF Loaded.default = None THEN name ELSE Loaded.default
           IN \/ \E code \in Codes : Refused(report, code) /\ strays' = strays
              \/ /\ Writable /\ c.kind \in InteractiveKinds
                 /\ \/ \E some \in Establishable(c, Accesses(c)) \ {Accesses(c)} :
                         /\ RefusedLeaving(report, "login_failed", Established(sessions, some))
                         /\ strays' = strays
                    \/ /\ UpdateLeaving(report, [Put(Loaded, c) EXCEPT !.default = default],
                                        Established(sessions, Accesses(c)))
                       /\ strays' = IF done'.refused # None /\ name \notin Names(Loaded)
                                    THEN strays \cup {LoginRef(c)} ELSE strays \ {LoginRef(c)}
<1>1. PICK issuer \in Issuers, client \in Clients, given \in {None} \cup Range(ContextNames) :
      \E name \in IF given = None THEN LoginName(issuer, client) ELSE {given} :
      \E c \in {PlannedLogin(name, issuer, client)} :
         LET report == Report("login-creating", {name})
             default == IF Loaded.default = None THEN name ELSE Loaded.default
         IN \/ /\ Served[issuer] \in {"unreadable", "userinfo"}
               /\ Refused(report, "invalid_argument") /\ UNCHANGED strays
            \/ /\ Served[issuer] \notin {"unreadable", "userinfo"}
               /\ <<c.issuer, c.client>> # <<issuer, client>>
               /\ Refused(report, "context_exists") /\ UNCHANGED strays
            \/ /\ Served[issuer] \notin {"unreadable", "userinfo"}
               /\ <<c.issuer, c.client>> = <<issuer, client>>
               /\ IF ~Writable THEN Refused(report, "document_frozen") /\ UNCHANGED strays
                  ELSE IF c.kind \notin InteractiveKinds
                  THEN Refused(report, "kind_unsupported") /\ UNCHANGED strays
                  ELSE IF ~LoginBinds(c)
                  THEN Refused(report, "product_not_configured") /\ UNCHANGED strays
                  ELSE \/ \E some \in Establishable(c, Accesses(c)) \ {Accesses(c)} :
                            /\ RefusedLeaving(report, "login_failed", Established(sessions, some))
                            /\ UNCHANGED strays
                       \/ /\ Accesses(c) \in Establishable(c, Accesses(c))
                          /\ UpdateLeaving(report, [Put(Loaded, c) EXCEPT !.default = default],
                                           Established(sessions, Accesses(c)))
                          /\ strays' = IF done'.refused # None /\ name \notin Names(Loaded)
                                       THEN strays \cup {LoginRef(c)} ELSE strays \ {LoginRef(c)}
  BY DEF LogInCreating
<1>2. PICK name \in IF given = None THEN LoginName(issuer, client) ELSE {given} :
      \E c \in {PlannedLogin(name, issuer, client)} :
         LET report == Report("login-creating", {name})
             default == IF Loaded.default = None THEN name ELSE Loaded.default
         IN \/ /\ Served[issuer] \in {"unreadable", "userinfo"}
               /\ Refused(report, "invalid_argument") /\ UNCHANGED strays
            \/ /\ Served[issuer] \notin {"unreadable", "userinfo"}
               /\ <<c.issuer, c.client>> # <<issuer, client>>
               /\ Refused(report, "context_exists") /\ UNCHANGED strays
            \/ /\ Served[issuer] \notin {"unreadable", "userinfo"}
               /\ <<c.issuer, c.client>> = <<issuer, client>>
               /\ IF ~Writable THEN Refused(report, "document_frozen") /\ UNCHANGED strays
                  ELSE IF c.kind \notin InteractiveKinds
                  THEN Refused(report, "kind_unsupported") /\ UNCHANGED strays
                  ELSE IF ~LoginBinds(c)
                  THEN Refused(report, "product_not_configured") /\ UNCHANGED strays
                  ELSE \/ \E some \in Establishable(c, Accesses(c)) \ {Accesses(c)} :
                            /\ RefusedLeaving(report, "login_failed", Established(sessions, some))
                            /\ UNCHANGED strays
                       \/ /\ Accesses(c) \in Establishable(c, Accesses(c))
                          /\ UpdateLeaving(report, [Put(Loaded, c) EXCEPT !.default = default],
                                           Established(sessions, Accesses(c)))
                          /\ strays' = IF done'.refused # None /\ name \notin Names(Loaded)
                                       THEN strays \cup {LoginRef(c)} ELSE strays \ {LoginRef(c)}
  BY <1>1
<1> DEFINE c == PlannedLogin(name, issuer, client)
           report == Report("login-creating", {name})
           default == IF Loaded.default = None THEN name ELSE Loaded.default
           failing(some) ==
             /\ RefusedLeaving(report, "login_failed", Established(sessions, some))
             /\ strays' = strays
           recording ==
             /\ UpdateLeaving(report, [Put(Loaded, c) EXCEPT !.default = default],
                              Established(sessions, Accesses(c)))
             /\ strays' = IF done'.refused # None /\ name \notin Names(Loaded)
                          THEN strays \cup {LoginRef(c)} ELSE strays \ {LoginRef(c)}
           stops(code) == Refused(report, code) /\ strays' = strays
<1>3. name \in Range(ContextNames) \cup LoginName(issuer, client)
  BY <1>1, <1>2
<1>4. {"invalid_argument", "context_exists", "document_frozen", "kind_unsupported",
       "product_not_configured"} \subseteq Codes
  BY DEF Codes
<1>5. \/ stops("invalid_argument") \/ stops("context_exists")
      \/ IF ~Writable THEN stops("document_frozen")
         ELSE IF c.kind \notin InteractiveKinds THEN stops("kind_unsupported")
         ELSE IF ~LoginBinds(c) THEN stops("product_not_configured")
         ELSE (\E some \in Establishable(c, Accesses(c)) \ {Accesses(c)} : failing(some)) \/ recording
  BY <1>2
<1>6. ASSUME \/ \E code \in Codes : stops(code)
             \/ /\ Writable /\ c.kind \in InteractiveKinds
                /\ \/ \E some \in Establishable(c, Accesses(c)) \ {Accesses(c)} : failing(some)
                   \/ recording
      PROVE  \/ \E code \in Codes : Refused(report, code) /\ strays' = strays
             \/ /\ Writable /\ c.kind \in InteractiveKinds
                /\ \/ \E some \in Establishable(c, Accesses(c)) \ {Accesses(c)} :
                        /\ RefusedLeaving(report, "login_failed", Established(sessions, some))
                        /\ strays' = strays
                   \/ /\ UpdateLeaving(report, [Put(Loaded, c) EXCEPT !.default = default],
                                       Established(sessions, Accesses(c)))
                      /\ strays' = IF done'.refused # None /\ name \notin Names(Loaded)
                                   THEN strays \cup {LoginRef(c)} ELSE strays \ {LoginRef(c)}
  BY <1>6
<1>7. \/ \E code \in Codes : stops(code)
      \/ /\ Writable /\ c.kind \in InteractiveKinds
         /\ \/ \E some \in Establishable(c, Accesses(c)) \ {Accesses(c)} : failing(some)
            \/ recording
  <2> HIDE DEF stops, failing, recording, c
  <2> QED
    BY <1>4, <1>5
<1> QED
  BY <1>3, <1>6, <1>7

LEMMA LogInCreatingKept ==
  ASSUME DiskSound, Held, LogInCreating
  PROVE  Kept
<1>1. Readable
  BY DEF LogInCreating
<1>2. PICK issuer \in Issuers, client \in Clients :
      \E name \in Range(ContextNames) \cup LoginName(issuer, client) :
           LET c == PlannedLogin(name, issuer, client)
               report == Report("login-creating", {name})
               default == IF Loaded.default = None THEN name ELSE Loaded.default
           IN \/ \E code \in Codes : Refused(report, code) /\ strays' = strays
              \/ /\ Writable /\ c.kind \in InteractiveKinds
                 /\ \/ \E some \in Establishable(c, Accesses(c)) \ {Accesses(c)} :
                         /\ RefusedLeaving(report, "login_failed", Established(sessions, some))
                         /\ strays' = strays
                    \/ /\ UpdateLeaving(report, [Put(Loaded, c) EXCEPT !.default = default],
                                        Established(sessions, Accesses(c)))
                       /\ strays' = IF done'.refused # None /\ name \notin Names(Loaded)
                                    THEN strays \cup {LoginRef(c)} ELSE strays \ {LoginRef(c)}
  BY LogInCreatingEnds
<1>3. PICK name \in Range(ContextNames) \cup LoginName(issuer, client) :
           LET c == PlannedLogin(name, issuer, client)
               report == Report("login-creating", {name})
               default == IF Loaded.default = None THEN name ELSE Loaded.default
           IN \/ \E code \in Codes : Refused(report, code) /\ strays' = strays
              \/ /\ Writable /\ c.kind \in InteractiveKinds
                 /\ \/ \E some \in Establishable(c, Accesses(c)) \ {Accesses(c)} :
                         /\ RefusedLeaving(report, "login_failed", Established(sessions, some))
                         /\ strays' = strays
                    \/ /\ UpdateLeaving(report, [Put(Loaded, c) EXCEPT !.default = default],
                                        Established(sessions, Accesses(c)))
                       /\ strays' = IF done'.refused # None /\ name \notin Names(Loaded)
                                    THEN strays \cup {LoginRef(c)} ELSE strays \ {LoginRef(c)}
  BY <1>2
<1>4. ASSUME Writable
      PROVE  LET c == PlannedLogin(name, issuer, client)
             IN /\ c.name = name /\ name \in Nameable
                /\ name \in Names(Loaded) =>
                     c = Find(Loaded, name) /\ Usable(c) /\ Pairs(c) \subseteq SessionIDs(Loaded)
                /\ name \notin Names(Loaded) =>
                     /\ Usable(c) /\ Accesses(c) = {LoginAccess(c)}
                     /\ \A o \in Contexts(Loaded) : o.ref # c.ref
  BY <1>4, PlannedIs
<1> DEFINE c == PlannedLogin(name, issuer, client)
           report == Report("login-creating", {name})
           default == IF Loaded.default = None THEN name ELSE Loaded.default
           put == Put(Loaded, c)
           next == [put EXCEPT !.default = default]
           refs == {a.ref : a \in Accesses(c)}
<1>5. Reaches(sessions, strays, Loaded)
  BY <1>1 DEF Held
<1>6. Holding(report, ReportMembers) /\ report.refused = None /\ report.next = None
      /\ report.names = {name}
  BY ReportIs
<1>7. ASSUME NEW code, Refused(report, code), strays' = strays PROVE Kept
  BY <1>7, <1>6, RefusedKept
<1>8. ASSUME Writable
      PROVE  /\ c.name = name /\ name \in Nameable
             /\ name \in Names(Loaded) =>
                  c = Find(Loaded, name) /\ Usable(c) /\ Pairs(c) \subseteq SessionIDs(Loaded)
             /\ name \notin Names(Loaded) =>
                  /\ Usable(c) /\ Accesses(c) = {LoginAccess(c)}
                  /\ \A e \in Contexts(Loaded) : e.ref # c.ref
  BY <1>8, <1>4
<1>9. ASSUME Writable, c.kind \in InteractiveKinds
      PROVE  /\ \A a \in Accesses(c) : <<a.ref, Binding(a)>> \in Pairs(c)
             /\ LoginRef(c) \in refs
  <2>1. Usable(c) /\ c.kind # "client-credentials"
    BY <1>8, <1>9 DEF InteractiveKinds
  <2> HIDE DEF c
  <2>2. \A a \in Accesses(c) : Reaching(c, a)
    BY <2>1, LoginReaching
  <2>3. LoginAccess(c) \in Accesses(c) /\ LoginAccess(c).ref = LoginRef(c)
    BY <2>1, LoginAccessIs DEF Accesses
  <2> QED
    BY <2>1, <2>2, <2>3, EstablishedPairs
<1>10. ASSUME Writable, c.kind \in InteractiveKinds, NEW some, some \subseteq Accesses(c),
              sessions' = Established(sessions, some)
       PROVE  \A e \in Contexts(Loaded) : e.name \notin {name} => StoredStill(e)
  <2> SUFFICES ASSUME NEW e \in Contexts(Loaded), e.name # name PROVE StoredStill(e)
    OBVIOUS
  <2>1. Sound(Loaded)
    BY <1>10, LoadedSound
  <2>2. CASE name \in Names(Loaded)
    <3>1. c \in Contexts(Loaded) /\ c.name = name
      BY <1>8, <1>10, <2>2, FoundIn
    <3>2. \A a \in some : <<a.ref, Binding(a)>> \in Pairs(c)
      BY <1>9, <1>10
    <3> HIDE DEF c
    <3> QED
      BY <1>10, <2>1, <3>1, <3>2, EstablishedSpares
  <2>3. CASE name \notin Names(Loaded)
    <3>1. /\ Usable(c) /\ Accesses(c) = {LoginAccess(c)} /\ e.ref # c.ref
      BY <1>8, <1>10, <2>3
    <3>2. Usable(e)
      BY <2>1, SoundContexts
    <3> HIDE DEF c
    <3>3. LoginRef(c)[1] = c.ref /\ LoginAccess(c).ref = LoginRef(c)
      BY <3>1, CommandsAssumption, RefsLead, LoginAccessIs DEF Usable, Recorded, Text
    <3>4. \A b \in SessionsOf(e) : b.ref[1] = e.ref
      BY <3>2, SessionIs
    <3>5. \A b \in SessionsOf(e) : b.ref \notin {a.ref : a \in some}
      BY <1>10, <3>1, <3>3, <3>4
    <3> QED
      BY <1>10, <3>5 DEF StoredStill, Established
  <2> QED
    BY <2>2, <2>3
<1>11. ASSUME Writable, c.kind \in InteractiveKinds, NEW some, some \subseteq Accesses(c),
              sessions' = Established(sessions, some), done'.names = {name}
       PROVE  \A other \in Names(Loaded) \ done'.names :
                StoredStill(FreezeContext(Find(Loaded, other)))
  <2>1. \A e \in Contexts(Loaded) : e.name \notin done'.names => StoredStill(e)
    BY <1>10, <1>11
  <2>2. Shaped(Loaded)
    BY <1>11, LoadedSound
  <2> HIDE DEF c
  <2> QED
    BY <2>1, <2>2, StoredContexts
<1>12. ASSUME Writable, c.kind \in InteractiveKinds,
             NEW some \in Establishable(c, Accesses(c)) \ {Accesses(c)},
             RefusedLeaving(report, "login_failed", Established(sessions, some)), strays' = strays
      PROVE  Kept
  <2>1. /\ disk' = disk /\ sessions' = Established(sessions, some)
        /\ done'.next = None /\ done'.names = {name}
    <3> HIDE DEF report
    <3> QED
      BY <1>6, <1>12 DEF RefusedLeaving, Holding, ReportMembers
  <2>2. some \subseteq Accesses(c) /\ some # Accesses(c)
    BY <1>12 DEF Establishable
  <2>3. \A a \in some : <<a.ref, Binding(a)>> \in SessionIDs(Loaded)
    <3>1. CASE name \in Names(Loaded)
      <4>1. Pairs(c) \subseteq SessionIDs(Loaded)
        BY <1>8, <1>12, <3>1
      <4> HIDE DEF c
      <4> QED
        BY <1>9, <1>12, <2>2, <4>1
    <3>2. CASE name \notin Names(Loaded)
      <4>1. Accesses(c) = {LoginAccess(c)}
        BY <1>8, <1>12, <3>2
      <4> HIDE DEF c
      <4>2. some = {}
        BY <2>2, <4>1
      <4> QED
        BY <4>2
    <3> QED
      BY <3>1, <3>2
  <2>4. Reaches(sessions', strays \ {a.ref : a \in some}, Loaded)
    BY <1>5, <2>1, <2>3, EstablishedReached
  <2>5. Reaches(sessions', strays', Loaded)
    BY <1>12, <2>4, LostGrows
  <2>6. \A other \in Names(Loaded) \ done'.names :
          StoredStill(FreezeContext(Find(Loaded, other)))
    BY <1>12, <1>11, <2>1, <2>2
  <2> QED
    BY <2>1, <2>5, <2>6, StayedKept
<1>13. ASSUME Writable, c.kind \in InteractiveKinds,
              UpdateLeaving(report, next, Established(sessions, Accesses(c))),
              strays' = IF done'.refused # None /\ name \notin Names(Loaded)
                        THEN strays \cup {LoginRef(c)} ELSE strays \ {LoginRef(c)}
       PROVE  Kept
  <2>1. /\ sessions' = Established(sessions, Accesses(c))
        /\ done'.names = {name} /\ done'.next = None
        /\ \/ disk' = disk /\ done'.refused # None
           \/ ValidDocument(Freeze(next)) /\ disk' = Written(next) /\ done' = report
    BY <1>6, <1>13, UpdateEnds
  <2>2. strays \ refs \subseteq strays \ {LoginRef(c)}
    BY <1>9, <1>13
  <2>3. \A other \in Names(Loaded) \ done'.names :
          StoredStill(FreezeContext(Find(Loaded, other)))
    BY <1>13, <1>11, <2>1
  <2>4. CASE disk' = disk /\ done'.refused # None
    <3>1. CASE name \in Names(Loaded)
      <4>1. Pairs(c) \subseteq SessionIDs(Loaded)
        BY <1>8, <1>13, <3>1
      <4>2. strays' = strays \ {LoginRef(c)}
        BY <1>13, <3>1
      <4>3. \A a \in Accesses(c) : <<a.ref, Binding(a)>> \in SessionIDs(Loaded)
        BY <1>9, <1>13, <4>1
      <4>4. Reaches(sessions', strays \ refs, Loaded)
        BY <1>5, <2>1, <4>3, EstablishedReached
      <4>5. Reaches(sessions', strays', Loaded)
        BY <2>2, <4>2, <4>4, LostGrows
      <4> QED
        BY <2>1, <2>4, <2>3, <4>5, StayedKept
    <3>2. CASE name \notin Names(Loaded)
      <4>1. Accesses(c) = {LoginAccess(c)} /\ LoginAccess(c).ref = LoginRef(c)
        BY <1>8, <1>13, <3>2, LoginAccessIs
      <4>2. refs = {LoginRef(c)}
        BY <4>1
      <4>3. Reaches(sessions', strays \cup refs, Loaded)
        BY <1>5, <2>1, EstablishedReached
      <4>4. strays' = strays \cup {LoginRef(c)}
        BY <1>13, <2>4, <3>2
      <4> QED
        BY <2>1, <2>4, <2>3, <4>2, <4>3, <4>4, StayedKept
    <3> QED
      BY <3>1, <3>2
  <2>5. CASE ValidDocument(Freeze(next)) /\ disk' = Written(next) /\ done' = report
    <3>1. Shaped(Loaded) /\ Apart(Loaded)
      BY <1>13, LoadedSound
    <3>2. Recorded(c) /\ c.name = name /\ name \in Nameable
      BY <1>8, <1>13 DEF Usable
    <3>3. \A e \in Contexts(Loaded) : e.name = c.name => Pairs(e) \subseteq Pairs(c)
      <4>1. CASE name \in Names(Loaded)
        <5>1. c = Find(Loaded, name)
          BY <1>8, <1>13, <4>1
        <5> HIDE DEF c
        <5> QED
          BY <3>1, <3>2, <4>1, <5>1, FoundIn
      <4>2. CASE name \notin Names(Loaded)
        BY <3>1, <3>2, <4>2, ShapedContexts
      <4> QED
        BY <4>1, <4>2
    <3>4. /\ Shaped(put) /\ SessionIDs(Loaded) \subseteq SessionIDs(put)
          /\ Pairs(c) \subseteq SessionIDs(put) /\ Leaves(put, {name})
      <4> HIDE DEF c
      <4> QED
        BY <3>1, <3>2, <3>3, PutIs, PutReaches, PutLeaves
    <3>5. {"contexts", "default"} \subseteq DOMAIN put
      BY <3>4 DEF Shaped
    <3>6. Shaped(next) /\ SessionIDs(next) = SessionIDs(put) /\ Leaves(next, {name})
      <4>1. default \in {name, Loaded.default}
        OBVIOUS
      <4> HIDE DEF put, default
      <4>2. /\ Shaped(next) /\ SessionIDs(next) = SessionIDs(put)
            /\ Contexts(next) = Contexts(put) /\ next.default = default
        BY <3>4, <3>5, SelectedIs
      <4> HIDE DEF next
      <4>3. Leaves(next, {name})
        BY <3>4, <4>1, <4>2 DEF Leaves
      <4> QED
        BY <4>2, <4>3
    <3>7. strays' = strays \ {LoginRef(c)}
      BY <1>6, <1>13, <2>5
    <3> HIDE DEF put, next, c, report
    <3>8. \A a \in Accesses(c) : <<a.ref, Binding(a)>> \in SessionIDs(next)
      BY <1>9, <1>13, <3>4, <3>6
    <3>9. Reaches(sessions, strays, next)
      BY <1>5, <3>4, <3>6, SubsetReached
    <3>10. Reaches(sessions', strays \ refs, next)
      BY <2>1, <3>8, <3>9, EstablishedReached
    <3>11. Reaches(sessions', strays', next)
      BY <2>2, <3>7, <3>10, LostGrows
    <3>12. \A e \in Contexts(Loaded) : e.name \notin done'.names => StoredStill(e)
      BY <1>13, <1>10, <2>1
    <3>13. Stays
      BY <1>13, <2>1, <2>5, <3>6, <3>11, <3>12, WroteStays
    <3> QED
      BY <2>1, <3>13, QuietKept
  <2> QED
    BY <2>1, <2>4, <2>5
<1> QED
  BY <1>3, <1>7, <1>12, <1>13

----------------------------------------------------------------------------
(* What is installed, and what a set-up has still to add.                   *)

Stocked == Inventory(installed)

SetupSound ==
  setup # NoSetup =>
    /\ Writable /\ Holding(setup, {"name", "products"})
    /\ DOMAIN setup.products \subseteq DOMAIN Published
    /\ \A ns \in DOMAIN setup.products : Stateable(setup.products[ns])

\* The newest release of a product is one of its releases.
LEMMA NewestIs ==
  ASSUME NEW ns \in DOMAIN Published
  PROVE  Newest(ns) \in DOMAIN Published[ns]
<1> DEFINE s == Published[ns]
<1>1. IsSequence(s) /\ s # << >>
  BY InputsAssumption
<1>2. Len(s) \in Nat /\ DOMAIN s = 1..Len(s) /\ Holding(s, 1..Len(s))
  BY <1>1, SequenceIs
<1>3. Len(s) # 0
  BY <1>1 DEF IsSequence
<1> QED
  BY <1>2, <1>3 DEF Newest

\* So is the one a file pins.
LEMMA PinnedIs ==
  ASSUME NEW file \in Files, NEW ns \in Listed(file)
  PROVE  /\ ns \in DOMAIN Published
         /\ Pinned(file, ns) \in {None} \cup DOMAIN Published[ns]
<1> DEFINE listing == {n \in DOMAIN file : ns \in DOMAIN file[n].products}
           Leading(k) == /\ ns \in DOMAIN file[k].products
                         /\ \A m \in 1..(k - 1) : ns \notin DOMAIN file[m].products
           first == CHOOSE k \in DOMAIN file : Leading(k)
<1>1. Len(file) \in Nat /\ DOMAIN file = 1..Len(file)
  BY InputsAssumption, SequenceIs
<1>2. listing # {} /\ listing \in SUBSET Nat
  BY <1>1 DEF Listed
<1>3. PICK n \in listing : \A j \in listing : n <= j
  BY <1>2, LeastPosition
<1>4. ASSUME NEW m \in 1..(n - 1) PROVE ns \notin DOMAIN file[m].products
  <2>1. m \in DOMAIN file /\ ~(n <= m)
    BY <1>1
  <2> QED
    BY <1>3, <2>1
<1>5. n \in DOMAIN file /\ Leading(n)
  BY <1>4
<1> HIDE DEF Leading
<1>6. first \in DOMAIN file /\ Leading(first)
  BY <1>5
<1> HIDE DEF first
<1>7. first \in DOMAIN file /\ ns \in DOMAIN file[first].products
  BY <1>6 DEF Leading
<1>8. Pinned(file, ns) = file[first].products[ns].version
  BY DEF Pinned, first, Leading
<1> QED
  BY <1>7, <1>8, InputsAssumption

LEMMA EnsuredIs ==
  ASSUME Stocked, NEW ns \in DOMAIN Published, NEW noInstall,
         NEW ensured \in Ensured(ns, noInstall)
  PROVE  Inventory(ensured.installed)
<1> DEFINE filled == [installed EXCEPT ![ns] = Newest(ns)]
<1>1. ensured.installed \in {installed, filled}
  BY DEF Ensured
<1>2. Inventory(filled)
  BY NewestIs DEF Stocked, Inventory
<1> QED
  BY <1>1, <1>2 DEF Stocked

LEMMA InstallingIs ==
  ASSUME Stocked, NEW file \in Files, NEW needs \in SUBSET Listed(file),
         NEW ensured \in AfterInstalling(file, needs)
  PROVE  Inventory(ensured.installed)
<1> DEFINE With(some) == [ns \in DOMAIN installed |->
                            IF ns \in some THEN Or(Pinned(file, ns), Newest(ns)) ELSE installed[ns]]
<1>1. AfterInstalling(file, needs) =
        {[installed |-> With(needs), refused |-> None]} \cup
        {[installed |-> With(some), refused |-> "install_failed"] : some \in SUBSET needs \ {needs}}
  BY DEF AfterInstalling
<1>2. PICK some \in SUBSET needs : ensured.installed = With(some)
  <2> HIDE DEF With
  <2>1. CASE ensured \in {[installed |-> With(needs), refused |-> None]}
    BY <2>1
  <2>2. CASE ensured \in {[installed |-> With(some), refused |-> "install_failed"] :
                            some \in SUBSET needs \ {needs}}
    BY <2>2
  <2> QED
    BY <1>1, <2>1, <2>2
<1>3. ASSUME NEW ns \in DOMAIN installed
      PROVE  With(some)[ns] \in {None} \cup DOMAIN Published[ns]
  <2>1. CASE ns \in some
    BY <2>1, NewestIs, PinnedIs DEF Or
  <2>2. CASE ns \notin some
    BY <2>2 DEF Stocked, Inventory
  <2> QED
    BY <2>1, <2>2
<1> QED
  BY <1>2, <1>3 DEF Stocked, Inventory

LEMMA NamedIs ==
  ASSUME Stocked, NEW given \in CreateFlags
  PROVE  Named(given).product \in {None} \cup DOMAIN Published /\ Named(given).client \in Text
<1> DEFINE providers == {ns \in DOMAIN installed : LoginProvider(Descriptor(installed, ns))}
           default == DefaultLoginProduct(installed)
<1>1. /\ Holding(given, DOMAIN NoFlags) /\ "product" \in DOMAIN NoFlags
      /\ given.product \in {None} \cup DOMAIN Published /\ given.client \in Text
  BY InputsAssumption DEF NoFlags
<1>2. default \in {None} \cup DOMAIN Published
  <2>1. default = IF providers = {} THEN Suggested
                  ELSE IF Cardinality(providers) = 1 THEN CHOOSE ns \in providers : TRUE ELSE None
    BY DEF DefaultLoginProduct
  <2>2. providers \subseteq DOMAIN Published
    BY DEF Stocked, Inventory
  <2>3. Suggested \in DOMAIN Published
    BY CommandsAssumption
  <2> HIDE DEF providers
  <2>4. providers # {} => (CHOOSE ns \in providers : TRUE) \in DOMAIN Published
    BY <2>2
  <2> HIDE DEF default
  <2> QED
    BY <2>1, <2>3, <2>4
<1> HIDE DEF default
<1>3. Named(given) = given \/ Named(given) = [given EXCEPT !.product = default]
  BY DEF Named, default
<1>4. /\ [given EXCEPT !.product = default].product = default
      /\ [given EXCEPT !.product = default].client = given.client
  BY <1>1 DEF Holding
<1> QED
  BY <1>1, <1>2, <1>3, <1>4

LEMMA NameableNames == Range(ContextNames) \subseteq Nameable
BY DEF Nameable

\* Each command leaves the store's namespaces and the set-up as they may be.
Ready == Stocked /\ SetupSound

LEMMA StayedReady ==
  ASSUME Ready, Kept, setup' = setup, Inventory(installed')
  PROVE  Ready'
BY DEF Ready, Stocked, SetupSound, Kept, Stays

LEMMA ModuleChangesKept ==
  ASSUME DiskSound, Held, Ready, ModuleChanges
  PROVE  Kept /\ Ready'
<1>1. /\ disk' = disk /\ sessions' = sessions /\ strays' = strays /\ setup' = setup
      /\ done' = Report("product", {})
  BY DEF ModuleChanges
<1>2. Inventory(installed')
  <2>1. PICK ns \in DOMAIN installed :
          \E version \in {None} \cup DOMAIN Published[ns] :
            installed' = [installed EXCEPT ![ns] = version]
    BY DEF ModuleChanges
  <2> QED
    BY <2>1 DEF Ready, Stocked, Inventory
<1>3. Kept
  BY <1>1, ReportIs, UntouchedKept
<1> QED
  BY <1>1, <1>2, <1>3, StayedReady

LEMMA CreateKept ==
  ASSUME DiskSound, Held, Ready, Create
  PROVE  Kept /\ Ready'
<1>1. Readable /\ strays' = strays /\ setup' = setup
  BY DEF Create
<1>2. PICK name \in Range(ContextNames), given \in CreateFlags :
        \E ensured \in CreateInstalls(name, Named(given)) :
          installed' = ensured.installed /\ CreateFrom(name, Named(given), ensured, "create")
  BY DEF Create
<1> DEFINE flags == Named(given)
<1>3. PICK ensured \in CreateInstalls(name, flags) :
        installed' = ensured.installed /\ CreateFrom(name, flags, ensured, "create")
  BY <1>2
<1>4. flags.product \in {None} \cup DOMAIN Published /\ flags.client \in Text
  BY NamedIs DEF Ready
<1>5. name \in Nameable
  BY NameableNames
<1> HIDE DEF flags
<1>6. Inventory(ensured.installed)
  <2>1. \/ ensured.installed = installed
        \/ flags.product # None /\ ensured \in Ensured(flags.product, flags.noInstall)
    BY <1>3 DEF CreateInstalls
  <2> QED
    BY <1>4, <2>1, EnsuredIs DEF Ready, Stocked
<1>7. Kept
  BY <1>1, <1>3, <1>4, <1>5, <1>6, CreateFromKept
<1> QED
  BY <1>1, <1>3, <1>6, <1>7, StayedReady

LEMMA ProductAddKept ==
  ASSUME DiskSound, Held, Ready, ProductAdd
  PROVE  Kept /\ Ready'
<1>1. Readable /\ strays' = strays /\ setup' = setup
  BY DEF ProductAdd
<1>2. PICK ns \in DOMAIN Specs, replace \in BOOLEAN, noInstall \in BOOLEAN :
        \E spec \in Specs[ns], name \in Names(Loaded) :
          \E ensured \in Ensured(ns, noInstall) :
            installed' = ensured.installed /\ AddTo(name, ns, spec, replace, ensured)
  BY DEF ProductAdd
<1>3. PICK spec \in Specs[ns], name \in Names(Loaded), ensured \in Ensured(ns, noInstall) :
        installed' = ensured.installed /\ AddTo(name, ns, spec, replace, ensured)
  BY <1>2
<1>4. ns \in DOMAIN Published /\ Stateable(spec)
  BY InputsAssumption
<1>5. Inventory(ensured.installed)
  BY <1>4, EnsuredIs DEF Ready
<1>6. Kept
  BY <1>1, <1>3, <1>4, <1>5, AddToKept
<1> QED
  BY <1>1, <1>3, <1>6, <1>5, StayedReady

LEMMA ApplyKept ==
  ASSUME DiskSound, Held, Ready, Apply
  PROVE  Kept /\ Ready'
<1>1. Readable /\ strays' = strays /\ setup' = setup
  BY DEF Apply
<1>2. PICK file \in Files :
        \E use \in {None} \cup {file[n].name : n \in DOMAIN file} :
          \/ installed' = installed /\ \E code : Refused(Report("apply", {}), code)
          \/ /\ ValidFile(file)
             /\ \E needs \in SUBSET Listed(file) : \E ensured \in AfterInstalling(file, needs) :
                  installed' = ensured.installed /\ ApplyFrom(file, use, ensured)
  <2>1. \A file : Missing(file) \subseteq Listed(file) /\ Mismatched(file) \subseteq Listed(file)
    BY DEF Missing, Mismatched
  <2>2. PICK file \in Files, noInstall \in BOOLEAN, updateProducts \in BOOLEAN :
          \E use \in {None} \cup {file[n].name : n \in DOMAIN file} :
            LET needs == (IF noInstall THEN {} ELSE Missing(file)) \cup
                         (IF updateProducts THEN Mismatched(file) ELSE {})
                stopped == IF ~ValidFile(file) THEN "input_malformed" ELSE "document_frozen"
            IN IF ~ValidFile(file) \/ ~Writable
               THEN installed' = installed /\ Refused(Report("apply", {}), stopped)
               ELSE \E ensured \in AfterInstalling(file, needs) :
                      /\ installed' = ensured.installed
                      /\ ApplyFrom(file, use, ensured)
    BY DEF Apply
  <2> DEFINE needs == (IF noInstall THEN {} ELSE Missing(file)) \cup
                      (IF updateProducts THEN Mismatched(file) ELSE {})
  <2>3. needs \in SUBSET Listed(file)
    BY <2>1
  <2> HIDE DEF needs
  <2>4. \E use \in {None} \cup {file[n].name : n \in DOMAIN file} :
          \/ installed' = installed /\ \E code : Refused(Report("apply", {}), code)
          \/ /\ ValidFile(file)
             /\ \E ensured \in AfterInstalling(file, needs) :
                  installed' = ensured.installed /\ ApplyFrom(file, use, ensured)
    BY <2>2 DEF needs
  <2> QED
    BY <2>3, <2>4
<1>3. PICK use \in {None} \cup {file[n].name : n \in DOMAIN file} :
          \/ installed' = installed /\ \E code : Refused(Report("apply", {}), code)
          \/ /\ ValidFile(file)
             /\ \E needs \in SUBSET Listed(file) : \E ensured \in AfterInstalling(file, needs) :
                  installed' = ensured.installed /\ ApplyFrom(file, use, ensured)
  BY <1>2
<1>4. ASSUME installed' = installed, NEW code, Refused(Report("apply", {}), code)
      PROVE  Kept /\ Ready'
  <2>1. Kept
    BY <1>1, <1>4, ReportIs, RefusedKept
  <2> QED
    BY <1>1, <1>4, <2>1, StayedReady DEF Ready, Stocked
<1>5. ASSUME ValidFile(file), NEW needs \in SUBSET Listed(file), NEW ensured \in AfterInstalling(file, needs),
             installed' = ensured.installed, ApplyFrom(file, use, ensured)
      PROVE  Kept /\ Ready'
  <2>1. Inventory(ensured.installed)
    BY <1>5, InstallingIs DEF Ready
  <2>2. Kept
    BY <1>1, <1>5, <2>1, ApplyFromKept
  <2> QED
    BY <1>1, <1>5, <2>1, <2>2, StayedReady
<1> QED
  BY <1>3, <1>4, <1>5

LEMMA ThunderProductIs ==
  ASSUME NEW store
  PROVE  ThunderProduct(store) \in DOMAIN Published
<1> DEFINE thunder == {n \in DOMAIN NamespaceOrder :
                         LET d == Descriptor(store, NamespaceOrder[n])
                         IN d # None /\ d.provider = "thunder"}
           first == CHOOSE n \in thunder : \A m \in thunder : n <= m
<1>1. ThunderProduct(store) = IF thunder = {} THEN Suggested ELSE NamespaceOrder[first]
  BY DEF ThunderProduct
<1>2. thunder \subseteq DOMAIN NamespaceOrder /\ thunder \subseteq Nat
  BY InputsAssumption, SequenceIs
<1>3. \A n \in DOMAIN NamespaceOrder : NamespaceOrder[n] \in DOMAIN Published
  BY DescriptorsAssumption
<1>4. Suggested \in DOMAIN Published
  BY CommandsAssumption
<1> HIDE DEF thunder
<1>5. thunder # {} => first \in thunder
  <2> SUFFICES ASSUME thunder # {} PROVE first \in thunder
    OBVIOUS
  <2>1. \E n \in thunder : \A m \in thunder : n <= m
    BY <1>2, LeastPosition
  <2> QED
    BY <2>1
<1> HIDE DEF first
<1> QED
  BY <1>1, <1>2, <1>3, <1>4, <1>5

\* What a person answers of a product is a spec of it.
LEMMA AnsweredIs ==
  ASSUME NEW ns, NEW d, NEW spec \in ProductAnswers(ns, d)
  PROVE  Stateable(spec)
<1>1. PICK u \in Typed(ns),
           c \in IF d.client = None /\ d.grant \notin {None, "exchange"}
                 THEN Clients ELSE {None},
           g \in {None} \cup (IF d.gateway = None THEN {} ELSE Gateways) :
        spec = ProductAnswer(u, c, g)
  BY DEF ProductAnswers
<1> DEFINE n == NewSpec(u)
           members == DOMAIN NewSpec(None)
           gateway == IF g = None THEN None ELSE [url |-> g, audience |-> None, scopes |-> None]
<1>2. Holding(n, members) /\ {"client", "gateway"} \subseteq members
  BY DEF NewSpec, Holding
<1>3. gateway \in {None} \cup Gateway({None} \cup Scopes)
  BY InputsAssumption DEF Gateway, Text
<1>4. spec = [n EXCEPT !.client = c, !.gateway = gateway]
  BY <1>1 DEF ProductAnswer
<1> HIDE DEF n, members, gateway
<1>5. Holding(spec, members) /\ spec.gateway = gateway
  BY <1>2, <1>4 DEF Holding
<1> QED
  BY <1>3, <1>5 DEF Stateable, members

LEMMA SetUpAsKept ==
  ASSUME DiskSound, Held, Ready, Writable, NEW name \in Range(ContextNames), NEW flags,
         flags.product \in {None} \cup DOMAIN Published, flags.client \in Text, NEW store,
         Inventory(store), SetUpAs(name, flags, store), strays' = strays,
         installed' = store
  PROVE  Kept /\ Ready'
<1> DEFINE ensured == [installed |-> store, refused |-> None]
<1>1. PICK specs \in ProductsAsked(store) :
        /\ CreateFrom(name, flags, ensured, "setup")
        /\ \/ setup' = NoSetup
           \/ setup' = [name |-> name, products |-> specs]
  BY DEF SetUpAs
<1>2. /\ DOMAIN specs \subseteq DOMAIN store
      /\ \A ns \in DOMAIN specs : Stateable(specs[ns])
  <2>1. PICK some \in SUBSET Reachable(store) :
          /\ specs \in [some -> UNION {ProductAnswers(ns, Descriptor(store, ns)) : ns \in some}]
          /\ \A ns \in some : specs[ns] \in ProductAnswers(ns, Descriptor(store, ns))
    BY <1>1 DEF ProductsAsked
  <2>2. DOMAIN specs = some
    BY <2>1
  <2> QED
    BY <2>1, <2>2, AnsweredIs DEF Reachable
<1>3. Readable
  BY DEF Readable, Writable
<1>4. Kept
  <2> HIDE DEF ensured
  <2> QED
    BY <1>1, <1>3, NameableNames, CreateFromKept DEF ensured
<1>5. Writable'
  BY <1>4 DEF Kept, Stays
<1>6. SetupSound'
  BY <1>1, <1>2, <1>5 DEF SetupSound, Holding, Inventory
<1> QED
  BY <1>4, <1>6 DEF Ready, Stocked

LEMMA AnswersAre ==
  /\ \A i, c, how, use : /\ IssuerAnswer(i, c, how, use).product = None
                         /\ IssuerAnswer(i, c, how, use).client = c
  /\ \A ns, u, c, a, how, use : /\ ThunderAnswer(ns, u, c, a, how, use).product = ns
                                /\ ThunderAnswer(ns, u, c, a, how, use).client = c
<1> DEFINE n == NoFlags
<1>1. /\ Holding(n, DOMAIN NoFlags) /\ n.product = None
      /\ {"product", "client"} \subseteq DOMAIN NoFlags
  BY DEF NoFlags, Holding
<1>2. ASSUME NEW i, NEW c, NEW how, NEW use
      PROVE  /\ IssuerAnswer(i, c, how, use).product = None
             /\ IssuerAnswer(i, c, how, use).client = c
  <2>1. IssuerAnswer(i, c, how, use) =
          [n EXCEPT !.issuer = i, !.client = c, !.provider = "asgardeo",
                    !.device = how.device, !.secret = how.secret, !.use = use]
    BY DEF IssuerAnswer
  <2> HIDE DEF n
  <2> QED
    BY <1>1, <2>1 DEF Holding
<1>3. ASSUME NEW ns, NEW u, NEW c, NEW a, NEW how, NEW use
      PROVE  /\ ThunderAnswer(ns, u, c, a, how, use).product = ns
             /\ ThunderAnswer(ns, u, c, a, how, use).client = c
  <2>1. ThunderAnswer(ns, u, c, a, how, use) =
          [n EXCEPT !.product = ns, !.url = u, !.client = c, !.audience = a,
                    !.device = how.device, !.secret = how.secret, !.use = use]
    BY DEF ThunderAnswer
  <2> HIDE DEF n
  <2> QED
    BY <1>1, <2>1 DEF Holding
<1> QED
  BY <1>2, <1>3

LEMMA SetUpIssuerKept ==
  ASSUME DiskSound, Held, Ready, SetUpIssuer
  PROVE  Kept /\ Ready'
<1>1. Writable /\ strays' = strays /\ installed' = installed
  BY DEF SetUpIssuer
<1>2. PICK name \in Range(ContextNames) \ Names(Loaded), flags \in IssuerAnswers :
        SetUpAs(name, flags, installed)
  BY DEF SetUpIssuer
<1>3. flags.product = None /\ flags.client \in Text
  <2>1. PICK i \in {j \in Issuers : ProductURL(j)}, c \in Clients, how \in SignIns(None),
             use \in BOOLEAN : flags = IssuerAnswer(i, c, how, use)
    BY <1>2 DEF IssuerAnswers
  <2> QED
    BY <2>1, AnswersAre, InputsAssumption DEF Text
<1> QED
  BY <1>1, <1>2, <1>3, SetUpAsKept DEF Ready, Stocked

LEMMA SetUpThunderKept ==
  ASSUME DiskSound, Held, Ready, SetUpThunder
  PROVE  Kept /\ Ready'
<1> DEFINE ns == ThunderProduct(installed)
<1>1. Readable /\ Writable /\ strays' = strays
  BY DEF SetUpThunder
<1>2. PICK name \in Range(ContextNames) \ Names(Loaded), ensured \in Ensured(ns, FALSE) :
        /\ installed' = ensured.installed
        /\ \/ /\ \E code : Refused(Report("setup", {name}), code)
              /\ setup' = setup
           \/ \E flags \in ThunderAnswers(ns, Descriptor(ensured.installed, ns)) :
                SetUpAs(name, flags, ensured.installed)
  BY DEF SetUpThunder
<1>3. ns \in DOMAIN Published
  BY ThunderProductIs
<1>4. Inventory(ensured.installed)
  BY <1>2, <1>3, EnsuredIs DEF Ready
<1> HIDE DEF ns
<1>5. ASSUME NEW code, Refused(Report("setup", {name}), code), setup' = setup
      PROVE  Kept /\ Ready'
  <2>1. Kept
    BY <1>1, <1>5, ReportIs, RefusedKept
  <2> QED
    BY <1>1, <1>2, <1>4, <1>5, <2>1, StayedReady
<1>6. ASSUME NEW flags \in ThunderAnswers(ns, Descriptor(ensured.installed, ns)),
             SetUpAs(name, flags, ensured.installed)
      PROVE  Kept /\ Ready'
  <2>1. flags.product = ns /\ flags.client \in Text
    <3>1. PICK c \in Clients \cup {None} : flags \in
            {ThunderAnswer(ns, u, c, a, how, use) :
               u \in Typed(ns), how \in SignIns(Descriptor(ensured.installed, ns)),
               use \in BOOLEAN,
               a \in IF AudienceFor(Descriptor(ensured.installed, ns),
                                    Or(c, Descriptor(ensured.installed, ns).client)) = None
                     THEN Audiences ELSE {None}}
      BY <1>6 DEF ThunderAnswers
    <3>2. PICK u, how, use, a : flags = ThunderAnswer(ns, u, c, a, how, use)
      BY <3>1
    <3> QED
      BY <3>1, <3>2, AnswersAre, InputsAssumption DEF Text
  <2> QED
    BY <1>1, <1>2, <1>3, <1>4, <1>6, <2>1, SetUpAsKept DEF Ready, Stocked
<1> QED
  BY <1>2, <1>5, <1>6

LEMMA SetUpAddKept ==
  ASSUME DiskSound, Held, Ready, SetUpAdd
  PROVE  Kept /\ Ready'
<1>1. setup # NoSetup /\ strays' = strays
  BY DEF SetUpAdd
<1>2. PICK ns \in DOMAIN setup.products : \E ensured \in Ensured(ns, FALSE) :
        /\ installed' = ensured.installed
        /\ AddTo(setup.name, ns, setup.products[ns], FALSE, ensured)
        /\ \/ setup' = NoSetup
           \/ setup' = [setup EXCEPT !.products = [n \in DOMAIN @ \ {ns} |-> @[n]]]
  BY DEF SetUpAdd
<1>3. PICK ensured \in Ensured(ns, FALSE) :
        /\ installed' = ensured.installed
        /\ AddTo(setup.name, ns, setup.products[ns], FALSE, ensured)
        /\ \/ setup' = NoSetup
           \/ setup' = [setup EXCEPT !.products = [n \in DOMAIN @ \ {ns} |-> @[n]]]
  BY <1>2
<1>4. /\ Writable /\ Holding(setup, {"name", "products"})
      /\ DOMAIN setup.products \subseteq DOMAIN Published
      /\ \A n \in DOMAIN setup.products : Stateable(setup.products[n])
  BY <1>1 DEF Ready, SetupSound
<1>5. Readable
  BY <1>4 DEF Readable, Writable
<1>6. Inventory(ensured.installed)
  BY <1>3, <1>4, EnsuredIs DEF Ready
<1>7. Kept
  BY <1>1, <1>3, <1>4, <1>5, <1>6, AddToKept
<1>8. Writable'
  BY <1>4, <1>7 DEF Kept, Stays
<1>9. Stocked'
  BY <1>3, <1>6 DEF Stocked
<1>10. CASE setup' = NoSetup
  <2>1. NoSetup' = NoSetup
    BY DEF NoSetup
  <2>2. SetupSound'
    BY <1>10, <2>1 DEF SetupSound
  <2> QED
    BY <1>7, <1>9, <2>2 DEF Ready
<1>11. CASE setup' = [setup EXCEPT !.products = [n \in DOMAIN @ \ {ns} |-> @[n]]]
  <2> DEFINE left == [n \in DOMAIN setup.products \ {ns} |-> setup.products[n]]
  <2>1. setup' = [setup EXCEPT !.products = left]
    BY <1>11
  <2>2. /\ DOMAIN left \subseteq DOMAIN setup.products
        /\ \A n \in DOMAIN left : left[n] = setup.products[n]
    OBVIOUS
  <2> HIDE DEF left
  <2>3. Holding(setup, {"name", "products"})' /\ setup'.products = left
    BY <1>4, <2>1 DEF Holding
  <2>4. SetupSound'
    BY <1>4, <1>8, <2>2, <2>3 DEF SetupSound
  <2> QED
    BY <1>7, <1>9, <2>4 DEF Ready
<1> QED
  BY <1>3, <1>10, <1>11

----------------------------------------------------------------------------
(* The sessions stored are reached, from what is on disk to begin with.     *)

LEMMA StoredReached ==
  ASSUME NEW d \in Documents,
         NEW b \in IF d.version \in AccountsVersions THEN Accounts(d) ELSE Contexts(d),
         NEW a \in SessionsOf(b)
  PROVE  <<a.ref, Binding(a)>> \in SessionIDs(Read(d))
<1>1. <<a.ref, Binding(a)>> \in Pairs(b)
  BY DEF Pairs
<1>2. CASE d.version \in AccountsVersions
  <2>1. OldForm(d) /\ Read(d) = Migrate(d) /\ b \in Accounts(d)
    BY <1>2 DEF OldForm, Read
  <2>2. ValidAuth(b)
    BY <2>1, AccountIs DEF ValidAccount
  <2>3. b.kind # "client-credentials"
    BY DEF SessionsOf
  <2>4. b.ref # None
    BY <2>2, <2>3 DEF ValidAuth, LegalKinds
  <2> QED
    BY <1>1, <2>1, <2>4, AccountReached
<1>3. CASE d.version \notin AccountsVersions
  <2>1. b \in Contexts(d) /\ Read(d) = d
    BY <1>3 DEF Read
  <2> QED
    BY <1>1, <2>1, SessionIDsAre
<1> QED
  BY <1>2, <1>3

LEMMA InitHeld ==
  ASSUME Init
  PROVE  DiskSound /\ Held /\ Ready
<1>1. DiskSound
  BY CommandsAssumption DEF Init, DiskSound
<1>2. Ready
  BY InputsAssumption DEF Init, Ready, Stocked, SetupSound
<1>3. strays = {} /\ disk \in Documents /\ sessions \in {<< >>, StoredFor(disk)}
  BY DEF Init
<1>4. Reaches(<< >>, {}, Loaded)
  BY DEF Reaches
<1>5. Reaches(StoredFor(disk), {}, Loaded)
  <2> DEFINE old == disk.version \in AccountsVersions
             held == IF old THEN disk.accounts ELSE disk.contexts
             all == UNION {SessionsOf(held[n]) : n \in DOMAIN held}
  <2>1. StoredFor(disk) = Established(<< >>, all)
    BY DEF StoredFor
  <2>2. ASSUME NEW a \in all PROVE <<a.ref, Binding(a)>> \in SessionIDs(Loaded)
    <3>1. PICK n \in DOMAIN held : a \in SessionsOf(held[n])
      OBVIOUS
    <3>2. CASE old
      <4>1. disk.accounts[n] \in Accounts(disk) /\ a \in SessionsOf(disk.accounts[n])
        BY <3>1, <3>2 DEF Accounts
      <4> QED
        BY <1>3, <3>2, <4>1, StoredReached DEF Loaded
    <3>3. CASE ~old
      <4>1. disk.contexts[n] \in Contexts(disk) /\ a \in SessionsOf(disk.contexts[n])
        BY <3>1, <3>3 DEF Contexts
      <4> QED
        BY <1>3, <3>3, <4>1, StoredReached DEF Loaded
    <3> QED
      BY <3>2, <3>3
  <2> HIDE DEF all
  <2>3. Reaches(Established(<< >>, all), {} \ {a.ref : a \in all}, Loaded)
    BY <1>4, <2>2, EstablishedReached
  <2>4. {} \ {a.ref : a \in all} = {}
    OBVIOUS
  <2> QED
    BY <2>1, <2>3, <2>4
<1>6. Held
  BY <1>3, <1>4, <1>5 DEF Held
<1> QED
  BY <1>1, <1>2, <1>6

LEMMA NextKept ==
  ASSUME DiskSound, Held, Ready, Next
  PROVE  Kept /\ Ready'
<1>1. ASSUME Kept, setup' = setup, installed' = installed
      PROVE  Kept /\ Ready'
  BY <1>1, StayedReady DEF Ready, Stocked
<1>2. CASE ModuleChanges
  BY <1>2, ModuleChangesKept
<1>3. CASE Upgrade
  BY <1>1, <1>3, UpgradeKept DEF Upgrade
<1>4. CASE Use
  BY <1>1, <1>4, UseKept DEF Use
<1>5. CASE Rename
  BY <1>1, <1>5, RenameKept DEF Rename
<1>6. CASE Delete
  BY <1>1, <1>6, DeleteKept DEF Delete
<1>7. CASE OrgUse
  BY <1>1, <1>7, OrgUseKept DEF OrgUse
<1>8. CASE Create
  BY <1>8, CreateKept
<1>9. CASE ProductAdd
  BY <1>9, ProductAddKept
<1>10. CASE ProductRemove
  BY <1>1, <1>10, ProductRemoveKept DEF ProductRemove
<1>11. CASE Apply
  BY <1>11, ApplyKept
<1>12. CASE Edit
  BY <1>1, <1>12, EditKept DEF Edit
<1>13. CASE LogIn
  BY <1>1, <1>13, LogInKept DEF LogIn
<1>14. CASE LogInCreating
  BY <1>1, <1>14, LogInCreatingKept DEF LogInCreating
<1>15. CASE Logout
  BY <1>1, <1>15, LogoutKept DEF Logout
<1>16. CASE SetUpIssuer
  BY <1>16, SetUpIssuerKept
<1>17. CASE SetUpThunder
  BY <1>17, SetUpThunderKept
<1>18. CASE SetUpAdd
  BY <1>18, SetUpAddKept
<1> QED
  BY <1>2, <1>3, <1>4, <1>5, <1>6, <1>7, <1>8, <1>9, <1>10, <1>11, <1>12, <1>13, <1>14,
     <1>15, <1>16, <1>17, <1>18 DEF Next

\* The inductive invariant.
Sustained == DiskSound /\ Held /\ Ready /\ NextStepHolds

LEMMA InitSustained == Init => Sustained
<1> SUFFICES ASSUME Init PROVE Sustained
  OBVIOUS
<1>1. done.next = None
  BY ReportIs DEF Init
<1>2. NextStepHolds
  BY <1>1, NoneAssumption DEF NextStepHolds
<1> QED
  BY <1>2, InitHeld DEF Sustained

LEMMA StepSustained ==
  ASSUME Sustained, [Next]_vars
  PROVE  Sustained' /\ [SparesOthers]_vars
<1>1. CASE Next
  BY <1>1, NextKept DEF Sustained, Kept, Stays
<1>2. CASE UNCHANGED vars
  <2>1. /\ Loaded' = Loaded /\ Readable' = Readable /\ Writable' = Writable
        /\ disk' = disk /\ sessions' = sessions /\ strays' = strays /\ done' = done
        /\ setup' = setup /\ installed' = installed
    BY <1>2 DEF vars, Loaded, Readable, Writable
  <2>2. DiskSound' /\ Held' /\ Ready'
    BY <2>1 DEF Sustained, DiskSound, Held, Ready, Stocked, SetupSound
  <2>3. NextStepHolds'
    BY <2>1 DEF Sustained, NextStepHolds
  <2> QED
    BY <1>2, <2>2, <2>3 DEF Sustained
<1> QED
  BY <1>1, <1>2

LEMMA AlwaysSustained == Spec => []Sustained
<1>1. Sustained /\ [Next]_vars => Sustained'
  BY StepSustained
<1> QED
  BY <1>1, InitSustained, PTL DEF Spec

\* No command, however it ends, leaves a session in the secure store that no
\* context reaches for what it was bound to (planChange and writeChange end
\* every session a change leaves behind, before they write the document).
THEOREM SessionsReachedHolds == Spec => []SessionsReached
<1>1. Sustained => SessionsReached
  BY DEF Sustained, Held, Reaches, SessionsReached
<1> QED
  BY <1>1, AlwaysSustained, PTL

\* A person told that the login session already reaches the product just added
\* has a session bound as reaching it needs (productNext looks at what is
\* stored once the change has ended what it leaves behind).
THEOREM NextStepAlwaysHolds == Spec => []NextStepHolds
<1>1. Sustained => NextStepHolds
  BY DEF Sustained
<1> QED
  BY <1>1, AlwaysSustained, PTL

\* A command leaves the contexts it does not name as they were, with their
\* sessions, and the selection of one of them where it is (putContext,
\* Without and contextApply replace one context at a time, and a change ends
\* no session a context left in the document reaches).
THEOREM CommandsLeaveOthers == Spec => OnlyWhatItNames
<1>1. Sustained /\ [Next]_vars => [SparesOthers]_vars
  BY StepSustained
<1> QED
  BY <1>1, AlwaysSustained, PTL DEF Spec, OnlyWhatItNames

----------------------------------------------------------------------------
(* What is selected keeps its sessions when an old document is migrated.    *)

LEMMA MigratedSelection ==
  ASSUME NEW d, OldForm(d), d.default # None
  PROVE  LET was == d.contexts[CHOOSE n \in DOMAIN d.contexts : d.contexts[n].name = d.default]
         IN Find(Migrate(d), d.default).ref = AccountOf(d, was.account).ref
<1> DEFINE n == CHOOSE i \in DOMAIN d.contexts : d.contexts[i].name = d.default
           a == AccountOf(d, d.contexts[n].account)
           s == Adopted(d, Converted(d)).contexts
           r == Migrate(d).contexts
           l == Len(d.contexts)
<1>1. SoundAccounts(d) /\ l \in Nat /\ DOMAIN d.contexts = 1..l
  BY OldFormIs
<1>2. n \in DOMAIN d.contexts /\ d.contexts[n].name = d.default
  <2>1. \E i \in DOMAIN d.contexts : d.contexts[i].name = d.default
    BY <1>1 DEF SoundAccounts, Names
  <2> QED
    BY <2>1
<1> HIDE DEF n
<1>3. a.name = d.contexts[n].account
  BY <1>2, AccountIs
<1>4. Owner(d, a) = d.default
  BY <1>2, <1>3 DEF Owner, Users
<1>5. /\ Converted(d).contexts[n].name = d.default
      /\ Converted(d).contexts[n].ref = a.ref
  <2>1. /\ Converted(d).contexts[n].name = d.contexts[n].name
        /\ Converted(d).contexts[n].ref = a.ref <=> (a.ref = None \/ Owner(d, a) = d.contexts[n].name)
    BY <1>1, <1>2, ConvertedIs DEF ConvertedSoFar
  <2> QED
    BY <1>2, <1>4, <2>1
<1>6. l <= Len(s) /\ s[n] = Converted(d).contexts[n]
  BY <1>1, <1>2, AdoptedIs DEF AdoptedSoFar
<1>7. /\ IsSequence(s) /\ DOMAIN r = DOMAIN s
      /\ \A i \in DOMAIN s : r[i].name = s[i].name /\ r[i].ref = s[i].ref
  BY MigrateIs
<1> HIDE DEF a, r
<1>8. n \in DOMAIN s
  <2>1. DOMAIN s = 1..Len(s) /\ Len(s) \in Nat
    BY <1>7, SequenceIs
  <2> HIDE DEF s, l
  <2> QED
    BY <1>1, <1>2, <1>6, <2>1
<1>9. r[n].name = d.default /\ r[n].ref = a.ref /\ n \in DOMAIN r
  BY <1>5, <1>6, <1>7, <1>8
<1>10. Find(Migrate(d), d.default) = r[n]
  <2>1. Apart(Migrate(d))
    BY MigrateSound, ValidIsApart DEF Sound
  <2>2. r[n] \in Contexts(Migrate(d)) /\ d.default \in Names(Migrate(d))
    BY <1>9 DEF Contexts, Names, r
  <2> QED
    BY <1>9, <2>1, <2>2, FoundIn
<1> QED
  BY <1>9, <1>10 DEF n, a

\* A migrated document selects a context that has the sessions it had: its
\* account's own reference, whichever other contexts share the account
\* (migrate gives it to the default context, where that uses the account).
THEOREM MigrationKeepsSelectedHolds == Spec => []MigrationKeepsSelected
<1>1. DiskSound => MigrationKeepsSelected
  <2> SUFFICES ASSUME DiskSound, disk.version \in AccountsVersions, disk.default # None
               PROVE  LET was == disk.contexts[CHOOSE n \in DOMAIN disk.contexts :
                                                 disk.contexts[n].name = disk.default]
                      IN Find(Loaded, disk.default).ref = AccountOf(disk, was.account).ref
    BY DEF MigrationKeepsSelected
  <2>1. OldForm(disk) /\ Loaded = Migrate(disk)
    BY DEF DiskSound, OldForm, Loaded, Read, Current, AccountsVersions
  <2> QED
    BY <2>1, MigratedSelection
<1>2. Sustained => DiskSound
  BY DEF Sustained
<1> QED
  BY <1>1, <1>2, AlwaysSustained, PTL

----------------------------------------------------------------------------
(* What is exported applies unchanged, and an update that changes what a    *)
(* record says is told.                                                     *)

\* A document this shell writes is read as legal contexts.
LEMMA LoadedContexts ==
  ASSUME Sustained, Readable, disk.version # LegacyVersion, NEW n \in DOMAIN Loaded.contexts
  PROVE  LET c == FreezeContext(Loaded.contexts[n])
         IN Recorded(c) /\ ValidContext(c) /\ FreezeContext(c) = c
<1>1. Sound(Loaded)
  BY LoadedSound DEF Sustained, Readable, Writable
<1>2. Loaded.contexts[n] \in Contexts(Loaded)
  BY DEF Contexts
<1>3. Recorded(Loaded.contexts[n]) /\ ValidContext(Loaded.contexts[n])
  BY <1>1, <1>2, SoundContexts DEF Usable
<1> QED
  BY <1>3, FrozenIs, ValidFrozen DEF ValidContext

\* A context, as export states it.
LEMMA ExportedIs ==
  ASSUME NEW c, Recorded(c), FreezeContext(c) = c
  PROVE  LET x == Exported(c)
             stated == [ns \in DOMAIN c.products |-> StatedProduct(c.products[ns])]
         IN /\ Holding(x, ContextMembers)
            /\ \A m \in ContextMembers :
                 x[m] = IF m = "ref" THEN None ELSE IF m = "products" THEN stated ELSE c[m]
<1> DEFINE stated == [ns \in DOMAIN c.products |-> StatedProduct(c.products[ns])]
           x == Exported(c)
<1>1. x = [c EXCEPT !.ref = None, !.products = [ns \in DOMAIN @ |-> StatedProduct(@[ns])]]
  BY DEF Exported
<1>2. x = [c EXCEPT !.ref = None, !.products = stated]
  BY <1>1 DEF Recorded, Holding, ContextMembers
<1> HIDE DEF stated, x
<1>3. Holding(c, ContextMembers)
  BY DEF Recorded
<1>4. Holding(x, ContextMembers)
  BY <1>2, <1>3 DEF Holding
<1>5. ASSUME NEW m \in ContextMembers
      PROVE  x[m] = IF m = "ref" THEN None ELSE IF m = "products" THEN stated ELSE c[m]
  BY <1>2, <1>3, <1>5 DEF Holding, ContextMembers
<1> QED
  BY <1>4, <1>5 DEF x, stated

\* The gateway a product is recorded with again, of the one that was stated.
LEMMA GatewayAlike ==
  ASSUME NEW old, old # None => old \in Gateway(Scopes) /\ old.scopes # None
  PROVE  LET g == IF old = None THEN None ELSE [old EXCEPT !.scopes = Stated(@)]
             trimmed == IF g = None THEN None ELSE [g EXCEPT !.url = TrimRight(@)]
         IN (IF trimmed = None THEN None ELSE [trimmed EXCEPT !.scopes = Or(@, {})])
              = IF old = None THEN None ELSE [old EXCEPT !.url = TrimRight(@)]
<1> DEFINE scopes == Stated(old.scopes)
           g == IF old = None THEN None ELSE [old EXCEPT !.scopes = scopes]
           trimmed == IF g = None THEN None ELSE [g EXCEPT !.url = TrimRight(@)]
           h == IF trimmed = None THEN None ELSE [trimmed EXCEPT !.scopes = Or(@, {})]
           meant == IF old = None THEN None ELSE [old EXCEPT !.url = TrimRight(@)]
<1>1. CASE old = None
  BY <1>1
<1>2. CASE old # None
  <2>1. old \in Gateway(Scopes) /\ old.scopes # None
    BY <1>2
  <2>2. scopes \in {None} \cup Scopes /\ Or(scopes, {}) = old.scopes
    BY <2>1 DEF Stated, Or, Gateway
  <2> HIDE DEF scopes
  <2>3. /\ g \in Gateway({None} \cup Scopes) /\ g.url = old.url /\ g.audience = old.audience
        /\ g.scopes = scopes
    BY <1>2, <2>1, <2>2 DEF Gateway
  <2>4. g # None
    BY <2>3, NoneAssumption
  <2> HIDE DEF g
  <2>5. /\ trimmed \in Gateway({None} \cup Scopes) /\ trimmed.url = TrimRight(old.url)
        /\ trimmed.audience = old.audience /\ trimmed.scopes = scopes
    BY <2>3, <2>4, TrimmedGatewayIs
  <2>6. trimmed # None
    BY <2>5, NoneAssumption
  <2> HIDE DEF trimmed
  <2>7. h = [url |-> TrimRight(old.url), audience |-> old.audience, scopes |-> old.scopes]
    <3>1. h = [trimmed EXCEPT !.scopes = old.scopes]
      BY <2>2, <2>5, <2>6
    <3> HIDE DEF h
    <3> QED
      BY <2>5, <3>1 DEF Gateway
  <2>8. /\ meant \in Gateway(Scopes) /\ meant.url = TrimRight(old.url)
        /\ meant.audience = old.audience /\ meant.scopes = old.scopes
    BY <1>2, <2>1, TrimmedGatewayIs
  <2>9. meant = h
    <3> HIDE DEF h, meant
    <3> QED
      BY <2>7, <2>8 DEF Gateway
  <2> QED
    BY <2>9 DEF h, trimmed, g, scopes
<1> QED
  BY <1>1, <1>2

\* Stated again, it is the product with its URLs trimmed.
LEMMA StatedAlike ==
  ASSUME NEW p, RecordedProduct(p)
  PROVE  AsStated(TrimURLs(StatedProduct(p))) = TrimURLs(p)
<1> DEFINE members == {"url", "audience", "scopes", "grant", "id", "secret", "gateway"}
           url == TrimRight(p.url)
           old == p.gateway
           g == IF old = None THEN None ELSE [old EXCEPT !.scopes = Stated(@)]
           trimmed == IF g = None THEN None ELSE [g EXCEPT !.url = TrimRight(@)]
           h == IF trimmed = None THEN None ELSE [trimmed EXCEPT !.scopes = Or(@, {})]
           meant == IF old = None THEN None ELSE [old EXCEPT !.url = TrimRight(@)]
           s == StatedProduct(p)
           t == TrimURLs(s)
           q == AsStated(t)
           r == TrimURLs(p)
<1>1. /\ Holding(p, members) /\ p.scopes # None
      /\ old # None => old \in Gateway(Scopes) /\ old.scopes # None
  BY DEF RecordedProduct
<1>2. Or(Stated(p.scopes), {}) = p.scopes
  BY <1>1 DEF Or, Stated
<1>3. h = meant
  BY <1>1, GatewayAlike
<1>4. s = [url |-> p.url, audience |-> p.audience, scopes |-> Stated(p.scopes),
           grant |-> p.grant, client |-> None, id |-> p.id, secret |-> p.secret,
           version |-> None, gateway |-> g]
  BY DEF StatedProduct
<1>5. t = [s EXCEPT !.url = TrimRight(s.url),
                    !.gateway = IF s.gateway = None THEN None
                                ELSE [s.gateway EXCEPT !.url = TrimRight(@)]]
  BY DEF TrimURLs
<1>6. q = [url |-> t.url, audience |-> t.audience, scopes |-> Or(t.scopes, {}),
           grant |-> t.grant, id |-> t.id, secret |-> t.secret,
           gateway |-> IF t.gateway = None THEN None
                       ELSE [t.gateway EXCEPT !.scopes = Or(@, {})]]
  BY DEF AsStated
<1>7. r = [p EXCEPT !.url = url, !.gateway = meant]
  BY DEF TrimURLs
<1>8. s.url = p.url /\ s.gateway = g
  <2> HIDE DEF g, s
  <2> QED
    BY <1>4
<1>9. t = [s EXCEPT !.url = url, !.gateway = trimmed]
  <2> HIDE DEF s, g, t
  <2> QED
    BY <1>5, <1>8
<1> HIDE DEF g
<1>10. /\ t.url = url /\ t.audience = p.audience /\ t.scopes = Stated(p.scopes)
       /\ t.grant = p.grant /\ t.id = p.id /\ t.secret = p.secret /\ t.gateway = trimmed
  <2> HIDE DEF s, t, trimmed, url
  <2> QED
    BY <1>4, <1>9
<1>11. q = [url |-> url, audience |-> p.audience, scopes |-> p.scopes, grant |-> p.grant,
            id |-> p.id, secret |-> p.secret, gateway |-> h]
  <2> HIDE DEF t, trimmed, url, q
  <2> QED
    BY <1>2, <1>6, <1>10
<1> HIDE DEF members, url, old, trimmed, h, meant, s, t, q, r
<1>12. Holding(r, members)
  BY <1>1, <1>7 DEF Holding
<1>13. /\ r.url = url /\ r.gateway = meant /\ r.audience = p.audience /\ r.scopes = p.scopes
       /\ r.grant = p.grant /\ r.id = p.id /\ r.secret = p.secret
  BY <1>1, <1>7 DEF Holding, members
<1>14. r = q
  BY <1>3, <1>11, <1>12, <1>13 DEF Holding, members
<1> QED
  BY <1>14 DEF r, q, t, s

\* A context filled in from nothing installed is the one that was exported, its
\* URLs trimmed.
LEMMA ReappliedIs ==
  ASSUME NEW store, NEW c, Recorded(c), ValidContext(c), FreezeContext(c) = c, c.kind # "pat",
         \A ns \in DOMAIN c.products : Descriptor(store, ns) = None
  PROVE  Resolve(store, Exported(c)) =
           Give([c EXCEPT !.ref = None, !.tenant = Or(@, TenantForIssuer(c.issuer)),
                          !.products = [ns \in DOMAIN @ |-> TrimURLs(@[ns])]])
<1> DEFINE x == Exported(c)
           plain == [ns \in DOMAIN c.products |-> TrimURLs(c.products[ns])]
           stated == [ns \in DOMAIN c.products |-> StatedProduct(c.products[ns])]
           kind == IF x.secret # None THEN "client-credentials" ELSE "oauth-browser"
           login == [x EXCEPT !.kind = Or(@, kind)]
           through == IF x.login = None THEN Give([login |-> login])
                      ELSE ResolveInputLogin(Descriptor(store, x.login), x, login)
           tenant == Or(c.tenant, TenantForIssuer(c.issuer))
           target == [x EXCEPT !.tenant = tenant, !.products = << >>]
           others == ResolveOthers(store, x, target)
           products == [ns \in DOMAIN x.products |->
                          IF ns = x.login THEN through.value.product ELSE others[ns].value]
           whole == [target EXCEPT !.products = products]
           meant == [c EXCEPT !.ref = None, !.tenant = tenant, !.products = plain]
<1>1. /\ Holding(x, ContextMembers)
      /\ \A m \in ContextMembers :
           x[m] = IF m = "ref" THEN None ELSE IF m = "products" THEN stated ELSE c[m]
  BY ExportedIs
<1>2. /\ Holding(c, ContextMembers) /\ DOMAIN c.products \subseteq DOMAIN Published
      /\ Holding(c.products, DOMAIN c.products)
      /\ \A ns \in DOMAIN c.products : AsStated(TrimURLs(stated[ns])) = plain[ns]
  BY StatedAlike DEF Recorded
<1>3. /\ c.kind \in LegalKinds /\ c.kind # None /\ c.type # None
      /\ c.issuer # None /\ c.client # None
      /\ c.login # None => c.login \in DOMAIN c.products
      /\ c.login = None /\ c.kind # "client-credentials" => LoginNamespace(c) = None
  <2>1. /\ c.kind \in LegalKinds /\ c.type \in {"cloud", "onprem"}
        /\ c.login # None => c.login \in DOMAIN c.products
        /\ c.login = None /\ c.kind # "client-credentials" => LoginNamespace(c) = None
    BY DEF ValidContext, ValidAccount, ValidAuth
  <2>2. c.kind \in InteractiveKinds \cup {"client-credentials"}
    BY <2>1 DEF LegalKinds
  <2>3. c.issuer # None /\ c.client # None
    <3>1. ValidAuth(c)
      BY DEF ValidContext, ValidAccount
    <3>2. /\ c.kind \in InteractiveKinds => c.issuer # None /\ c.client # None
          /\ c.kind = "client-credentials" => c.issuer # None /\ c.client # None
      BY <3>1 DEF ValidAuth
    <3> QED
      BY <2>2, <3>2
  <2>4. None \notin LegalKinds \cup {"cloud", "onprem"}
    BY NoneAssumption
  <2> QED
    BY <2>1, <2>3, <2>4
<1>4. {"kind", "type", "tenant", "issuer", "client", "login", "products", "ref", "synthetic"}
        \subseteq ContextMembers
  BY DEF ContextMembers
<1> HIDE DEF x, stated
<1>5. /\ x.kind = c.kind /\ x.type = c.type /\ x.tenant = c.tenant /\ x.issuer = c.issuer
      /\ x.client = c.client /\ x.login = c.login /\ x.products = stated
  BY <1>1, <1>4
<1>6. login = x
  <2>1. Or(x.kind, kind) = x.kind
    BY <1>3, <1>5 DEF Or
  <2> QED
    BY <1>1, <2>1 DEF Holding
<1>7. /\ through.refused = None /\ through.value.login = x
      /\ c.login # None => through.value.product = plain[c.login]
  <2>1. CASE c.login = None
    BY <1>5, <1>6, <2>1 DEF Give
  <2>2. CASE c.login # None
    <3>1. Descriptor(store, c.login) = None
      BY <1>3, <2>2
    <3>2. through = ResolveInputLogin(None, x, x)
      BY <1>5, <1>6, <2>2, <3>1
    <3>3. ResolveInputLogin(None, x, x) =
            Give([login |-> x, product |-> AsStated(TrimURLs(stated[c.login]))])
      BY <1>3, <1>5 DEF ResolveInputLogin
    <3> HIDE DEF through
    <3> QED
      BY <1>2, <1>3, <2>2, <3>2, <3>3 DEF Give
  <2> QED
    BY <2>1, <2>2
<1>8. Resolve(store, x) = ResolveThrough(store, x, through)
  BY DEF Resolve
<1> HIDE DEF login, through
<1>9. [through.value.login EXCEPT
         !.tenant = Or(@, TenantForIssuer(through.value.login.issuer)),
         !.type = Or(@, IdentityTypeForIssuer(through.value.login.issuer)),
         !.products = << >>] = target
  <2>1. [x EXCEPT !.tenant = Or(@, TenantForIssuer(x.issuer)),
                  !.type = Or(@, IdentityTypeForIssuer(x.issuer)), !.products = << >>]
        = [x EXCEPT !.tenant = Or(x.tenant, TenantForIssuer(x.issuer)),
                    !.type = Or(x.type, IdentityTypeForIssuer(x.issuer)), !.products = << >>]
    BY <1>1 DEF Holding, ContextMembers
  <2>2. Or(x.type, IdentityTypeForIssuer(x.issuer)) = x.type
    BY <1>3, <1>5 DEF Or
  <2>3. [x EXCEPT !.tenant = tenant, !.type = x.type, !.products = << >>] = target
    <3> HIDE DEF tenant
    <3> QED
      BY <1>1 DEF Holding, ContextMembers
  <2> QED
    BY <1>5, <1>7, <2>1, <2>2, <2>3
<1>10. Resolve(store, x) = Assembled(x, through, target, others)
  BY <1>7, <1>8, <1>9 DEF ResolveThrough, ResolveFor
<1>11. /\ DOMAIN others = DOMAIN x.products \ {x.login}
       /\ \A ns \in DOMAIN others :
            others[ns].refused = None /\ others[ns].value = plain[ns]
  <2>1. DOMAIN others = DOMAIN x.products \ {x.login}
    BY DEF ResolveOthers
  <2>2. ASSUME NEW ns \in DOMAIN others
        PROVE  others[ns].refused = None /\ others[ns].value = plain[ns]
    <3>1. ns \in DOMAIN c.products /\ x.products[ns] = stated[ns]
      BY <1>5, <2>1 DEF stated
    <3>2. others[ns] = ResolveProduct(ns, Descriptor(store, ns), TrimURLs(x.products[ns]),
                                         target)
      BY <2>1 DEF ResolveOthers
    <3>3. others[ns] = ResolveProduct(ns, None, TrimURLs(stated[ns]), target)
      BY <3>1, <3>2
    <3>4. ResolveProduct(ns, None, TrimURLs(stated[ns]), target)
            = Give(AsStated(TrimURLs(stated[ns])))
      BY DEF ResolveProduct, LoginProvider
    <3> QED
      BY <1>2, <3>1, <3>3, <3>4 DEF Give
  <2> QED
    BY <2>1, <2>2
<1> HIDE DEF others, target
<1>12. {ns \in DOMAIN others : others[ns].refused # None} = {}
  BY <1>11
<1>13. Resolve(store, x) = Give(FreezeContext(whole))
  BY <1>10, <1>12 DEF Assembled
<1>14. products = plain
  <2>1. DOMAIN x.products = DOMAIN c.products
    BY <1>5 DEF stated
  <2>2. ASSUME NEW ns \in DOMAIN c.products PROVE products[ns] = plain[ns]
    <3>1. CASE ns = x.login
      <4>1. c.login # None
        BY <1>2, <1>5, <3>1, NoNamespace
      <4> QED
        BY <1>5, <1>7, <2>1, <3>1, <4>1
    <3>2. CASE ns # x.login
      <4>1. ns \in DOMAIN others
        BY <1>11, <2>1, <3>2
      <4>2. others[ns].value = plain[ns]
        BY <1>11, <4>1
      <4> QED
        BY <2>1, <3>2, <4>2
    <3> QED
      BY <3>1, <3>2
  <2> QED
    BY <1>2, <2>1, <2>2 DEF Holding
<1> HIDE DEF products, tenant
<1>15. /\ Holding(target, ContextMembers)
       /\ \A m \in ContextMembers :
            target[m] = IF m = "tenant" THEN tenant
                        ELSE IF m = "products" THEN << >> ELSE x[m]
  <2>1. target = [x EXCEPT !.tenant = tenant, !.products = << >>]
    BY DEF target
  <2> QED
    BY <1>1, <2>1 DEF Holding, ContextMembers
<1>16. /\ Holding(whole, ContextMembers)
       /\ \A m \in ContextMembers :
            whole[m] = IF m = "tenant" THEN tenant ELSE IF m = "ref" THEN None
                        ELSE IF m = "products" THEN plain ELSE c[m]
  <2>1. whole = [target EXCEPT !.products = plain]
    BY <1>14
  <2> HIDE DEF whole
  <2>2. Holding(whole, ContextMembers)
    BY <1>15, <2>1 DEF Holding
  <2>3. ASSUME NEW m \in ContextMembers
        PROVE  whole[m] = IF m = "tenant" THEN tenant ELSE IF m = "ref" THEN None
                          ELSE IF m = "products" THEN plain ELSE c[m]
    <3>1. whole[m] = IF m = "products" THEN plain ELSE target[m]
      BY <1>15, <2>1 DEF Holding, ContextMembers
    <3> QED
      BY <1>1, <1>15, <3>1
  <2> QED
    BY <2>2, <2>3
<1>17. /\ Holding(meant, ContextMembers)
       /\ \A m \in ContextMembers :
            meant[m] = IF m = "tenant" THEN tenant ELSE IF m = "ref" THEN None
                        ELSE IF m = "products" THEN plain ELSE c[m]
  <2> HIDE DEF plain, tenant
  <2>1. Holding(c, ContextMembers)
    BY <1>2
  <2> QED
    BY <2>1 DEF Holding, ContextMembers
<1> HIDE DEF whole, meant
<1>18. whole = meant
  BY <1>16, <1>17 DEF Holding
<1>19. /\ DOMAIN plain = DOMAIN c.products
       /\ \A ns \in DOMAIN plain : Direct(plain[ns]) <=> Direct(c.products[ns])
  <2>1. ASSUME NEW ns \in DOMAIN c.products
        PROVE  Direct(TrimURLs(c.products[ns])) <=> Direct(c.products[ns])
    <3>1. Holding(c.products[ns],
                  {"url", "audience", "scopes", "grant", "id", "secret", "gateway"})
      BY DEF Recorded, RecordedProduct
    <3>2. TrimURLs(c.products[ns]).grant = c.products[ns].grant
      BY <3>1 DEF TrimURLs, Holding
    <3> QED
      BY <3>2 DEF Direct
  <2> QED
    BY <2>1 DEF plain
<1> HIDE DEF plain
<1>20. FreezeContext(whole) = whole
  <2>1. /\ whole.login = c.login /\ whole.kind = c.kind /\ whole.synthetic = c.synthetic
        /\ whole.products = plain
    BY <1>16, <1>4
  <2>2. CASE c.login # None \/ c.kind = "client-credentials" \/ c.synthetic
    BY <2>1, <2>2 DEF FreezeContext
  <2>3. CASE ~(c.login # None \/ c.kind = "client-credentials" \/ c.synthetic)
    <3>1. LoginNamespace(whole) = LoginNamespace(c)
      <4> DEFINE direct == {n \in DOMAIN NamespaceOrder :
                              /\ NamespaceOrder[n] \in DOMAIN c.products
                              /\ Direct(c.products[NamespaceOrder[n]])}
      <4>1. direct = {n \in DOMAIN NamespaceOrder :
                        /\ NamespaceOrder[n] \in DOMAIN plain
                        /\ Direct(plain[NamespaceOrder[n]])}
        BY <1>19
      <4>2. (c.login \in DOMAIN plain /\ Direct(plain[c.login]))
              <=> (c.login \in DOMAIN c.products /\ Direct(c.products[c.login]))
        BY <1>19
      <4> DEFINE first == NamespaceOrder[CHOOSE n \in direct : \A m \in direct : n <= m]
      <4>3. LoginNamespace(c) =
              IF c.login \in DOMAIN c.products /\ Direct(c.products[c.login]) THEN c.login
              ELSE IF direct = {} THEN None ELSE first
        BY DEF LoginNamespace
      <4> DEFINE there == {n \in DOMAIN NamespaceOrder :
                             /\ NamespaceOrder[n] \in DOMAIN whole.products
                             /\ Direct(whole.products[NamespaceOrder[n]])}
      <4>4. LoginNamespace(whole) =
              IF whole.login \in DOMAIN whole.products /\ Direct(whole.products[whole.login])
              THEN whole.login
              ELSE IF there = {} THEN None
              ELSE NamespaceOrder[CHOOSE n \in there : \A m \in there : n <= m]
        BY DEF LoginNamespace
      <4>5. there = direct
        BY <2>1, <4>1
      <4> HIDE DEF direct, there
      <4> QED
        BY <2>1, <4>2, <4>3, <4>4, <4>5
    <3>2. FreezeContext(whole) = [whole EXCEPT !.login = None]
      BY <1>3, <2>1, <2>3, <3>1 DEF FreezeContext
    <3> QED
      BY <1>16, <2>1, <2>3, <3>2 DEF Holding
  <2> QED
    BY <2>2, <2>3
<1> QED
  BY <1>13, <1>18, <1>20 DEF meant, plain, tenant, x

\* A document put in another form says what it said: migrated, what it selects
\* keeps its sessions, and each context export writes, applied where no product
\* is installed to fill it in, comes to the record it was taken from, but for the
\* slashes its products' and gateways' URLs end in and a tenant that was edited
\* out (exportFile, inputContext.resolve and inputProduct.spec).
THEOREM RewrittenAlikeHolds == Spec => []RewrittenAlike
<1>1. Sustained => ExportAppliesAlike
  <2> SUFFICES ASSUME Sustained, Readable, disk.version # LegacyVersion,
                      NEW n \in DOMAIN Loaded.contexts,
                      FreezeContext(Loaded.contexts[n]).kind # "pat"
               PROVE  LET c == FreezeContext(Loaded.contexts[n])
                      IN Resolve(Uninstalled, Exported(c)) =
                           Give([c EXCEPT !.ref = None,
                                          !.tenant = Or(@, TenantForIssuer(c.issuer)),
                                          !.products = [ns \in DOMAIN @ |-> TrimURLs(@[ns])]])
    BY DEF ExportAppliesAlike
  <2> DEFINE c == FreezeContext(Loaded.contexts[n])
  <2>1. Recorded(c) /\ ValidContext(c) /\ FreezeContext(c) = c
    BY LoadedContexts
  <2> HIDE DEF c
  <2>2. ASSUME NEW ns \in DOMAIN c.products PROVE Descriptor(Uninstalled, ns) = None
    <3>1. ns \in DOMAIN installed
      BY <2>1 DEF Recorded, Sustained, Ready, Stocked, Inventory
    <3> QED
      BY <3>1 DEF Descriptor, Uninstalled
  <2>3. c.kind # "pat"
    BY DEF c
  <2> QED
    BY <2>1, <2>2, <2>3, ReappliedIs DEF c
<1> QED
  BY <1>1, AlwaysSustained, MigrationKeepsSelectedHolds, PTL DEF RewrittenAlike

\* What a release says of reaching a product.
LEMMA DescribedGrantIs ==
  ASSUME NEW store, Inventory(store), NEW ns \in DOMAIN Published,
         Descriptor(store, ns) # None, Descriptor(store, ns).grant # None,
         NEW url \in DOMAIN Served
  PROVE  LET grant == DescribedGrant(Descriptor(store, ns), NewSpec(url))
         IN grant # None /\ grant.kind = Descriptor(store, ns).grant
<1> DEFINE d == Descriptor(store, ns)
           spec == NewSpec(url)
           grant == DescribedGrant(d, spec)
<1>1. spec.url = url /\ spec.client = None
  BY DEF NewSpec
<1>2. store[ns] \in {None} \cup DOMAIN Published[ns]
  BY DEF Inventory
<1>3. d = Published[ns][store[ns]] /\ store[ns] \in DOMAIN Published[ns]
  BY <1>2 DEF Descriptor
<1> HIDE DEF d, spec
<1>4. d # None /\ d.grant # None
  BY DEF d
<1>5. d.grant \in LegalGrants
  BY <1>3, <1>4, DescriptorsAssumption DEF ValidDescriptor
<1>6. d.client \in Text /\ IssuerAt[url][d.path] \in STRING
  BY <1>3, <1>4, InputsAssumption
<1>7. Or(spec.client, d.client) \in Text /\ DescriptorIssuer(d, spec.url) \in Text
  BY <1>1, <1>6 DEF Or, DescriptorIssuer, Text
<1>8. grant \in Grant /\ grant.kind = d.grant
  <2>1. CASE d.grant = "exchange"
    <3>1. grant = [kind |-> "exchange", issuer |-> None, client |-> None, scopes |-> {},
                   resource |-> None]
      BY <2>1 DEF DescribedGrant
    <3> HIDE DEF grant
    <3> QED
      BY <1>5, <2>1, <3>1 DEF Grant, Text, Scopes
  <2>2. CASE d.grant # "exchange"
    <3>1. grant = [kind |-> d.grant, issuer |-> DescriptorIssuer(d, spec.url),
                   client |-> Or(spec.client, d.client), scopes |-> {}, resource |-> None]
      BY <2>2 DEF DescribedGrant
    <3> HIDE DEF grant
    <3> QED
      BY <1>5, <1>7, <3>1 DEF Grant, Text, Scopes
  <2> QED
    BY <2>1, <2>2
<1> HIDE DEF grant
<1> QED
  BY <1>8, NoneAssumption DEF grant, d, spec

\* A record context show has no note about is one that adding the product again
\* would not change the scopes of, nor the grant of while nothing logs in through
\* the product (productDrift looks at what resolveProduct would fill in).
THEOREM DriftToldHolds == Spec => []DriftTold
<1>1. Sustained => DriftTold
  <2> SUFFICES ASSUME Sustained, Readable, disk.version # LegacyVersion,
                      NEW n \in DOMAIN Loaded.contexts
               PROVE  LET c == FreezeContext(Loaded.contexts[n])
                      IN \A ns \in DOMAIN c.products \ {c.login} :
                           LET d == Descriptor(installed, ns)
                               record == c.products[ns]
                               again == ResolveProduct(ns, d, NewSpec(record.url), c)
                           IN d # None /\ ~Drifted(installed, c, ns) /\ again.refused = None =>
                                /\ d.scopes # {} => again.value.scopes = record.scopes
                                /\ ~LoginProvider(d) =>
                                     /\ ~Direct(record) /\ ~Direct(again.value)
                                     /\ again.value.grant.kind = record.grant.kind
    BY DEF DriftTold
  <2> DEFINE c == FreezeContext(Loaded.contexts[n])
  <2>1. Recorded(c) /\ ValidContext(c)
    BY LoadedContexts
  <2> HIDE DEF c
  <2> SUFFICES ASSUME NEW ns \in DOMAIN c.products \ {c.login},
                      Descriptor(installed, ns) # None, ~Drifted(installed, c, ns),
                      ResolveProduct(ns, Descriptor(installed, ns),
                                     NewSpec(c.products[ns].url), c).refused = None
               PROVE  LET d == Descriptor(installed, ns)
                          record == c.products[ns]
                          again == ResolveProduct(ns, d, NewSpec(record.url), c)
                      IN /\ d.scopes # {} => again.value.scopes = record.scopes
                         /\ ~LoginProvider(d) =>
                              /\ ~Direct(record) /\ ~Direct(again.value)
                              /\ again.value.grant.kind = record.grant.kind
    BY DEF c
  <2> DEFINE d == Descriptor(installed, ns)
             record == c.products[ns]
             spec == NewSpec(record.url)
             again == ResolveProduct(ns, d, spec, c)
             grant == DescribedGrant(d, spec)
  <2>2. /\ d.scopes # {} => record.scopes = d.scopes
        /\ d.grant # None => ~Direct(record) /\ record.grant.kind = d.grant
    BY DEF Drifted
  <2>3. ns \in DOMAIN Published /\ Inventory(installed) /\ record.url \in DOMAIN Served
    BY <2>1 DEF Recorded, Sustained, Ready, Stocked, ValidContext, ValidAccount, ValidProduct,
                SecureURL
  <2>4. d.grant # None => grant # None /\ grant.kind = d.grant
    BY <2>3, DescribedGrantIs
  <2>5. /\ spec.scopes = None /\ spec.gateway = None /\ spec.grant = None
        /\ spec.secret = None /\ spec.id = None
    BY DEF NewSpec
  <2>6. again.refused = None /\ d # None
    OBVIOUS
  <2> DEFINE stated == [AsStated(spec) EXCEPT !.scopes = Or(spec.scopes, d.scopes),
                                              !.gateway = None]
             audience == Or(Or(spec.audience, AudienceFor(d, spec.client)),
                            IF grant.kind = "exchange" THEN spec.url ELSE None)
             through == [stated EXCEPT !.audience = Or(@, AudienceFor(d, c.client))]
             beside == [stated EXCEPT !.grant = grant, !.audience = audience]
  <2>7. stated.scopes = d.scopes /\ {"scopes", "grant"} \subseteq DOMAIN stated
    BY <2>5 DEF AsStated, Or
  <2>8. /\ through.scopes = d.scopes /\ beside.scopes = d.scopes /\ beside.grant = grant
    <3> HIDE DEF stated, grant, audience
    <3> QED
      BY <2>7
  <2>9. again = CASE LoginProvider(d) /\ DescriptorIssuer(d, spec.url) # c.issuer ->
                       Refuse("conflicting_arguments")
                  [] LoginProvider(d) /\ DescriptorIssuer(d, spec.url) = c.issuer ->
                       ResolveGateway(d, spec, c, through)
                  [] ~LoginProvider(d) ->
                       IF ProductRefused(d, spec, c) # None
                       THEN Refuse(ProductRefused(d, spec, c))
                       ELSE ResolveGateway(d, spec, c, beside)
    <3>1. Or(spec.grant, grant) = grant
      BY <2>5 DEF Or
    <3> HIDE DEF grant, spec, d
    <3> QED
      BY <2>6, <3>1 DEF ResolveProduct, grant
  <2> HIDE DEF d, record, spec, again, grant, stated, audience, through, beside
  <2>10. \A p : ResolveGateway(d, spec, c, p) = Give(p)
    BY <2>5 DEF ResolveGateway
  <2>11. \A code : Refuse(code).refused = code
    BY DEF Refuse
  <2>12. "conflicting_arguments" # None
    BY NoneAssumption DEF Codes
  <2>13. /\ again = Give(through) \/ again = Give(beside)
         /\ ~LoginProvider(d) => again = Give(beside) /\ ProductRefused(d, spec, c) = None
    BY <2>6, <2>9, <2>10, <2>11, <2>12
  <2>14. again.value.scopes = d.scopes
    BY <2>8, <2>13 DEF Give
  <2>15. ASSUME ~LoginProvider(d)
         PROVE  /\ ~Direct(record) /\ ~Direct(again.value)
                /\ again.value.grant.kind = record.grant.kind
    <3>1. d.grant # None
      <4>1. "product_not_configured" # None /\ "conflicting_arguments" # None
        BY NoneAssumption DEF Codes
      <4> QED
        BY <2>5, <2>13, <2>15, <4>1 DEF ProductRefused
    <3>2. again.value.grant = grant
      BY <2>8, <2>13, <2>15 DEF Give
    <3> QED
      BY <2>2, <2>4, <3>1, <3>2 DEF Direct
  <2> QED
    BY <2>2, <2>14, <2>15 DEF d, record, spec, again
<1> QED
  BY <1>1, AlwaysSustained, PTL

===============================================================================
