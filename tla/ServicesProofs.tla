---------------------------- MODULE ServicesProofs ----------------------------
(***************************************************************************)
(* Proofs about Services, for every set of components, whatever clients    *)
(* they ask for, and any number of calls and ticks.                        *)
(***************************************************************************)
EXTENDS Services, TLAPS

\* A client in the cache was created for what it is cached by, is the client of one
\* key only, and is in service.
CacheInv ==
    /\ \A key \in ClientKeys :
          Factory!Cached(key) =>
              /\ clients[key].id =< created
              /\ clients[key].id \notin shutDown
              /\ whose[clients[key].id] \in Configs
              /\ Key(whose[clients[key].id]) = key
    /\ \A k1, k2 \in ClientKeys :
          Factory!Cached(k1) /\ clients[k1].id = clients[k2].id => k1 = k2
    /\ \A x \in shutDown : x =< created

\* Client x, got for config by the call for c, is the right one, and it is cached
\* as long as the call does not take too long.
InUse(c, x, config) ==
    /\ x =< created
    /\ whose[x] = config
    /\ \/ now - since[c] > Validity
       \/ clients[Key(config)].id = x /\ clients[Key(config)].validUntil >= since[c] + Validity

UseInv ==
    \A c \in Components :
        /\ since[c] =< now /\ sampled[c] =< now
        /\ pc[c] = "idle" => local[c] = Factory!NoClient
        /\ pc[c] \in {"idle", "local"} => target[c] = Factory!NoClient
        /\ local[c] # Factory!NoClient => InUse(c, local[c], LocalConfig(c))
        /\ target[c] # Factory!NoClient => InUse(c, target[c], TargetConfig(c))

\* The recorder remembers the last event that was shown, unless it was long ago.
EventInv ==
    \A c \in Components :
        /\ pc[c] \in {"report", "record"} => outcome[c] \in Outcomes
        /\ \/ events[c] = shown[c]
           \/ /\ events[c] = Recorder!Forgotten
              /\ \/ shown[c].digest = Recorder!NoEvent
                 \/ now - shown[c].timestamp > Expiration

DelayInv == DelaysCountInARow /\ Delays!RemembersLatest

\* The inductive invariant.
IndInv == TypeOK /\ CacheInv /\ UseInv /\ DelayInv /\ EventInv

-----------------------------------------------------------------------------
(* Clients *)

\* What components ask for, and the keys of it.
LEMMA AskedConfigs ==
  ASSUME NEW c \in Components
  PROVE  /\ LocalConfig(c) \in Configs /\ TargetConfig(c) \in Configs
         /\ \A config \in Configs : Key(config) \in ClientKeys
  BY DEF Configs, ClientKeys

\* A key tells a configuration.
LEMMA KeyTells ==
  ASSUME NEW a \in Configs, NEW b \in Configs, Key(a) = Key(b)
  PROVE  a = b
  <1>1. \A x \in Configs : x = [config |-> x.config, user |-> x.user]
    BY DEF Configs, LocalConfig, TargetConfig, Operator
  <1>2. a.config = b.config /\ a.user = b.user
    BY DEF Key
  <1> QED
    BY <1>1, <1>2

\* What a call of Get does to the cache, the clients that are there and the one
\* that it returns.
LEMMA GetStep ==
  ASSUME IndInv, NEW config \in Configs, GetClient(config)
  PROVE  LET e == clients'[Key(config)]
         IN  /\ clients' \in [ClientKeys -> [id : Factory!ClientIds \cup {Factory!NoClient},
                                             validUntil : Nat]]
             /\ created' \in 0 .. MaxClients /\ created =< created' /\ shutDown' = shutDown
             /\ whose' \in [Factory!ClientIds -> Configs \cup {Operator}]
             /\ \A x \in Factory!ClientIds : x =< created => whose'[x] = whose[x]
             /\ \A key \in ClientKeys :
                   Factory!Cached(key) =>
                      /\ clients'[key].id = clients[key].id
                      /\ clients'[key].validUntil \in {clients[key].validUntil, now + Validity}
             /\ e.id \in Factory!ClientIds /\ e.id =< created' /\ whose'[e.id] = config
             /\ e.validUntil = now + Validity
             /\ CacheInv'
  <1> DEFINE key == Key(config)
             Entry == [id : Factory!ClientIds \cup {Factory!NoClient}, validUntil : Nat]
  <1>1. /\ key \in ClientKeys /\ now \in Nat /\ now + Validity \in Nat
        /\ clients \in [ClientKeys -> Entry] /\ created \in 0 .. MaxClients
        /\ MaxClients \in Nat
        /\ whose \in [Factory!ClientIds -> Configs \cup {Operator}]
        /\ shutDown \subseteq Factory!ClientIds
    BY AskedConfigs, ParametersAssumption, ComponentsAssumption
       DEF IndInv, TypeOK, Factory!FactoryTypeOK, ClientKeys
  <1> HIDE DEF key
  <1>2. CASE Factory!Cached(key)
    <2>1. /\ clients' = [clients EXCEPT ![key].validUntil = now + Validity]
          /\ UNCHANGED <<created, shutDown, whose>>
      BY <1>2 DEF GetClient, Factory!Get, key
    <2>2. whose[clients[key].id] = config /\ clients[key].id =< created
      BY <1>1, <1>2, KeyTells DEF IndInv, CacheInv, key
    <2>3. /\ clients' \in [ClientKeys -> Entry]
          /\ clients'[key].validUntil = now + Validity
          /\ \A k \in ClientKeys : /\ clients'[k].id = clients[k].id
                                   /\ k # key => clients'[k] = clients[k]
      BY <1>1, <2>1
    <2>4. clients'[key].id \in Factory!ClientIds
      BY <1>1, <1>2, <2>3 DEF Factory!Cached
    <2>5. CacheInv'
      BY <1>1, <2>1, <2>3 DEF IndInv, CacheInv, Factory!Cached
    <2> QED
      BY <1>1, <2>1, <2>2, <2>3, <2>4, <2>5 DEF key
  <1>3. CASE ~ Factory!Cached(key)
    <2> DEFINE new == [id |-> created + 1, validUntil |-> now + Validity]
    <2>1. /\ clients' = [clients EXCEPT ![key] = new]
          /\ created < MaxClients /\ created' = created + 1
          /\ UNCHANGED shutDown
          /\ whose' = [whose EXCEPT ![created + 1] = config]
      <3>1. /\ clients' = [clients EXCEPT ![key] = [id |-> created', validUntil |-> now + Validity]]
            /\ created < MaxClients /\ created' = created + 1
            /\ UNCHANGED shutDown
        BY <1>3 DEF GetClient, Factory!Get, key
      <3>2. created' # created
        BY <1>1, <3>1
      <3>3. whose' = [whose EXCEPT ![created'] = config]
        BY <3>2 DEF GetClient
      <3> QED
        BY <3>1, <3>3
    <2>2. /\ created + 1 \in Factory!ClientIds /\ created + 1 # Factory!NoClient
          /\ new \in Entry /\ created + 1 \in 0 .. MaxClients /\ created < created + 1
      BY <1>1, <2>1 DEF Factory!ClientIds, Factory!NoClient
    <2>3. /\ clients' \in [ClientKeys -> Entry]
          /\ clients'[key] = new
          /\ \A k \in ClientKeys : k # key => clients'[k] = clients[k]
      BY <1>1, <2>1, <2>2
    <2>4. /\ whose' \in [Factory!ClientIds -> Configs \cup {Operator}]
          /\ whose'[created + 1] = config
          /\ \A x \in Factory!ClientIds : x =< created => whose'[x] = whose[x]
      BY <1>1, <2>1, <2>2 DEF Factory!ClientIds
    <2>5. CacheInv'
      <3>1. \A k \in ClientKeys : Factory!Cached(k) =>
               clients[k].id \in Factory!ClientIds /\ clients[k].id =< created
        BY <1>1 DEF IndInv, CacheInv, Factory!Cached
      <3>2. \A k \in ClientKeys : Factory!Cached(k)' =>
              /\ clients'[k].id =< created' /\ clients'[k].id \notin shutDown'
              /\ whose'[clients'[k].id] \in Configs /\ Key(whose'[clients'[k].id]) = k
        <4> SUFFICES ASSUME NEW k \in ClientKeys, Factory!Cached(k)'
                     PROVE  /\ clients'[k].id =< created' /\ clients'[k].id \notin shutDown'
                            /\ whose'[clients'[k].id] \in Configs
                            /\ Key(whose'[clients'[k].id]) = k
          OBVIOUS
        <4>1. CASE k = key
          <5>1. clients'[k].id = created' /\ whose'[created'] = config /\ created' = created + 1
            BY <2>1, <2>3, <2>4, <4>1
          <5>2. created + 1 \notin shutDown'
            <6>1. \A x \in shutDown : x =< created
              BY DEF IndInv, CacheInv
            <6> QED
              BY <1>1, <2>1, <6>1
          <5>3. Key(config) = k
            BY <4>1 DEF key
          <5>4. created' =< created'
            BY <1>1, <2>1
          <5> QED
            BY <5>1, <5>2, <5>3, <5>4
        <4>2. CASE k # key
          <5>1. Factory!Cached(k) /\ clients'[k] = clients[k]
            BY <2>3, <4>2 DEF Factory!Cached
          <5> QED
            <6>1. /\ clients[k].id =< created /\ clients[k].id \notin shutDown
                  /\ whose[clients[k].id] \in Configs /\ Key(whose[clients[k].id]) = k
              BY <5>1 DEF IndInv, CacheInv
            <6>2. whose'[clients[k].id] = whose[clients[k].id]
              BY <2>4, <3>1, <5>1
            <6>3. clients[k].id =< created'
              BY <1>1, <2>1, <3>1, <5>1 DEF Factory!ClientIds
            <6> QED
              BY <2>1, <5>1, <6>1, <6>2, <6>3
        <4> QED
          BY <4>1, <4>2
      <3>3. \A k1, k2 \in ClientKeys :
               Factory!Cached(k1)' /\ clients'[k1].id = clients'[k2].id => k1 = k2
        BY <1>1, <2>2, <2>3, <3>1 DEF IndInv, CacheInv, Factory!Cached
      <3>4. \A x \in shutDown' : x =< created'
        BY <1>1, <2>1 DEF IndInv, CacheInv, Factory!ClientIds
      <3> QED
        BY <3>2, <3>3, <3>4 DEF CacheInv
    <2> QED
      BY <1>1, <1>3, <2>1, <2>2, <2>3, <2>4, <2>5 DEF key
  <1> QED
    BY <1>2, <1>3

-----------------------------------------------------------------------------
(* Calls that use clients *)

\* What is known of a client in use stays true when a client is got for anything.
LEMMA UseKept ==
  ASSUME IndInv, NEW config \in Configs, GetClient(config), UNCHANGED now,
         NEW c \in Components, NEW x \in Factory!ClientIds, NEW d \in Configs,
         since'[c] = since[c], InUse(c, x, d)
  PROVE  InUse(c, x, d)'
  <1> DEFINE key == Key(d)
  <1>1. /\ key \in ClientKeys /\ now \in Nat /\ since[c] \in Nat /\ since[c] =< now
        /\ clients[key].validUntil \in Nat
        /\ created \in Nat /\ created' \in Nat /\ x \in Nat /\ Validity \in Nat
    <2>1. key \in ClientKeys
      BY AskedConfigs
    <2>2. clients[key].validUntil \in Nat
      BY <2>1 DEF IndInv, TypeOK, Factory!FactoryTypeOK
    <2>3. now \in Nat /\ since[c] \in Nat /\ since[c] =< now
      BY ComponentsAssumption DEF IndInv, TypeOK, UseInv
    <2>4. Validity \in Nat /\ MaxClients \in Nat
      BY ParametersAssumption
    <2>5. created \in Nat /\ x \in Nat
      BY <2>4 DEF IndInv, TypeOK, Factory!FactoryTypeOK, Factory!ClientIds
    <2>6. created' \in 0 .. MaxClients
      BY GetStep
    <2> QED
      BY <2>1, <2>2, <2>3, <2>4, <2>5, <2>6
  <1>2. /\ created =< created'
        /\ \A y \in Factory!ClientIds : y =< created => whose'[y] = whose[y]
        /\ Factory!Cached(key) =>
              /\ clients'[key].id = clients[key].id
              /\ clients'[key].validUntil \in {clients[key].validUntil, now + Validity}
    BY <1>1, GetStep
  <1>3. x =< created' /\ whose'[x] = d
    BY <1>1, <1>2 DEF InUse
  <1>4. ASSUME clients[key].id = x, clients[key].validUntil >= since[c] + Validity
        PROVE  clients'[key].id = x /\ clients'[key].validUntil >= since[c] + Validity
    <2>1. Factory!Cached(key)
      BY <1>4 DEF Factory!Cached, Factory!ClientIds, Factory!NoClient
    <2> QED
      BY <1>1, <1>2, <1>4, <2>1
  <1> QED
    BY <1>3, <1>4 DEF InUse

\* The client that was got is in use.
LEMMA UseBegins ==
  ASSUME IndInv, NEW config \in Configs, GetClient(config), UNCHANGED now,
         NEW c \in Components, since'[c] \in Nat, since'[c] =< now,
         NEW x, x = clients'[Key(config)].id
  PROVE  InUse(c, x, config)'
  <1>1. /\ x =< created' /\ whose'[x] = config
        /\ clients'[Key(config)].validUntil = now + Validity
        /\ now \in Nat /\ Validity \in Nat
    BY GetStep, ParametersAssumption DEF IndInv, TypeOK
  <1>2. clients'[Key(config)].validUntil >= since'[c] + Validity
    BY <1>1
  <1> QED
    BY <1>1, <1>2 DEF InUse

\* What a sweep does to the cache and to the clients in use.

\* A sweep shuts down only clients that nobody uses, or has used for too long.
LEMMA SweepStep ==
  ASSUME IndInv, Sweep
  PROVE  CacheInv' /\ UseInv'
  <1> DEFINE E == Factory!Expired(now)
  <1>1. /\ shutDown' = shutDown \cup {clients[key].id : key \in E}
        /\ clients' = [key \in ClientKeys |->
                          IF key \in E THEN [id |-> Factory!NoClient, validUntil |-> 0]
                          ELSE clients[key]]
        /\ UNCHANGED <<created, now, callVars, whose>>
    BY DEF Sweep, Factory!Sweep, historyVars
  <1>2. \A k \in ClientKeys :
           k \in E <=> Factory!Cached(k) /\ clients[k].validUntil < now
    BY DEF Factory!Expired
  <1>3. E \subseteq ClientKeys
    BY DEF Factory!Expired
  <1>4. \A k \in ClientKeys :
           /\ Factory!Cached(k)' => k \notin E /\ Factory!Cached(k)
           /\ k \notin E => clients'[k] = clients[k]
    BY <1>1 DEF Factory!Cached
  <1> HIDE DEF E
  <1>5. CacheInv'
    <2>1. \A k \in ClientKeys : Factory!Cached(k)' =>
             /\ clients'[k].id =< created' /\ clients'[k].id \notin shutDown'
             /\ whose'[clients'[k].id] \in Configs /\ Key(whose'[clients'[k].id]) = k
      <3> SUFFICES ASSUME NEW k \in ClientKeys, Factory!Cached(k)'
                   PROVE  /\ clients'[k].id =< created' /\ clients'[k].id \notin shutDown'
                          /\ whose'[clients'[k].id] \in Configs
                          /\ Key(whose'[clients'[k].id]) = k
        OBVIOUS
      <3>1. Factory!Cached(k) /\ clients'[k] = clients[k] /\ k \notin E
        BY <1>4
      <3>2. clients[k].id \notin {clients[key].id : key \in E}
        BY <1>3, <3>1 DEF IndInv, CacheInv
      <3> QED
        BY <1>1, <3>1, <3>2 DEF IndInv, CacheInv
    <2>2. \A k1, k2 \in ClientKeys :
             Factory!Cached(k1)' /\ clients'[k1].id = clients'[k2].id => k1 = k2
      <3> SUFFICES ASSUME NEW k1 \in ClientKeys, NEW k2 \in ClientKeys,
                          Factory!Cached(k1)', clients'[k1].id = clients'[k2].id
                   PROVE  k1 = k2
        OBVIOUS
      <3>1. Factory!Cached(k1) /\ clients'[k1] = clients[k1] /\ Factory!Cached(k2)'
        BY <1>4 DEF Factory!Cached
      <3>2. clients'[k2] = clients[k2]
        BY <1>4, <3>1
      <3> QED
        BY <3>1, <3>2 DEF IndInv, CacheInv
    <2>3. \A x \in shutDown' : x =< created'
      <3>1. \A k \in E : clients[k].id =< created
        BY <1>2, <1>3 DEF IndInv, CacheInv
      <3> QED
        BY <1>1, <3>1 DEF IndInv, CacheInv
    <2> QED
      BY <2>1, <2>2, <2>3 DEF CacheInv
  <1>6. ASSUME NEW c \in Components, NEW x, NEW d \in Configs, InUse(c, x, d)
        PROVE  InUse(c, x, d)'
    <2> DEFINE key == Key(d)
    <2>1. key \in ClientKeys
      BY AskedConfigs
    <2>2. /\ clients[key].validUntil \in Nat /\ now \in Nat /\ since[c] \in Nat
          /\ Validity \in Nat
      BY <2>1, ComponentsAssumption, ParametersAssumption
         DEF IndInv, TypeOK, Factory!FactoryTypeOK
    <2>3. x =< created' /\ whose'[x] = d /\ since'[c] = since[c]
      BY <1>1, <1>6 DEF InUse, callVars
    <2>4. CASE now - since[c] > Validity
      BY <1>1, <2>3, <2>4 DEF InUse
    <2>5. CASE ~ (now - since[c] > Validity)
      <3>1. clients[key].id = x /\ clients[key].validUntil >= since[c] + Validity
        BY <1>6, <2>5 DEF InUse
      <3>2. ~ (clients[key].validUntil < now)
        BY <2>2, <2>5, <3>1
      <3>3. clients'[key] = clients[key]
        BY <1>2, <1>4, <2>1, <3>2
      <3> QED
        BY <2>3, <3>1, <3>3 DEF InUse
    <2> QED
      BY <2>4, <2>5
  <1>7. UseInv'
    BY <1>1, <1>6, AskedConfigs DEF IndInv, UseInv, callVars
  <1> QED
    BY <1>5, <1>7

\* UseInv, but for the times.
InUseOf(c) ==
    /\ local[c] # Factory!NoClient => InUse(c, local[c], LocalConfig(c))
    /\ target[c] # Factory!NoClient => InUse(c, target[c], TargetConfig(c))

\* Getting a client for one component leaves those in use by the others.
LEMMA OthersUse ==
  ASSUME IndInv, NEW config \in Configs, GetClient(config), UNCHANGED now,
         NEW c \in Components, UNCHANGED <<since[c], local[c], target[c]>>
  PROVE  InUseOf(c)'
  <1>1. /\ local[c] \in Factory!ClientIds \cup {Factory!NoClient}
        /\ target[c] \in Factory!ClientIds \cup {Factory!NoClient}
    BY DEF IndInv, TypeOK
  <1>2. LocalConfig(c) \in Configs /\ TargetConfig(c) \in Configs
    BY AskedConfigs
  <1>3. ASSUME local[c] # Factory!NoClient PROVE InUse(c, local[c], LocalConfig(c))'
    <2>1. InUse(c, local[c], LocalConfig(c)) /\ local[c] \in Factory!ClientIds
      BY <1>1, <1>3 DEF IndInv, UseInv
    <2>2. PICK x \in Factory!ClientIds : x = local[c]
      BY <2>1
    <2>3. InUse(c, x, LocalConfig(c))'
      BY <1>2, <2>1, <2>2, UseKept
    <2> QED
      BY <2>2, <2>3 DEF InUse
  <1>4. ASSUME target[c] # Factory!NoClient PROVE InUse(c, target[c], TargetConfig(c))'
    <2>1. InUse(c, target[c], TargetConfig(c)) /\ target[c] \in Factory!ClientIds
      BY <1>1, <1>4 DEF IndInv, UseInv
    <2>2. PICK x \in Factory!ClientIds : x = target[c]
      BY <2>1
    <2>3. InUse(c, x, TargetConfig(c))'
      BY <1>2, <2>1, <2>2, UseKept
    <2> QED
      BY <2>2, <2>3 DEF InUse
  <1> QED
    BY <1>3, <1>4 DEF InUseOf


\* A call gets its first client.
LEMMA LocalUse ==
  ASSUME IndInv, NEW c \in Components, GetLocalClient(c)
  PROVE  CacheInv' /\ UseInv'
  <1>1. /\ LocalConfig(c) \in Configs /\ GetClient(LocalConfig(c)) /\ UNCHANGED now
        /\ UNCHANGED <<target, sampled>>
        /\ local' = [local EXCEPT ![c] = clients'[Key(LocalConfig(c))].id]
        /\ since' = [since EXCEPT ![c] = now]
        /\ pc[c] = "idle" /\ pc' = [pc EXCEPT ![c] = "local"]
    BY AskedConfigs DEF GetLocalClient, Goes
  <1>2. CacheInv' /\ clients'[Key(LocalConfig(c))].id \in Factory!ClientIds
    BY <1>1, GetStep
  <1>3. /\ now \in Nat
        /\ local \in [Components -> Factory!ClientIds \cup {Factory!NoClient}]
        /\ since \in [Components -> 0 .. MaxTime]
        /\ pc \in [Components -> {"idle", "local", "work", "report", "record"}]
    BY DEF IndInv, TypeOK
  <1>4. ASSUME NEW d \in Components PROVE InUseOf(d)'
    <2>1. CASE d = c
      <3>1. since'[c] = now /\ target'[c] = Factory!NoClient
        BY <1>1, <1>3 DEF IndInv, UseInv
      <3>2. PICK x : x = clients'[Key(LocalConfig(c))].id
        OBVIOUS
      <3>3. InUse(c, x, LocalConfig(c))' /\ local'[c] = x
        BY <1>1, <1>3, <3>1, <3>2, UseBegins
      <3> QED
        BY <2>1, <3>1, <3>3 DEF InUseOf, InUse
    <2>2. CASE d # c
      <3>1. UNCHANGED <<since[d], local[d], target[d]>>
        BY <1>1, <1>3, <2>2
      <3> QED
        BY <1>1, <3>1, OthersUse
    <2> QED
      BY <2>1, <2>2
  <1>5. \A d \in Components : since'[d] =< now' /\ sampled'[d] =< now'
    BY <1>1, <1>3 DEF IndInv, UseInv
  <1>6. \A d \in Components :
           /\ pc'[d] = "idle" => local'[d] = Factory!NoClient
           /\ pc'[d] \in {"idle", "local"} => target'[d] = Factory!NoClient
    BY <1>1, <1>3 DEF IndInv, UseInv
  <1> QED
    BY <1>2, <1>4, <1>5, <1>6 DEF UseInv, InUseOf

\* A call gets its second client.
LEMMA TargetUse ==
  ASSUME IndInv, NEW c \in Components, GetTargetClient(c)
  PROVE  CacheInv' /\ UseInv'
  <1>1. /\ TargetConfig(c) \in Configs /\ GetClient(TargetConfig(c)) /\ UNCHANGED now
        /\ UNCHANGED <<local, since, sampled>>
        /\ target' = [target EXCEPT ![c] = clients'[Key(TargetConfig(c))].id]
        /\ pc[c] = "local" /\ pc' = [pc EXCEPT ![c] = "work"]
    BY AskedConfigs DEF GetTargetClient, Goes
  <1>2. CacheInv' /\ clients'[Key(TargetConfig(c))].id \in Factory!ClientIds
    BY <1>1, GetStep
  <1>3. /\ now \in Nat
        /\ target \in [Components -> Factory!ClientIds \cup {Factory!NoClient}]
        /\ local \in [Components -> Factory!ClientIds \cup {Factory!NoClient}]
        /\ since \in [Components -> 0 .. MaxTime]
        /\ pc \in [Components -> {"idle", "local", "work", "report", "record"}]
    BY DEF IndInv, TypeOK
  <1>4. ASSUME NEW d \in Components PROVE InUseOf(d)'
    <2>1. CASE d = c
      <3>1. since'[c] \in Nat /\ since'[c] =< now
        BY <1>1, <1>3, ComponentsAssumption DEF IndInv, UseInv
      <3>2. PICK x : x = clients'[Key(TargetConfig(c))].id
        OBVIOUS
      <3>3. InUse(c, x, TargetConfig(c))' /\ target'[c] = x
        BY <1>1, <1>3, <3>1, <3>2, UseBegins
      <3>4. local[c] # Factory!NoClient => InUse(c, local[c], LocalConfig(c))'
        <4> SUFFICES ASSUME local[c] # Factory!NoClient
                     PROVE  InUse(c, local[c], LocalConfig(c))'
          OBVIOUS
        <4>1. InUse(c, local[c], LocalConfig(c)) /\ local[c] \in Factory!ClientIds
          BY <1>3 DEF IndInv, UseInv
        <4>2. PICK y \in Factory!ClientIds : y = local[c]
          BY <4>1
        <4>3. InUse(c, y, LocalConfig(c))'
          BY <1>1, <4>1, <4>2, AskedConfigs, UseKept
        <4> QED
          BY <1>1, <4>2, <4>3 DEF InUse
      <3> QED
        BY <1>1, <2>1, <3>3, <3>4 DEF InUseOf, InUse
    <2>2. CASE d # c
      <3>1. UNCHANGED <<since[d], local[d], target[d]>>
        BY <1>1, <1>3, <2>2
      <3> QED
        BY <1>1, <3>1, OthersUse
    <2> QED
      BY <2>1, <2>2
  <1>5. \A d \in Components : since'[d] =< now' /\ sampled'[d] =< now'
    BY <1>1 DEF IndInv, UseInv
  <1>6. \A d \in Components :
           /\ pc'[d] = "idle" => local'[d] = Factory!NoClient
           /\ pc'[d] \in {"idle", "local"} => target'[d] = Factory!NoClient
    BY <1>1, <1>3 DEF IndInv, UseInv
  <1> QED
    BY <1>2, <1>4, <1>5, <1>6 DEF UseInv, InUseOf

\* The other steps leave the cache and the clients in use alone, or give them up.
LEMMA UseInvStep ==
  ASSUME IndInv, [Next]_vars
  PROVE  CacheInv' /\ UseInv'
  <1>1. /\ now \in Nat
        /\ target \in [Components -> Factory!ClientIds \cup {Factory!NoClient}]
        /\ local \in [Components -> Factory!ClientIds \cup {Factory!NoClient}]
        /\ since \in [Components -> 0 .. MaxTime]
        /\ sampled \in [Components -> 0 .. MaxTime]
        /\ pc \in [Components -> {"idle", "local", "work", "report", "record"}]
    BY DEF IndInv, TypeOK
  <1>2. ASSUME UNCHANGED <<factoryVars, whose>> PROVE CacheInv'
    BY <1>2 DEF IndInv, CacheInv, factoryVars, Factory!Cached
  <1>3. ASSUME UNCHANGED <<now, factoryVars, whose, local, target, since>>,
               \A d \in Components : sampled'[d] =< now,
               \A d \in Components :
                   pc'[d] \in {"idle", "local"} => pc'[d] = pc[d]
        PROVE  UseInv'
    BY <1>3 DEF IndInv, UseInv, InUse, factoryVars
  <1>4. ASSUME NEW c \in Components, NEW how \in Outcomes, NEW progress \in BOOLEAN,
               EndCall(c, how, progress)
        PROVE  UseInv' /\ CacheInv'
    <2>1. /\ UNCHANGED <<now, factoryVars, whose, local, target, since, sampled>>
          /\ pc' = [pc EXCEPT ![c] = "report"]
      BY <1>4 DEF EndCall, Goes
    <2>2. \A d \in Components : sampled'[d] =< now
      BY <2>1 DEF IndInv, UseInv
    <2>3. \A d \in Components : pc'[d] \in {"idle", "local"} => pc'[d] = pc[d]
      BY <1>1, <2>1
    <2> QED
      BY <1>2, <1>3, <2>1, <2>2, <2>3
  <1>5. ASSUME NEW c \in Components, LookUpTime(c)
        PROVE  UseInv' /\ CacheInv'
    <2>1. /\ UNCHANGED <<now, factoryVars, whose, local, target, since>>
          /\ pc' = [pc EXCEPT ![c] = "record"]
          /\ sampled' = [sampled EXCEPT ![c] = now]
      BY <1>5 DEF LookUpTime, Goes, historyVars
    <2>2. \A d \in Components : sampled'[d] =< now
      BY <1>1, <2>1 DEF IndInv, UseInv
    <2>3. \A d \in Components : pc'[d] \in {"idle", "local"} => pc'[d] = pc[d]
      BY <1>1, <2>1
    <2> QED
      BY <1>2, <1>3, <2>1, <2>2, <2>3
  <1>6. ASSUME NEW c \in Components, RecordEvent(c)
        PROVE  UseInv' /\ CacheInv'
    <2>1. /\ UNCHANGED <<now, factoryVars, whose>>
          /\ pc' = [pc EXCEPT ![c] = "idle"]
          /\ local' = [local EXCEPT ![c] = Factory!NoClient]
          /\ target' = [target EXCEPT ![c] = Factory!NoClient]
          /\ since' = [since EXCEPT ![c] = NoTime]
          /\ sampled' = [sampled EXCEPT ![c] = NoTime]
      BY <1>6 DEF RecordEvent, Goes
    <2>2. ASSUME NEW d \in Components, d # c
          PROVE  UNCHANGED <<pc[d], local[d], target[d], since[d], sampled[d]>>
      BY <1>1, <2>1, <2>2
    <2>3. /\ local'[c] = Factory!NoClient /\ target'[c] = Factory!NoClient
          /\ since'[c] =< now /\ sampled'[c] =< now
      BY <1>1, <2>1 DEF NoTime
    <2>4. UseInv'
      BY <2>1, <2>2, <2>3 DEF IndInv, UseInv, InUse, factoryVars
    <2> QED
      BY <1>2, <2>1, <2>4
  <1>7. ASSUME Tick PROVE UseInv' /\ CacheInv'
    <2>1. UNCHANGED <<factoryVars, whose, callVars>> /\ now' = now + 1
      BY <1>7 DEF Tick, historyVars
    <2>2. ASSUME NEW d \in Components
          PROVE  /\ since'[d] =< now' /\ sampled'[d] =< now'
                 /\ now - since[d] > Validity => now' - since'[d] > Validity
      <3>1. since[d] =< now /\ sampled[d] =< now /\ since[d] \in Nat /\ sampled[d] \in Nat
        BY <1>1, ComponentsAssumption DEF IndInv, UseInv
      <3>2. since'[d] = since[d] /\ sampled'[d] = sampled[d] /\ Validity \in Nat
        BY <2>1, ParametersAssumption DEF callVars
      <3> QED
        BY <1>1, <2>1, <3>1, <3>2
    <2>3. UseInv'
      BY <2>1, <2>2 DEF IndInv, UseInv, InUse, factoryVars, callVars
    <2> QED
      BY <1>2, <2>1, <2>3
  <1>8. ASSUME UNCHANGED vars PROVE UseInv' /\ CacheInv'
    <2>1. UseInv'
      BY <1>8 DEF vars, callVars, factoryVars, historyVars, IndInv, UseInv, InUse
    <2> QED
      BY <1>2, <1>8, <2>1 DEF vars, historyVars
  <1> QED
    BY <1>4, <1>5, <1>6, <1>7, <1>8, LocalUse, TargetUse, SweepStep DEF Next


-----------------------------------------------------------------------------
(* Types *)

\* What a call of Get gives is of the right type.
LEMMA GetTypes ==
  ASSUME IndInv, NEW config \in Configs, GetClient(config)
  PROVE  /\ Factory!FactoryTypeOK'
         /\ whose' \in [Factory!ClientIds -> Configs \cup {Operator}]
         /\ clients'[Key(config)].id \in Factory!ClientIds
  BY GetStep DEF IndInv, TypeOK, Factory!FactoryTypeOK

\* What the limiter counts without the latest activity.
LEMMA WithoutLatest ==
  ASSUME IndInv, NEW c \in Components
  PROVE  /\ Delays!Without(c) \in [Activities -> 0 .. Delays!MaxFailures]
         /\ \A act \in Activities :
               Delays!Without(c)[act] = IF act = activities[c] THEN 0 ELSE failures[c][act]
  <1>1. /\ failures \in [Components -> [Activities -> 0 .. Delays!MaxFailures]]
        /\ Delays!MaxFailures \in Nat \ {0}
    BY ParametersAssumption DEF IndInv, TypeOK, Delays!BackoffTypeOK, Delays!MaxFailures
  <1>2. 0 \in 0 .. Delays!MaxFailures
    BY <1>1
  <1> QED
    BY <1>1, <1>2 DEF Delays!Without

\* The limiter counts within its bounds.
LEMMA AskedTypes ==
  /\ \A n \in 0 .. Delays!MaxFailures : Delays!Asked(n) \in 0 .. Delays!MaxFailures
  /\ \A n \in Nat : Delays!Asked(n) \in Nat
  /\ Delays!Asked(0) = 1
  BY ParametersAssumption DEF Delays!Asked, Delays!MaxFailures

\* The backoff keeps its types.
LEMMA BackoffTypes ==
  ASSUME IndInv, NEW c \in Components, NEW how \in Activities,
         Delays!Next(c, how) \/ Delays!ForgetAndNext(c, how)
  PROVE  Delays!BackoffTypeOK'
  <1> DEFINE Range == 0 .. Delays!MaxFailures
  <1>1. /\ activities \in [Components -> Activities \cup {Delays!None}]
        /\ failures \in [Components -> [Activities -> Range]]
        /\ Delays!Without(c) \in [Activities -> Range]
        /\ \A n \in Range : Delays!Asked(n) \in Range
    BY WithoutLatest, AskedTypes DEF IndInv, TypeOK, Delays!BackoffTypeOK
  <1> HIDE DEF Range
  <1>2. activities' \in [Components -> Activities \cup {Delays!None}]
    BY <1>1 DEF Delays!Next, Delays!ForgetAndNext
  <1>3. /\ [failures[c] EXCEPT ![how] = Delays!Asked(@)] \in [Activities -> Range]
        /\ [Delays!Without(c) EXCEPT ![how] = Delays!Asked(@)] \in [Activities -> Range]
    BY <1>1
  <1>4. failures' \in [Components -> [Activities -> Range]]
    BY <1>1, <1>3 DEF Delays!Next, Delays!ForgetAndNext
  <1> QED
    BY <1>2, <1>4 DEF Delays!BackoffTypeOK, Range

\* A step keeps the types.
LEMMA TypeStep ==
  ASSUME IndInv, [Next]_vars
  PROVE  TypeOK'
  <1>1. TypeOK /\ MaxTime \in Nat /\ MaxCalls \in Nat
    BY ComponentsAssumption DEF IndInv
  <1>2. ASSUME NEW c \in Components, GetLocalClient(c) PROVE TypeOK'
    <2>1. GetClient(LocalConfig(c)) /\ LocalConfig(c) \in Configs
      BY <1>2, AskedConfigs DEF GetLocalClient
    <2>2. /\ Factory!FactoryTypeOK'
          /\ whose' \in [Factory!ClientIds -> Configs \cup {Operator}]
          /\ clients'[Key(LocalConfig(c))].id \in Factory!ClientIds
      BY <2>1, GetTypes
    <2>3. Delays!BackoffTypeOK' /\ Recorder!RecorderTypeOK'
      BY <1>1, <1>2 DEF GetLocalClient, backoffVars, TypeOK, Delays!BackoffTypeOK,
                        Recorder!RecorderTypeOK
    <2>4. calls' \in 0 .. MaxCalls
      BY <1>1, <1>2 DEF GetLocalClient, TypeOK
    <2> QED
      BY <1>1, <1>2, <2>2, <2>3, <2>4 DEF GetLocalClient, Goes, TypeOK
  <1>3. ASSUME NEW c \in Components, GetTargetClient(c) PROVE TypeOK'
    <2>1. GetClient(TargetConfig(c)) /\ TargetConfig(c) \in Configs
      BY <1>3, AskedConfigs DEF GetTargetClient
    <2>2. /\ Factory!FactoryTypeOK'
          /\ whose' \in [Factory!ClientIds -> Configs \cup {Operator}]
          /\ clients'[Key(TargetConfig(c))].id \in Factory!ClientIds
      BY <2>1, GetTypes
    <2>3. Delays!BackoffTypeOK' /\ Recorder!RecorderTypeOK'
      BY <1>1, <1>3 DEF GetTargetClient, backoffVars, TypeOK, Delays!BackoffTypeOK,
                        Recorder!RecorderTypeOK
    <2> QED
      BY <1>1, <1>3, <2>2, <2>3 DEF GetTargetClient, Goes, TypeOK
  <1>4. ASSUME NEW c \in Components, NEW how \in Outcomes, NEW progress \in BOOLEAN,
               EndCall(c, how, progress)
        PROVE  TypeOK'
    <2>1. /\ UNCHANGED <<now, factoryVars, events, local, target, since, sampled,
                         shown, whose, calls>>
          /\ pc' = [pc EXCEPT ![c] = "report"]
          /\ outcome' = [outcome EXCEPT ![c] = how]
      BY <1>4 DEF EndCall, Goes
    <2>2. Delays!BackoffTypeOK' /\ delays' \in [Components -> Nat]
      <3>1. \A n \in Nat : Delays!Asked(n) \in Nat
        BY AskedTypes
      <3>2. CASE how = "Ready"
        <4>1. Delays!Forget(c) /\ delays' = [delays EXCEPT ![c] = 0]
          BY <1>4, <3>2 DEF EndCall
        <4>2. activities' \in [Components -> Activities \cup {Delays!None}]
          BY <1>1, <4>1 DEF Delays!Forget, TypeOK, Delays!BackoffTypeOK
        <4>3. failures' \in [Components -> [Activities -> 0 .. Delays!MaxFailures]]
          BY <1>1, <4>1, WithoutLatest DEF Delays!Forget, TypeOK, Delays!BackoffTypeOK
        <4> QED
          BY <1>1, <4>1, <4>2, <4>3 DEF TypeOK, Delays!BackoffTypeOK
      <3>3. CASE how # "Ready"
        <4>1. how \in Activities
          BY <3>3 DEF Outcomes
        <4>2. Delays!Next(c, how) \/ Delays!ForgetAndNext(c, how)
          BY <1>4, <3>3 DEF EndCall
        <4>3. delays' \in [Components -> Nat]
          BY <1>1, <1>4, <3>1 DEF EndCall, TypeOK
        <4> QED
          BY <1>1, <4>1, <4>2, <4>3, BackoffTypes
      <3> QED
        BY <3>2, <3>3
    <2>3. Factory!FactoryTypeOK' /\ Recorder!RecorderTypeOK'
      BY <1>1, <2>1 DEF TypeOK, factoryVars, Factory!FactoryTypeOK, Recorder!RecorderTypeOK
    <2> QED
      BY <1>1, <2>1, <2>2, <2>3 DEF TypeOK
  <1>5. ASSUME NEW c \in Components, LookUpTime(c) PROVE TypeOK'
    <2>1. /\ Factory!FactoryTypeOK' /\ Recorder!RecorderTypeOK' /\ Delays!BackoffTypeOK'
      BY <1>1, <1>5 DEF LookUpTime, TypeOK, factoryVars, backoffVars, historyVars,
                        Factory!FactoryTypeOK, Recorder!RecorderTypeOK,
                        Delays!BackoffTypeOK
    <2> QED
      BY <1>1, <1>5, <2>1 DEF LookUpTime, Goes, TypeOK, historyVars
  <1>6. ASSUME NEW c \in Components, RecordEvent(c) PROVE TypeOK'
    <2>1. /\ Factory!FactoryTypeOK' /\ Delays!BackoffTypeOK'
      BY <1>1, <1>6 DEF RecordEvent, TypeOK, factoryVars, backoffVars,
                        Factory!FactoryTypeOK, Delays!BackoffTypeOK
    <2>2. /\ pc[c] = "record" /\ outcome[c] \in Outcomes /\ sampled[c] \in 0 .. MaxTime
      BY <1>1, <1>6 DEF RecordEvent, Goes, IndInv, EventInv, TypeOK
    <2>3. Recorder!RecorderTypeOK'
      <3>1. /\ events \in [Components -> [digest : Outcomes \cup {Recorder!NoEvent},
                                          timestamp : Nat]]
            /\ sampled[c] \in Nat
        BY <1>1, <2>2 DEF TypeOK, Recorder!RecorderTypeOK
      <3>2. Recorder!Recent(sampled[c]) \in
               [Components -> [digest : Outcomes \cup {Recorder!NoEvent}, timestamp : Nat]]
        BY <3>1 DEF Recorder!Recent, Recorder!Forgotten
      <3>3. Recorder!Remember(c, outcome[c], sampled[c])
        BY <1>6 DEF RecordEvent
      <3> QED
        BY <2>2, <3>1, <3>2, <3>3 DEF Recorder!Remember, Recorder!RecorderTypeOK
    <2>4. shown' \in [Components -> [digest : Outcomes \cup {Recorder!NoEvent},
                                     timestamp : 0 .. MaxTime]]
      BY <1>1, <1>6, <2>2 DEF RecordEvent, TypeOK
    <2> QED
      BY <1>1, <1>6, <2>1, <2>3, <2>4 DEF RecordEvent, Goes, TypeOK, NoTime
  <1>7. ASSUME Sweep PROVE TypeOK'
    <2>1. /\ Recorder!RecorderTypeOK' /\ Delays!BackoffTypeOK'
      BY <1>1, <1>7 DEF Sweep, TypeOK, backoffVars, Recorder!RecorderTypeOK,
                        Delays!BackoffTypeOK
    <2>2. Factory!FactoryTypeOK'
      <3>1. /\ Factory!Sweep(now) /\ Factory!FactoryTypeOK
        BY <1>1, <1>7 DEF Sweep, TypeOK
      <3>2. {clients[key].id : key \in Factory!Expired(now)} \subseteq Factory!ClientIds
        BY <3>1 DEF Factory!Expired, Factory!Cached, Factory!FactoryTypeOK
      <3> QED
        BY <3>1, <3>2 DEF Factory!Sweep, Factory!FactoryTypeOK
    <2> QED
      BY <1>1, <1>7, <2>1, <2>2 DEF Sweep, TypeOK, callVars, historyVars
  <1>8. ASSUME Tick PROVE TypeOK'
    <2>1. /\ Recorder!RecorderTypeOK' /\ Delays!BackoffTypeOK' /\ Factory!FactoryTypeOK'
      BY <1>1, <1>8 DEF Tick, TypeOK, backoffVars, factoryVars, Recorder!RecorderTypeOK,
                        Delays!BackoffTypeOK, Factory!FactoryTypeOK
    <2>2. now' \in 0 .. MaxTime
      BY <1>1, <1>8 DEF Tick, TypeOK
    <2> QED
      BY <1>1, <1>8, <2>1, <2>2 DEF Tick, TypeOK, callVars, historyVars
  <1>9. ASSUME UNCHANGED vars PROVE TypeOK'
    <2>1. /\ Recorder!RecorderTypeOK' /\ Delays!BackoffTypeOK' /\ Factory!FactoryTypeOK'
      BY <1>1, <1>9 DEF vars, TypeOK, backoffVars, factoryVars, Recorder!RecorderTypeOK,
                        Delays!BackoffTypeOK, Factory!FactoryTypeOK
    <2> QED
      BY <1>1, <1>9, <2>1 DEF vars, TypeOK, callVars, historyVars
  <1> QED
    BY <1>2, <1>3, <1>4, <1>5, <1>6, <1>7, <1>8, <1>9 DEF Next


-----------------------------------------------------------------------------
(* The backoff and the recorder *)

\* Next, on its own or after Forget, leaves one activity, counted on or anew.
LEMMA DelayStep ==
  ASSUME IndInv, NEW c \in Components, NEW how \in Activities,
         Delays!Next(c, how) \/ Delays!ForgetAndNext(c, how)
  PROVE  /\ activities'[c] = how
         /\ \A act \in Activities : act # how => ~ (failures'[c][act] > 0)
         /\ Delays!Next(c, how) =>
               failures'[c][how] = IF activities[c] = how
                                   THEN Delays!Asked(failures[c][how]) ELSE 1
         /\ Delays!ForgetAndNext(c, how) => failures'[c][how] = 1
         /\ \A d \in Components : d # c =>
               activities'[d] = activities[d] /\ failures'[d] = failures[d]
  <1>1. /\ activities \in [Components -> Activities \cup {Delays!None}]
        /\ failures \in [Components -> [Activities -> 0 .. Delays!MaxFailures]]
        /\ Delays!Without(c) \in [Activities -> 0 .. Delays!MaxFailures]
    BY WithoutLatest DEF IndInv, TypeOK, Delays!BackoffTypeOK
  <1>2. \A act \in Activities : act # activities[c] => failures[c][act] = 0
    <2>1. \A act \in Activities : failures[c][act] \in Nat
      BY <1>1, ParametersAssumption DEF Delays!MaxFailures
    <2> QED
      BY <2>1 DEF IndInv, DelayInv, Delays!RemembersLatest
  <1>3. \A act \in Activities : Delays!Without(c)[act] = 0
    BY <1>2, WithoutLatest
  <1>4. Delays!Asked(0) = 1
    BY AskedTypes
  <1>5. CASE Delays!ForgetAndNext(c, how) \/ (Delays!Next(c, how) /\ activities[c] # how)
    <2>1. /\ activities' = [activities EXCEPT ![c] = how]
          /\ failures' = [failures EXCEPT
                            ![c] = [Delays!Without(c) EXCEPT ![how] = Delays!Asked(@)]]
      BY <1>5 DEF Delays!Next, Delays!ForgetAndNext
    <2>2. /\ failures'[c] = [Delays!Without(c) EXCEPT ![how] = Delays!Asked(@)]
          /\ activities'[c] = how
          /\ \A d \in Components : d # c =>
                activities'[d] = activities[d] /\ failures'[d] = failures[d]
      BY <1>1, <2>1
    <2>3. /\ failures'[c][how] = 1
          /\ \A act \in Activities : act # how => failures'[c][act] = 0
      BY <1>1, <1>3, <1>4, <2>2
    <2>4. Delays!Next(c, how) /\ activities[c] = how =>
             failures'[c][how] = Delays!Asked(failures[c][how])
      <3> SUFFICES ASSUME Delays!Next(c, how), activities[c] = how
                   PROVE  failures'[c][how] = Delays!Asked(failures[c][how])
        OBVIOUS
      <3>1. failures' = [failures EXCEPT
                           ![c] = [failures[c] EXCEPT ![how] = Delays!Asked(@)]]
        BY DEF Delays!Next
      <3> QED
        BY <1>1, <3>1
    <2> QED
      BY <2>2, <2>3, <2>4
  <1>6. CASE Delays!Next(c, how) /\ activities[c] = how /\ ~ Delays!ForgetAndNext(c, how)
    <2>1. /\ activities' = [activities EXCEPT ![c] = how]
          /\ failures' = [failures EXCEPT
                            ![c] = [failures[c] EXCEPT ![how] = Delays!Asked(@)]]
      BY <1>6 DEF Delays!Next
    <2>2. /\ failures'[c] = [failures[c] EXCEPT ![how] = Delays!Asked(@)]
          /\ activities'[c] = how
          /\ \A d \in Components : d # c =>
                activities'[d] = activities[d] /\ failures'[d] = failures[d]
      BY <1>1, <2>1
    <2>3. /\ failures'[c][how] = Delays!Asked(failures[c][how])
          /\ \A act \in Activities : act # how => failures'[c][act] = 0
      BY <1>1, <1>2, <1>6, <2>2
    <2> QED
      BY <1>6, <2>2, <2>3
  <1> QED
    BY <1>5, <1>6

\* A step keeps what is known of the delays.
LEMMA DelayInvStep ==
  ASSUME IndInv, [Next]_vars
  PROVE  DelayInv'
  <1>1. /\ activities \in [Components -> Activities \cup {Delays!None}]
        /\ failures \in [Components -> [Activities -> 0 .. Delays!MaxFailures]]
        /\ delays \in [Components -> Nat]
    BY DEF IndInv, TypeOK, Delays!BackoffTypeOK
  <1>2. ASSUME UNCHANGED <<backoffVars, delays>> PROVE DelayInv'
    BY <1>2 DEF IndInv, DelayInv, DelaysCountInARow, Delays!RemembersLatest, backoffVars
  <1>3. ASSUME NEW c \in Components, NEW how \in Outcomes, NEW progress \in BOOLEAN,
               EndCall(c, how, progress)
        PROVE  DelayInv'
    <2>1. /\ \A act \in Activities : failures'[c][act] > 0 => activities'[c] = act
          /\ activities'[c] # Delays!None => failures'[c][activities'[c]] = delays'[c]
          /\ \A d \in Components : d # c =>
                activities'[d] = activities[d] /\ failures'[d] = failures[d]
      <3>1. CASE how = "Ready"
        <4>1. Delays!Forget(c)
          BY <1>3, <3>1 DEF EndCall
        <4>2. /\ activities'[c] = Delays!None
              /\ failures'[c] = Delays!Without(c)
              /\ \A d \in Components : d # c =>
                    activities'[d] = activities[d] /\ failures'[d] = failures[d]
          BY <1>1, <4>1 DEF Delays!Forget
        <4>3. ASSUME NEW act \in Activities PROVE ~ (failures'[c][act] > 0)
          <5>1. failures'[c][act] = IF act = activities[c] THEN 0 ELSE failures[c][act]
            BY <4>2, WithoutLatest
          <5>2. failures[c][act] > 0 => activities[c] = act
            BY DEF IndInv, DelayInv, Delays!RemembersLatest
          <5> QED
            BY <5>1, <5>2
        <4> QED
          BY <4>2, <4>3
      <3>2. CASE how # "Ready"
        <4>1. how \in Activities
          BY <3>2 DEF Outcomes
        <4>2. Delays!Next(c, how) \/ Delays!ForgetAndNext(c, how)
          BY <1>3, <3>2 DEF EndCall
        <4>3. failures'[c][how] = delays'[c]
          <5>1. CASE progress
            <6>1. Delays!ForgetAndNext(c, how) /\ delays' = [delays EXCEPT ![c] = 1]
              BY <1>3, <3>2, <5>1 DEF EndCall
            <6> QED
              BY <1>1, <4>1, <6>1, DelayStep
          <5>2. CASE ~ progress
            <6>1. /\ Delays!Next(c, how)
                  /\ delays' = [delays EXCEPT ![c] = IF activities[c] = how
                                                     THEN Delays!Asked(@) ELSE 1]
              BY <1>3, <3>2, <5>2 DEF EndCall
            <6>2. activities[c] = how => failures[c][how] = delays[c]
              BY <4>1, ActivitiesAssumption
                 DEF IndInv, DelayInv, DelaysCountInARow, Delays!None
            <6>3. failures'[c][how] = IF activities[c] = how
                                      THEN Delays!Asked(failures[c][how]) ELSE 1
              BY <4>1, <6>1, DelayStep
            <6>4. delays'[c] = IF activities[c] = how THEN Delays!Asked(delays[c]) ELSE 1
              BY <1>1, <6>1
            <6> QED
              BY <6>2, <6>3, <6>4
          <5> QED
            BY <5>1, <5>2
        <4> QED
          BY <4>1, <4>2, <4>3, DelayStep
      <3> QED
        BY <3>1, <3>2
    <2>2. \A d \in Components : d # c => delays'[d] = delays[d]
      BY <1>1, <1>3 DEF EndCall
    <2>3. Delays!RemembersLatest'
      BY <2>1 DEF IndInv, DelayInv, Delays!RemembersLatest
    <2>4. \A d \in Components :
             activities'[d] # Delays!None => failures'[d][activities'[d]] = delays'[d]
      BY <2>1, <2>2 DEF IndInv, DelayInv, DelaysCountInARow
    <2> QED
      BY <2>3, <2>4 DEF DelayInv, DelaysCountInARow
  <1>4. ASSUME NEW c \in Components,
               GetLocalClient(c) \/ GetTargetClient(c) \/ LookUpTime(c) \/ RecordEvent(c)
        PROVE  DelayInv'
    BY <1>2, <1>4
       DEF GetLocalClient, GetTargetClient, LookUpTime, RecordEvent, historyVars
  <1>5. ASSUME Sweep \/ Tick \/ UNCHANGED vars PROVE DelayInv'
    BY <1>2, <1>5 DEF Sweep, Tick, vars, historyVars
  <1> QED
    BY <1>3, <1>4, <1>5 DEF Next

\* What a call of the recorder does, if what it is told is an event.
LEMMA RecordStep ==
  ASSUME IndInv, NEW c \in Components, RecordEvent(c)
  PROVE  /\ outcome[c] \in Outcomes /\ outcome[c] # Recorder!NoEvent
         /\ sampled[c] \in Nat /\ now \in Nat /\ sampled[c] =< now
         /\ \A d \in Components :
               /\ Recorder!Recent(sampled[c])[d] =
                     IF events[d].timestamp < sampled[c] - Expiration
                     THEN Recorder!Forgotten ELSE events[d]
               /\ d # c => events'[d] = Recorder!Recent(sampled[c])[d] /\ shown'[d] = shown[d]
         /\ \/ /\ events[c].digest = outcome[c]
               /\ ~ (events[c].timestamp < sampled[c] - Expiration)
               /\ events'[c] = events[c] /\ shown'[c] = shown[c]
            \/ /\ \/ events[c].digest # outcome[c]
                  \/ events[c].timestamp < sampled[c] - Expiration
               /\ events'[c] = [digest |-> outcome[c], timestamp |-> sampled[c]]
               /\ shown'[c] = [digest |-> outcome[c], timestamp |-> sampled[c]]
  <1> DEFINE recent == Recorder!Recent(sampled[c])
  <1>1. /\ outcome[c] \in Outcomes /\ outcome[c] # Recorder!NoEvent
        /\ sampled[c] \in Nat /\ now \in Nat /\ sampled[c] =< now
    <2>1. outcome[c] \in Outcomes
      BY DEF RecordEvent, Goes, IndInv, EventInv
    <2>2. outcome[c] # Recorder!NoEvent
      BY <2>1, ActivitiesAssumption DEF Outcomes, Recorder!NoEvent
    <2> QED
      BY <2>1, <2>2, ComponentsAssumption DEF IndInv, TypeOK, UseInv
  <1>2. \A d \in Components :
           recent[d] = IF events[d].timestamp < sampled[c] - Expiration
                       THEN Recorder!Forgotten ELSE events[d]
    BY DEF Recorder!Recent
  <1>3. Recorder!Forgotten.digest # outcome[c]
    BY <1>1 DEF Recorder!Forgotten
  <1>4. events' = [recent EXCEPT
                     ![c] = IF recent[c].digest = outcome[c] THEN recent[c]
                            ELSE [digest |-> outcome[c], timestamp |-> sampled[c]]]
    BY DEF RecordEvent, Recorder!Remember
  <1>5. shown' = IF recent[c].digest = outcome[c] THEN shown
                 ELSE [shown EXCEPT ![c] = [digest |-> outcome[c],
                                            timestamp |-> sampled[c]]]
    BY DEF RecordEvent, Recorder!IsDuplicate
  <1>6. DOMAIN recent = Components /\ DOMAIN shown = Components
    BY DEF Recorder!Recent, IndInv, TypeOK
  <1>7. \A d \in Components : d # c => events'[d] = recent[d] /\ shown'[d] = shown[d]
    BY <1>4, <1>5, <1>6
  <1>8. CASE recent[c].digest = outcome[c]
    <2>1. recent[c] = events[c] /\ ~ (events[c].timestamp < sampled[c] - Expiration)
      BY <1>2, <1>3, <1>8
    <2>2. events'[c] = recent[c] /\ shown'[c] = shown[c]
      BY <1>4, <1>5, <1>6, <1>8
    <2> QED
      BY <1>1, <1>2, <1>7, <1>8, <2>1, <2>2
  <1>9. CASE recent[c].digest # outcome[c]
    <2>1. \/ events[c].digest # outcome[c]
          \/ events[c].timestamp < sampled[c] - Expiration
      BY <1>2, <1>9
    <2>2. /\ events'[c] = [digest |-> outcome[c], timestamp |-> sampled[c]]
          /\ shown'[c] = [digest |-> outcome[c], timestamp |-> sampled[c]]
      BY <1>4, <1>5, <1>6, <1>9
    <2> QED
      BY <1>1, <1>2, <1>7, <2>1, <2>2
  <1> QED
    BY <1>8, <1>9

\* A step keeps what is known of the events.
LEMMA EventInvStep ==
  ASSUME IndInv, [Next]_vars
  PROVE  EventInv'
  <1> DEFINE Told(c) ==
        \/ events[c] = shown[c]
        \/ /\ events[c] = Recorder!Forgotten
           /\ \/ shown[c].digest = Recorder!NoEvent
              \/ now - shown[c].timestamp > Expiration
  <1>1. /\ pc \in [Components -> {"idle", "local", "work", "report", "record"}]
        /\ outcome \in [Components -> Outcomes \cup {NoName}]
        /\ now \in Nat /\ Expiration \in Nat
        /\ \A c \in Components : shown[c].timestamp \in Nat /\ events[c].timestamp \in Nat
    BY ParametersAssumption, ComponentsAssumption
       DEF IndInv, TypeOK, Recorder!RecorderTypeOK
  <1>2. \A c \in Components :
           /\ pc[c] \in {"report", "record"} => outcome[c] \in Outcomes
           /\ Told(c)
    BY DEF IndInv, EventInv
  <1>3. ASSUME UNCHANGED <<events, shown, now>>, NEW c \in Components,
               NEW to \in {"local", "work", "record"},
               Goes(c, pc[c], to), UNCHANGED outcome, to = "record" => pc[c] = "report"
        PROVE  EventInv'
    <2>1. \A d \in Components : pc'[d] = IF d = c THEN to ELSE pc[d]
      BY <1>1, <1>3 DEF Goes
    <2>2. \A d \in Components :
             pc'[d] \in {"report", "record"} => outcome'[d] \in Outcomes
      BY <1>2, <1>3, <2>1
    <2> QED
      BY <1>2, <1>3, <2>2 DEF EventInv
  <1>4. ASSUME NEW c \in Components, GetLocalClient(c) PROVE EventInv'
    BY <1>3, <1>4 DEF GetLocalClient, Goes
  <1>5. ASSUME NEW c \in Components, GetTargetClient(c) PROVE EventInv'
    BY <1>3, <1>5 DEF GetTargetClient, Goes
  <1>6. ASSUME NEW c \in Components, LookUpTime(c) PROVE EventInv'
    BY <1>3, <1>6 DEF LookUpTime, Goes, historyVars
  <1>7. ASSUME NEW c \in Components, NEW how \in Outcomes, NEW progress \in BOOLEAN,
               EndCall(c, how, progress)
        PROVE  EventInv'
    <2>1. /\ UNCHANGED <<events, shown, now>>
          /\ pc' = [pc EXCEPT ![c] = "report"]
          /\ outcome' = [outcome EXCEPT ![c] = how]
      BY <1>7 DEF EndCall, Goes
    <2>2. \A d \in Components :
             pc'[d] \in {"report", "record"} => outcome'[d] \in Outcomes
      BY <1>1, <1>2, <2>1
    <2> QED
      BY <1>2, <2>1, <2>2 DEF EventInv
  <1>8. ASSUME NEW c \in Components, RecordEvent(c) PROVE EventInv'
    <2>1. /\ pc' = [pc EXCEPT ![c] = "idle"]
          /\ outcome' = [outcome EXCEPT ![c] = NoName]
          /\ now' = now
      BY <1>8 DEF RecordEvent, Goes
    <2>2. \A d \in Components :
             pc'[d] \in {"report", "record"} => outcome'[d] \in Outcomes
      BY <1>1, <1>2, <2>1
    <2>3. events'[c] = shown'[c] \/ (events'[c] = events[c] /\ shown'[c] = shown[c])
      BY <1>8, RecordStep
    <2>4. ASSUME NEW d \in Components, d # c PROVE Told(d)'
      <3>1. /\ events'[d] = IF events[d].timestamp < sampled[c] - Expiration
                            THEN Recorder!Forgotten ELSE events[d]
            /\ shown'[d] = shown[d] /\ sampled[c] =< now /\ sampled[c] \in Nat
        <4>1. IndInv
          OBVIOUS
        <4>2. /\ Recorder!Recent(sampled[c])[d] =
                    IF events[d].timestamp < sampled[c] - Expiration
                    THEN Recorder!Forgotten ELSE events[d]
              /\ events'[d] = Recorder!Recent(sampled[c])[d] /\ shown'[d] = shown[d]
          BY <1>8, <2>4, <4>1, RecordStep
        <4>3. sampled[c] =< now /\ sampled[c] \in Nat
          BY <1>8, <4>1, RecordStep
        <4> QED
          BY <4>2, <4>3
      <3>2. CASE events[d].timestamp < sampled[c] - Expiration /\ events[d] = shown[d]
        <4>1. now - shown[d].timestamp > Expiration
          BY <1>1, <3>1, <3>2
        <4> QED
          BY <2>1, <3>1, <3>2, <4>1 DEF Recorder!Forgotten
      <3>3. CASE events[d].timestamp < sampled[c] - Expiration /\ events[d] # shown[d]
        BY <1>2, <2>1, <3>1, <3>3 DEF Recorder!Forgotten
      <3>4. CASE ~ (events[d].timestamp < sampled[c] - Expiration)
        BY <1>2, <2>1, <3>1, <3>4 DEF Recorder!Forgotten
      <3> QED
        BY <3>2, <3>3, <3>4
    <2>5. Told(c)'
      BY <1>2, <2>1, <2>3 DEF Recorder!Forgotten
    <2> QED
      BY <2>2, <2>4, <2>5 DEF EventInv
  <1>9. ASSUME Tick PROVE EventInv'
    <2>1. UNCHANGED <<events, pc, outcome, shown>> /\ now' = now + 1
      BY <1>9 DEF Tick, callVars, historyVars
    <2>2. ASSUME NEW d \in Components PROVE Told(d)'
      <3>1. now - shown[d].timestamp > Expiration =>
               now' - shown'[d].timestamp > Expiration
        BY <1>1, <2>1
      <3> QED
        BY <1>2, <2>1, <3>1 DEF Recorder!Forgotten
    <2> QED
      BY <1>2, <2>1, <2>2 DEF EventInv
  <1>10. ASSUME Sweep \/ UNCHANGED vars PROVE EventInv'
    <2>1. UNCHANGED <<events, pc, outcome, shown, now>>
      BY <1>10 DEF Sweep, vars, callVars, historyVars
    <2> QED
      BY <1>2, <2>1 DEF EventInv
  <1> QED
    BY <1>4, <1>5, <1>6, <1>7, <1>8, <1>9, <1>10 DEF Next

-----------------------------------------------------------------------------
(* The theorems *)

\* The inductive invariant holds at the beginning ...
LEMMA InitInv == Init => IndInv
  <1> SUFFICES ASSUME Init PROVE IndInv
    OBVIOUS
  <1>1. /\ MaxTime \in Nat /\ MaxCalls \in Nat /\ MaxClients \in Nat
        /\ Delays!MaxFailures \in Nat
    BY ParametersAssumption, ComponentsAssumption DEF Delays!MaxFailures
  <1>2. TypeOK
    <2>1. Delays!BackoffTypeOK
      BY <1>1 DEF Init, Delays!BackoffInit, Delays!BackoffTypeOK
    <2>2. Factory!FactoryTypeOK
      BY <1>1 DEF Init, Factory!FactoryInit, Factory!FactoryTypeOK
    <2>3. Recorder!RecorderTypeOK
      BY DEF Init, Recorder!RecorderInit, Recorder!RecorderTypeOK, Recorder!Forgotten
    <2> QED
      BY <1>1, <2>1, <2>2, <2>3 DEF Init, TypeOK, NoTime, Recorder!Forgotten
  <1>3. CacheInv
    BY DEF Init, CacheInv, Factory!FactoryInit, Factory!Cached
  <1>4. UseInv
    <2>1. \A c \in Components :
             /\ since[c] = 0 /\ sampled[c] = 0 /\ now = 0 /\ pc[c] = "idle"
             /\ local[c] = Factory!NoClient /\ target[c] = Factory!NoClient
      BY DEF Init, NoTime
    <2>2. 0 =< 0
      OBVIOUS
    <2> QED
      BY <2>1, <2>2 DEF UseInv
  <1>5. DelayInv
    <2>1. ~ (0 > 0)
      OBVIOUS
    <2> QED
      BY <2>1 DEF Init, DelayInv, DelaysCountInARow, Delays!RemembersLatest,
                  Delays!BackoffInit
  <1>6. EventInv
    BY DEF Init, EventInv, Recorder!RecorderInit
  <1> QED
    BY <1>2, <1>3, <1>4, <1>5, <1>6 DEF IndInv

\* ... and is kept by every step.
LEMMA Inductive == Spec => []IndInv
  <1>1. IndInv /\ [Next]_vars => IndInv'
    BY TypeStep, UseInvStep, DelayInvStep, EventInvStep DEF IndInv
  <1> QED
    BY InitInv, <1>1, PTL DEF Spec

\* No client that is in use for a time within its validity has been shut down
\* (factory.go: Get extends the validity of what it returns).
THEOREM NotShutDown == Spec => []InUseNotShutDown
  <1>1. IndInv => InUseNotShutDown
    <2> SUFFICES ASSUME IndInv, NEW c \in Components, now - since[c] =< Validity,
                        NEW x \in {local[c], target[c]}, x \in shutDown
                 PROVE  FALSE
      BY DEF InUseNotShutDown
    <2>1. x # Factory!NoClient
      BY ParametersAssumption
         DEF IndInv, TypeOK, Factory!FactoryTypeOK, Factory!ClientIds, Factory!NoClient
    <2>2. PICK d \in Configs : InUse(c, x, d)
      BY <2>1, AskedConfigs DEF IndInv, UseInv
    <2>3. ~ (now - since[c] > Validity)
      BY ParametersAssumption, ComponentsAssumption DEF IndInv, TypeOK
    <2>4. Key(d) \in ClientKeys /\ clients[Key(d)].id = x
      BY <2>2, <2>3, AskedConfigs DEF InUse
    <2> QED
      BY <2>1, <2>4 DEF IndInv, CacheInv, Factory!Cached
  <1> QED
    BY <1>1, Inductive, PTL

\* A call never works with a client of somebody else (factory.go: Get).
THEOREM ClientsAreRight == Spec => []RightClients
  <1>1. IndInv => RightClients
    BY DEF IndInv, UseInv, InUse, RightClients
  <1> QED
    BY <1>1, Inductive, PTL

\* The delay of a component tells how often in a row it has been delayed for one
\* activity (backoff.go: Next and Forget).
THEOREM DelaysCount == Spec => []DelaysCountInARow
  <1>1. IndInv => DelaysCountInARow
    BY DEF IndInv, DelayInv
  <1> QED
    BY <1>1, Inductive, PTL

\* The recorder drops an event only if it was shown not long ago, and repeats it
\* only if that was long ago (recorder.go: Eventf).
THEOREM EventsRepeated == Spec => RepeatedAfterExpiration
  <1>1. ASSUME IndInv, [Next]_vars, NEW c \in Components,
               pc[c] = "record", pc'[c] = "idle", shown[c].digest = outcome[c]
        PROVE  IF shown'[c] = shown[c]
               THEN sampled[c] - shown[c].timestamp =< Expiration
               ELSE now - shown[c].timestamp > Expiration
    <2>1. pc \in [Components -> {"idle", "local", "work", "report", "record"}]
      BY <1>1 DEF IndInv, TypeOK
    <2>2. RecordEvent(c)
      <3>1. ASSUME NEW d \in Components, NEW to \in {"local", "work", "report", "record"},
                   Goes(d, pc[d], to)
            PROVE  FALSE
        BY <1>1, <2>1, <3>1 DEF Goes
      <3>2. ASSUME NEW d \in Components, RecordEvent(d) PROVE d = c
        BY <1>1, <2>1, <3>2 DEF RecordEvent, Goes
      <3>3. ~ UNCHANGED pc
        BY <1>1
      <3>4. \A d \in Components : ~ GetLocalClient(d) /\ ~ GetTargetClient(d) /\ ~ LookUpTime(d)
        BY <3>1 DEF GetLocalClient, GetTargetClient, LookUpTime, Goes
      <3>5. \A d \in Components, how \in Outcomes, progress \in BOOLEAN :
               ~ EndCall(d, how, progress)
        BY <3>1 DEF EndCall, Goes
      <3> QED
        BY <1>1, <3>2, <3>3, <3>4, <3>5 DEF Next, Sweep, Tick, vars, callVars
    <2>3. /\ now \in Nat /\ Expiration \in Nat /\ sampled[c] \in Nat /\ sampled[c] =< now
          /\ shown[c].timestamp \in Nat /\ events[c].timestamp \in Nat
      <3>1. now \in Nat /\ sampled[c] \in Nat /\ sampled[c] =< now
        BY <1>1, <2>2, RecordStep
      <3>2. shown[c].timestamp \in Nat /\ events[c].timestamp \in Nat /\ Expiration \in Nat
        BY <1>1, ParametersAssumption, ComponentsAssumption
           DEF IndInv, TypeOK, Recorder!RecorderTypeOK
      <3> QED
        BY <3>1, <3>2
    <2>4. /\ outcome[c] # Recorder!NoEvent
          /\ \/ events[c] = shown[c]
             \/ events[c] = Recorder!Forgotten /\ now - shown[c].timestamp > Expiration
      BY <1>1, <2>2, RecordStep DEF IndInv, EventInv
    <2>5. CASE /\ events[c].digest = outcome[c]
               /\ ~ (events[c].timestamp < sampled[c] - Expiration)
               /\ shown'[c] = shown[c]
      BY <2>3, <2>4, <2>5 DEF Recorder!Forgotten
    <2>6. CASE /\ \/ events[c].digest # outcome[c]
                  \/ events[c].timestamp < sampled[c] - Expiration
               /\ shown'[c] = [digest |-> outcome[c], timestamp |-> sampled[c]]
      <3>1. CASE shown'[c] = shown[c]
        <4>1. shown[c].timestamp = sampled[c]
          BY <2>6, <3>1
        <4> QED
          BY <2>3, <3>1, <4>1
      <3>2. CASE shown'[c] # shown[c]
        <4>1. now - shown[c].timestamp > Expiration
          BY <1>1, <2>3, <2>4, <2>6
        <4> QED
          BY <3>2, <4>1
      <3> QED
        BY <3>1, <3>2
    <2> QED
      BY <1>1, <2>2, <2>5, <2>6, RecordStep
  <1>2. IndInv /\ [Next]_vars =>
          [\A c \in Components :
              pc[c] = "record" /\ pc'[c] = "idle" /\ shown[c].digest = outcome[c] =>
                  IF shown'[c] = shown[c]
                  THEN sampled[c] - shown[c].timestamp =< Expiration
                  ELSE now - shown[c].timestamp > Expiration]_vars
    BY <1>1
  <1> QED
    BY <1>2, Inductive, PTL DEF Spec, RepeatedAfterExpiration
=============================================================================
