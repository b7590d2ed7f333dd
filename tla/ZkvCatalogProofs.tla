--------------------------- MODULE ZkvCatalogProofs ---------------------------
(***************************************************************************)
(* The files of a database agree and none is clobbered, for any names,     *)
(* identities, numbers of calls, overlaps and kills: CatalogInv of         *)
(* ZkvCatalog is inductive.                                                *)
(***************************************************************************)
EXTENDS ZkvCatalog, TLAPS

-----------------------------------------------------------------------------
(* Types.                                                                  *)

AtStep(op, pc) == \E i \in DOMAIN Steps(op) : Steps(op)[i] = pc

LEMMA IdleFacts == /\ Idle.op = "none" /\ Idle.name = None /\ Idle.id = None
                   /\ Idle.seal = 0 /\ Idle.pc = "idle"
                   /\ (calls \in Nat => Idle \in CallType)
BY DEF Idle, CallType, Ops, Pcs

LEMMA Typed ==
    ASSUME TypeOK, NEW c \in Calls
    PROVE  /\ calls \in Nat /\ call[c] \in CallType /\ call[c].seal \in Nat
           /\ call[c].seal <= calls /\ call[c].pc \in Pcs /\ call[c].op \in Ops
           /\ call[c].pc # "idle" => /\ call[c].name \in Names /\ AtStep(call[c].op, call[c].pc)
                                     /\ call[c].op # "none" /\ dir[call[c].name] \in FilesType
                                     /\ call[c].op # "remove" => call[c].id \in Ids
BY DEF TypeOK, CallType, AtStep

LEMMA FilesTyped ==
    ASSUME TypeOK, NEW n \in Names
    PROVE  /\ dir[n] \in FilesType
           /\ dir[n].ident = None \/ (dir[n].ident \in 1..calls /\ dir[n].ident # None)
           /\ dir[n].keys = None \/ (dir[n].keys \in KeysType /\ dir[n].keys # None)
           /\ dir[n].wallet = None \/ (dir[n].wallet \in Seq(Ids) /\ dir[n].wallet # None)
<1>1. dir[n] \in FilesType /\ calls \in Nat
  BY DEF TypeOK
<1>2. None \notin 1..calls
  BY <1>1, NoneAssumption
<1>3. None \notin KeysType
  <2>1. KeysType \subseteq [id : {None} \cup Ids, role : {"admin", "watch"}, seal : Nat]
    BY <1>1 DEF KeysType
  <2> QED BY <2>1, NoneAssumption
<1> QED BY <1>1, <1>2, <1>3, NoneAssumption DEF FilesType

\* A new empty keys.toml.
LEMMA BlankFacts ==
    ASSUME TypeOK, NEW s \in 1..calls, NEW role \in {"admin", "watch"}
    PROVE  /\ Blank(s, role) \in KeysType /\ Blank(s, role) # None
           /\ Blank(s, role).id = None /\ Blank(s, role).role = role /\ Blank(s, role).seal = s
<1>1. Blank(s, role) \in KeysType
  BY DEF Blank, KeysType
<1>2. Blank(s, role) \in [id : {None} \cup Ids, role : {"admin", "watch"}, seal : Nat]
  BY DEF Blank, TypeOK
<1> QED BY <1>1, <1>2, NoneAssumption DEF Blank

-----------------------------------------------------------------------------
(* The order of a call's steps.                                            *)

Moved(c, q) == IF q = "idle" THEN Idle ELSE [call[c] EXCEPT !.pc = q]

\* What comes after each step.
Follows(op, p, q) ==
    /\ p = "identity" => q = "config"
    /\ p = "config"   => q = "fill"
    /\ p = "fill"     => q = "open"
    /\ p = "wipe"     => q = "open"
    /\ p = "open"     => q = IF op = "demo" THEN "check" ELSE "import"
    /\ p = "import"   => q \in {"promote", "mark", "idle"}
    /\ p = "promote"  => q \in {"mark", "idle"}
    /\ p = "erase"    => q = "unmark"

LEMMA StepOrder ==
    ASSUME NEW op \in Ops \ {"none"}, NEW i \in DOMAIN Steps(op),
           Steps(op)[i] \notin {"check", "mark", "unmark"}
    PROVE  /\ i = Len(Steps(op)) => Follows(op, Steps(op)[i], "idle")
           /\ i # Len(Steps(op)) =>
                  /\ Steps(op)[i + 1] \in Pcs \ {"idle"} /\ AtStep(op, Steps(op)[i + 1])
                  /\ Follows(op, Steps(op)[i], Steps(op)[i + 1])
<1> DEFINE s == Steps(op)
<1>0. i \in DOMAIN s /\ s[i] \notin {"check", "mark", "unmark"}
  OBVIOUS
<1>1. CASE op = "create"
  <2>1. s = create_admin
    BY <1>1 DEF Steps
  <2>2. DOMAIN s = 1..6 /\ Len(s) = 6
    BY <2>1 DEF create_admin
  <2> HIDE DEF s
  <2>3. i # 6 => i + 1 \in 1..6 /\ s[i + 1] \in Pcs \ {"idle"} /\ Follows(op, s[i], s[i + 1])
    BY <1>0, <1>1, <2>1, <2>2 DEF create_admin, Follows, Pcs
  <2>4. i = 6 => Follows(op, s[i], "idle")
    BY <1>0, <1>1, <2>1, <2>2 DEF create_admin, Follows
  <2> QED BY <1>0, <2>2, <2>3, <2>4 DEF AtStep, s
<1>2. CASE op = "watch"
  <2>1. s = init_watch_with
    BY <1>2 DEF Steps
  <2>2. DOMAIN s = 1..5 /\ Len(s) = 5
    BY <2>1 DEF init_watch_with
  <2> HIDE DEF s
  <2>3. i # 5 => i + 1 \in 1..5 /\ s[i + 1] \in Pcs \ {"idle"} /\ Follows(op, s[i], s[i + 1])
    BY <1>0, <1>2, <2>1, <2>2 DEF init_watch_with, Follows, Pcs
  <2>4. i = 5 => Follows(op, s[i], "idle")
    BY <1>0, <1>2, <2>1, <2>2 DEF init_watch_with, Follows
  <2> QED BY <1>0, <2>2, <2>3, <2>4 DEF AtStep, s
<1>3. CASE op = "reimport"
  <2>1. s = reimport_demo
    BY <1>3 DEF Steps
  <2>2. DOMAIN s = 1..6 /\ Len(s) = 6
    BY <2>1 DEF reimport_demo
  <2> HIDE DEF s
  <2>3. i # 6 => i + 1 \in 1..6 /\ s[i + 1] \in Pcs \ {"idle"} /\ Follows(op, s[i], s[i + 1])
    BY <1>0, <1>3, <2>1, <2>2 DEF reimport_demo, Follows, Pcs
  <2>4. i = 6 => Follows(op, s[i], "idle")
    BY <1>0, <1>3, <2>1, <2>2 DEF reimport_demo, Follows
  <2> QED BY <1>0, <2>2, <2>3, <2>4 DEF AtStep, s
<1>4. CASE op = "demo"
  <2>1. s = ensure
    BY <1>4 DEF Steps
  <2>2. DOMAIN s = 1..6 /\ Len(s) = 6
    BY <2>1 DEF ensure
  <2> HIDE DEF s
  <2>3. i # 6 => i + 1 \in 1..6 /\ s[i + 1] \in Pcs \ {"idle"} /\ Follows(op, s[i], s[i + 1])
    BY <1>0, <1>4, <2>1, <2>2 DEF ensure, Follows, Pcs
  <2>4. i = 6 => Follows(op, s[i], "idle")
    BY <1>0, <1>4, <2>1, <2>2 DEF ensure, Follows
  <2> QED BY <1>0, <2>2, <2>3, <2>4 DEF AtStep, s
<1>5. CASE op = "rebuild"
  <2>1. s = rebootstrap
    BY <1>5 DEF Steps
  <2>2. DOMAIN s = 1..3 /\ Len(s) = 3
    BY <2>1 DEF rebootstrap
  <2> HIDE DEF s
  <2>3. i # 3 => i + 1 \in 1..3 /\ s[i + 1] \in Pcs \ {"idle"} /\ Follows(op, s[i], s[i + 1])
    BY <1>0, <1>5, <2>1, <2>2 DEF rebootstrap, Follows, Pcs
  <2>4. i = 3 => Follows(op, s[i], "idle")
    BY <1>0, <1>5, <2>1, <2>2 DEF rebootstrap, Follows
  <2> QED BY <1>0, <2>2, <2>3, <2>4 DEF AtStep, s
<1>6. CASE op = "remove"
  <2>1. s = forget
    BY <1>6 DEF Steps
  <2>2. DOMAIN s = 1..2 /\ Len(s) = 2
    BY <2>1 DEF forget
  <2> HIDE DEF s
  <2>3. i # 2 => i + 1 \in 1..2 /\ s[i + 1] \in Pcs \ {"idle"} /\ Follows(op, s[i], s[i + 1])
    BY <1>0, <1>6, <2>1, <2>2 DEF forget, Follows, Pcs
  <2>4. i = 2 => Follows(op, s[i], "idle")
    BY <1>0, <1>6, <2>1, <2>2 DEF forget, Follows
  <2> QED BY <1>0, <2>2, <2>3, <2>4 DEF AtStep, s
<1> QED BY <1>1, <1>2, <1>3, <1>4, <1>5, <1>6 DEF Ops

LEMMA ProceedFacts ==
    ASSUME TypeOK, NEW c \in Calls, call[c].pc # "idle", call[c].pc \notin {"check", "mark", "unmark"},
           Proceed(c)
    PROVE  \E q \in Pcs : /\ call' = [call EXCEPT ![c] = Moved(c, q)]
                          /\ q = "idle" \/ AtStep(call[c].op, q)
                          /\ Follows(call[c].op, call[c].pc, q)
<1> DEFINE op == call[c].op
           p == call[c].pc
           steps == Steps(op)
<1>0. call \in [Calls -> CallType] /\ op \in Ops /\ p \in Pcs
  BY Typed DEF TypeOK
<1>1. PICK i \in DOMAIN steps : /\ steps[i] = p
                                /\ IF i = Len(steps) THEN End(c) ELSE Goto(c, steps[i + 1])
  BY DEF Proceed
<1>2. End(c) => call' = [call EXCEPT ![c] = Moved(c, "idle")]
  BY DEF End, Moved
<1>3. ASSUME NEW q \in Pcs \ {"idle"}, Goto(c, q)
      PROVE  call' = [call EXCEPT ![c] = Moved(c, q)]
  BY <1>0, <1>3 DEF Goto, Moved
<1>4. \/ End(c) /\ Follows(op, p, "idle")
      \/ \E q \in Pcs \ {"idle"} : Goto(c, q) /\ AtStep(op, q) /\ Follows(op, p, q)
  <2>1. op \in Ops \ {"none"} /\ p \notin {"check", "mark", "unmark"}
    BY <1>0, Typed
  <2> HIDE DEF op, p
  <2>2. CASE i = Len(steps)
    BY <1>1, <2>1, <2>2, StepOrder
  <2>3. CASE i # Len(steps)
    BY <1>1, <2>1, <2>3, StepOrder
  <2> QED BY <2>2, <2>3
<1>5. CASE End(c) /\ Follows(op, p, "idle")
  BY <1>2, <1>5 DEF Pcs
<1>6. CASE \E q \in Pcs \ {"idle"} : Goto(c, q) /\ AtStep(op, q) /\ Follows(op, p, q)
  BY <1>3, <1>6
<1> QED BY <1>4, <1>5, <1>6
-----------------------------------------------------------------------------
(* One step of one call: the files of its database become f, it goes on to q. *)

Distinct(w) == w # None => \A i, j \in DOMAIN w : w[i] = w[j] => i = j

\* The seals of the new files.
SealsKept(c, q, f) ==
    LET old == dir[call[c].name]
        s   == call[c].seal
    IN  /\ f.keys \in {None, old.keys} \/ f.keys.seal = s
        /\ q = "fill" /\ f.keys # None /\ f.keys.seal = s => f.keys.id = None
        /\ ~stray' => f.ident = old.ident \/ \A d \in Calls : call[d].seal # old.ident
        /\ ~stray' /\ q = "config" /\ call[c].op = "create" => f.ident = s
        /\ ~stray' /\ call[c].name \notin torn' /\ f.keys # None /\ f.keys.role = "admin" =>
               f.ident = f.keys.seal

\* What the call finds in them at its next step, and what is left of them if it dies.
WholeKept(c, q, f) ==
    /\ q \in {"identity", "config"} => f.keys = None
    /\ q = "fill" => f.keys # None /\ f.keys.id = None /\ f.keys.seal = call[c].seal
    /\ q \in {"wipe", "open", "check", "import"} => f.keys # None /\ f.keys.id = call[c].id
    /\ q = "open" => f.wallet = None
    /\ q = "import" => f.wallet \in {None, << >>}
    /\ f.keys = None \/ f.keys.id = None => f.wallet = None
    /\ f.keys # None /\ f.keys.id # None /\ f.wallet \notin {None, << >>} =>
           f.wallet = <<f.keys.id>>

LEMMA StepFrame ==
    ASSUME CatalogInv, NEW c \in Calls, call[c].pc # "idle", NEW q \in Pcs, NEW f \in FilesType,
           q = "idle" \/ AtStep(call[c].op, q), Distinct(f.wallet),
           call' = [call EXCEPT ![c] = Moved(c, q)],
           dir' = [dir EXCEPT ![call[c].name] = f],
           calls' = calls, overlaps' = overlaps, crossed' = crossed,
           stray' \in BOOLEAN, stray => stray', late' \subseteq Names,
           current' \in {None} \cup Names, provisioned' \in BOOLEAN,
           torn' = torn \/ torn' = torn \ {call[c].name},
           SealsKept(c, q, f),
           ~crossed /\ call[c].name \notin torn' => WholeKept(c, q, f),
           ~crossed /\ ~Begun(c) =>
               \A d \in Calls \ {c} : Begun(d) => call[d].name # call[c].name
    PROVE  CatalogInv'
<1> DEFINE n == call[c].name
           new == Moved(c, q)
<1>t. /\ TypeOK /\ Sealed /\ Exclusive /\ Whole /\ SeedDecryptable /\ WalletMatchesKeys
      /\ calls \in Nat /\ n \in Names /\ call[c] \in CallType
      /\ call \in [Calls -> CallType] /\ dir \in [Names -> FilesType]
  BY Typed DEF CatalogInv, FilesAgree, TypeOK
<1>1. /\ new \in CallType
      /\ \/ q = "idle" /\ new = Idle
         \/ /\ q # "idle" /\ new.pc = q /\ new.op = call[c].op /\ new.name = n
            /\ new.id = call[c].id /\ new.seal = call[c].seal
  BY <1>t, IdleFacts DEF Moved, CallType, Pcs
<1>2. /\ call' \in [Calls -> CallType] /\ call'[c] = new
      /\ \A d \in Calls \ {c} : call'[d] = call[d]
  BY <1>t, <1>1
<1>3. /\ dir' \in [Names -> FilesType] /\ dir'[n] = f
      /\ \A m \in Names \ {n} : dir'[m] = dir[m]
  BY <1>t
<1> HIDE DEF new
<1>4. TypeOK'
  <2>1. CallType' = CallType /\ FilesType' = FilesType
    BY DEF CallType, FilesType, KeysType
  <2>2. \A m \in Names : Distinct(dir'[m].wallet)
    BY <1>t, <1>3 DEF TypeOK, Distinct
  <2>3. ASSUME NEW d \in Calls, call'[d].pc # "idle"
        PROVE  /\ call'[d].name \in Names /\ call'[d].op # "none"
               /\ AtStep(call'[d].op, call'[d].pc)
               /\ call'[d].op # "remove" => call'[d].id \in Ids
    BY <1>t, <1>1, <1>2, <2>3, Typed, IdleFacts
  <2> QED BY <1>t, <1>2, <1>3, <2>1, <2>2, <2>3 DEF TypeOK, AtStep, Distinct
<1>5. Sealed'
  <2>1. ASSUME NEW a \in Calls, NEW d \in Calls, a # d, call'[a].pc # "idle"
        PROVE  call'[a].seal # call'[d].seal
    BY <1>t, <1>1, <1>2, <2>1, IdleFacts DEF Sealed
  <2>2. ASSUME NEW d \in Calls, call'[d].pc # "idle" PROVE call'[d].seal # 0
    BY <1>t, <1>1, <1>2, <2>2, IdleFacts DEF Sealed
  <2>3. ASSUME NEW d \in Calls, call'[d].pc = "fill", dir'[call'[d].name].keys # None,
               dir'[call'[d].name].keys.seal = call'[d].seal
        PROVE  dir'[call'[d].name].keys.id = None
    <3>1. CASE d = c
      BY <1>1, <1>2, <1>3, <2>3, <3>1, IdleFacts DEF SealsKept
    <3>2. CASE d # c
      <4>1. /\ call'[d] = call[d] /\ call[d].name \in Names /\ call[d].seal # call[c].seal
            /\ call[d].pc # "idle"
        BY <1>t, <1>2, <2>3, <3>2, Typed DEF Sealed
      <4>2. CASE call[d].name # n
        BY <1>t, <1>3, <2>3, <4>1, <4>2 DEF Sealed
      <4>3. CASE call[d].name = n
        <5>1. f.keys = dir[n].keys
          BY <1>3, <2>3, <4>1, <4>3 DEF SealsKept
        <5> QED BY <1>t, <1>3, <2>3, <4>1, <4>3, <5>1 DEF Sealed
      <4> QED BY <4>2, <4>3
    <3> QED BY <3>1, <3>2
  <2>4. ASSUME ~stray', NEW d \in Calls, call'[d].pc = "config", call'[d].op = "create"
        PROVE  dir'[call'[d].name].ident = call'[d].seal
    <3>1. CASE d = c
      BY <1>1, <1>2, <1>3, <2>4, <3>1, IdleFacts DEF SealsKept
    <3>2. CASE d # c
      <4>1. call'[d] = call[d] /\ call[d].name \in Names /\ dir[call[d].name].ident = call[d].seal
        BY <1>t, <1>2, <2>4, <3>2, Typed DEF Sealed
      <4> QED BY <1>3, <2>4, <4>1 DEF SealsKept
    <3> QED BY <3>1, <3>2
  <2> QED BY <2>1, <2>2, <2>3, <2>4 DEF Sealed
<1>6. SeedDecryptable'
  <2> SUFFICES ASSUME ~stray', NEW m \in Names \ torn',
                      dir'[m].keys # None, dir'[m].keys.role = "admin"
               PROVE  dir'[m].ident = dir'[m].keys.seal
    BY DEF SeedDecryptable, Exists
  <2>1. CASE m = n
    BY <1>3, <2>1 DEF SealsKept
  <2>2. CASE m # n
    BY <1>t, <1>3, <2>2 DEF SeedDecryptable, Exists
  <2> QED BY <2>1, <2>2
<1>7. WalletMatchesKeys'
  <2> SUFFICES ASSUME ~crossed, NEW m \in Names \ torn', dir'[m].keys # None,
                      dir'[m].keys.id # None, dir'[m].wallet \notin {None, << >>}
               PROVE  dir'[m].wallet = <<dir'[m].keys.id>>
    BY DEF WalletMatchesKeys, Exists
  <2>1. CASE m = n
    BY <1>3, <2>1 DEF WholeKept
  <2>2. CASE m # n
    BY <1>t, <1>3, <2>2 DEF WalletMatchesKeys, Exists
  <2> QED BY <2>1, <2>2
<1>8. \A d \in Calls : /\ call'[d].pc # "idle" => /\ call[d].pc # "idle" /\ call'[d].op = call[d].op
                                                  /\ call'[d].name = call[d].name
                       /\ Begun(d)' => Begun(d) \/ d = c
  BY <1>1, <1>2, IdleFacts DEF Begun
<1>9. Exclusive'
  <2>1. ASSUME ~crossed, NEW a \in Calls, NEW d \in Calls, a # d,
               call'[a].pc # "idle", call'[d].pc # "idle"
        PROVE  /\ a \in Gui /\ call'[a].op # "demo"
               /\ Begun(a)' /\ Begun(d)' => call'[a].name # call'[d].name
    <3>1. a \in Gui /\ call[a].op # "demo" /\ (Begun(a) /\ Begun(d) => call[a].name # call[d].name)
      BY <1>t, <1>8, <2>1 DEF Exclusive
    <3> QED BY <1>8, <2>1, <3>1
  <2>2. sequential' => /\ ~crossed'
                       /\ \A a, d \in Calls : call'[a].pc # "idle" /\ call'[d].pc # "idle" => a = d
    BY <1>t, <1>8 DEF Exclusive, sequential
  <2> QED BY <2>1, <2>2 DEF Exclusive
<1>10. Whole'
  <2> SUFFICES ASSUME ~crossed
               PROVE  /\ \A d \in Calls : call'[d].name \notin torn' => Finds(d)'
                      /\ \A m \in Names \ torn' : ~Readable(m)' => dir'[m].wallet = None
    BY DEF Whole
  <2>1. ASSUME NEW m \in Names \ torn', ~Readable(m)' PROVE dir'[m].wallet = None
    <3>1. dir'[m].keys = None \/ dir'[m].keys.id = None
      BY <2>1 DEF Readable, Exists
    <3>2. CASE m = n
      BY <1>3, <3>1, <3>2 DEF WholeKept
    <3>3. CASE m # n
      BY <1>t, <1>3, <3>1, <3>3 DEF Whole, Readable, Exists
    <3> QED BY <3>2, <3>3
  <2>2. ASSUME NEW d \in Calls, call'[d].name \notin torn' PROVE Finds(d)'
    <3>1. CASE call'[d].pc = "idle"
      BY <3>1 DEF Finds
    <3>2. CASE d = c /\ q # "idle"
      BY <1>1, <1>2, <1>3, <2>2, <3>2 DEF Finds, WholeKept
    <3>3. CASE d # c /\ call'[d].pc # "idle" /\ call[d].name # n
      <4>1. call'[d] = call[d] /\ call[d].name \in Names /\ call[d].name \notin torn
        BY <1>t, <1>2, <2>2, <3>3, Typed
      <4>2. Finds(d) /\ dir'[call[d].name] = dir[call[d].name]
        BY <1>t, <1>3, <3>3, <4>1 DEF Whole
      <4> QED BY <4>1, <4>2 DEF Finds
    <3>4. CASE d # c /\ call'[d].pc # "idle" /\ call[d].name = n
      <4>1. call'[d] = call[d] /\ ~Begun(d)
        BY <1>t, <1>2, <3>4 DEF Exclusive
      <4>2. call[d].pc = "erase"
        BY <3>4, <4>1 DEF Begun
      <4> QED BY <4>1, <4>2 DEF Finds
    <3> QED BY <1>1, <1>2, <3>1, <3>2, <3>3, <3>4, IdleFacts
  <2> QED BY <2>1, <2>2
<1> QED BY <1>4, <1>5, <1>6, <1>7, <1>9, <1>10 DEF CatalogInv, FilesAgree

\* What holds of the files a call is at work on.
LEMMA Before ==
    ASSUME CatalogInv, NEW c \in Calls, call[c].pc # "idle"
    PROVE  LET n == call[c].name
               k == dir[n].keys
               w == dir[n].wallet
           IN  /\ TypeOK /\ n \in Names /\ dir[n] \in FilesType /\ Distinct(w)
               /\ call[c].seal \in 1..calls /\ calls \in Nat
               /\ ~stray /\ n \notin torn /\ k # None /\ k.role = "admin" => dir[n].ident = k.seal
               /\ ~crossed /\ n \notin torn =>
                      /\ Finds(c)
                      /\ k = None \/ k.id = None => w = None
                      /\ k # None /\ k.id # None /\ w \notin {None, << >>} => w = <<k.id>>
<1>1. /\ TypeOK /\ Sealed /\ Whole /\ SeedDecryptable /\ WalletMatchesKeys
      /\ call[c].name \in Names /\ dir[call[c].name] \in FilesType /\ calls \in Nat
      /\ call[c].seal \in Nat /\ call[c].seal <= calls
  BY Typed DEF CatalogInv, FilesAgree
<1>2. Distinct(dir[call[c].name].wallet)
  BY <1>1 DEF TypeOK, Distinct
<1>3. call[c].seal \in 1..calls
  BY <1>1 DEF Sealed
<1> QED BY <1>1, <1>2, <1>3 DEF Whole, SeedDecryptable, WalletMatchesKeys, Readable, Exists

\* A step that leaves the files alone.
LEMMA SameFiles ==
    ASSUME CatalogInv, NEW c \in Calls, call[c].pc # "idle", Begun(c), NEW q \in Pcs,
           q = "idle" \/ AtStep(call[c].op, q),
           q \in {"idle", "mark"} \/
               (q = "import" /\ call[c].pc = "check" /\ dir[call[c].name].wallet \in {None, << >>}),
           call' = [call EXCEPT ![c] = Moved(c, q)],
           UNCHANGED <<dir, calls, hist>>,
           current' \in {None} \cup Names, provisioned' \in BOOLEAN
    PROVE  CatalogInv'
<1> DEFINE n == call[c].name
           f == dir[n]
<1>1. /\ dir' = [dir EXCEPT ![n] = f] /\ overlaps' = overlaps /\ crossed' = crossed
      /\ torn' = torn /\ stray' = stray /\ late' = late /\ calls' = calls
  BY Before DEF hist, TypeOK
<1>2. f \in FilesType /\ Distinct(f.wallet) /\ stray \in BOOLEAN /\ late \subseteq Names
  BY Before DEF TypeOK
<1>3. SealsKept(c, q, f)
  BY <1>1, Before DEF SealsKept
<1>4. ~crossed /\ n \notin torn' => WholeKept(c, q, f)
  BY <1>1, Before DEF WholeKept, Finds
<1> HIDE DEF f
<1> QED BY <1>1, <1>2, <1>3, <1>4, StepFrame

\* A step that changes files, its call going on to the next.
LEMMA FilesStep ==
    ASSUME CatalogInv, NEW c \in Calls, call[c].pc # "idle", Begun(c), NEW q \in Pcs,
           q = "idle" \/ AtStep(call[c].op, q), NEW f \in FilesType, Distinct(f.wallet),
           call' = [call EXCEPT ![c] = Moved(c, q)],
           dir' = [dir EXCEPT ![call[c].name] = f],
           UNCHANGED <<calls, overlaps, crossed, torn, stray>>,
           current' \in {None} \cup Names, provisioned' \in BOOLEAN, late' \subseteq Names,
           SealsKept(c, q, f), ~crossed /\ call[c].name \notin torn => WholeKept(c, q, f)
    PROVE  CatalogInv'
<1>1. stray \in BOOLEAN
  BY Before DEF TypeOK
<1> QED BY <1>1, StepFrame

LEMMA WriteIdentityStep == ASSUME CatalogInv, NEW c \in Calls, WriteIdentity(c) PROVE CatalogInv'
<1> DEFINE n == call[c].name
           s == call[c].seal
           f == [dir[n] EXCEPT !.ident = s]
<1>1. /\ call[c].pc = "identity" /\ Begun(c) /\ current' = current /\ provisioned' = provisioned
      /\ UNCHANGED <<calls, hist>> /\ TypeOK /\ current \in {None} \cup Names
      /\ provisioned \in BOOLEAN /\ late \subseteq Names
  BY Before DEF WriteIdentity, Begun, TypeOK
<1>2. CASE dir[n].ident = None
  <2>1. Proceed(c) /\ dir' = [dir EXCEPT ![n].ident = s]
    BY <1>2 DEF WriteIdentity
  <2>2. PICK q \in Pcs : /\ call' = [call EXCEPT ![c] = Moved(c, q)]
                         /\ AtStep(call[c].op, q) /\ q = "config"
    BY <1>1, <2>1, ProceedFacts DEF Follows
  <2>3. /\ f \in FilesType /\ f.ident = s /\ f.keys = dir[n].keys /\ f.wallet = dir[n].wallet
        /\ dir' = [dir EXCEPT ![n] = f]
    BY <1>1, <2>1, Before DEF FilesType, TypeOK
  <2> HIDE DEF f
  <2>4. SealsKept(c, q, f)
    <3>1. \A d \in Calls : call[d].seal # None
      BY <1>1, Typed, NoneAssumption
    <3>2. ~stray /\ n \notin torn /\ f.keys # None => f.keys.role # "admin"
      <4>1. dir[n].keys # None => dir[n].keys.seal # None
        BY <1>1, Before, FilesTyped, NoneAssumption DEF KeysType
      <4> QED BY <1>1, <1>2, <2>3, <4>1, Before
    <3> QED BY <1>1, <1>2, <2>2, <2>3, <3>1, <3>2 DEF SealsKept, hist
  <2>5. ~crossed /\ n \notin torn => WholeKept(c, q, f)
    BY <1>1, <2>2, <2>3, Before DEF WholeKept, Finds
  <2> QED BY <1>1, <2>2, <2>3, <2>4, <2>5, Before, FilesStep DEF hist
<1>3. CASE dir[n].ident # None
  <2>1. call' = [call EXCEPT ![c] = Moved(c, "idle")] /\ dir' = dir /\ "idle" \in Pcs
    BY <1>3 DEF WriteIdentity, End, Moved, Pcs
  <2> QED BY <1>1, <2>1, SameFiles
<1> QED BY <1>2, <1>3

LEMMA CreateConfigStep == ASSUME CatalogInv, NEW c \in Calls, CreateConfig(c) PROVE CatalogInv'
<1> DEFINE n == call[c].name
           s == call[c].seal
           k == Blank(s, Role(call[c].op))
           f == [dir[n] EXCEPT !.keys = k]
<1>1. /\ call[c].pc = "config" /\ Begun(c) /\ current' = current /\ provisioned' = provisioned
      /\ UNCHANGED <<calls, hist>> /\ TypeOK /\ current \in {None} \cup Names
      /\ provisioned \in BOOLEAN /\ late \subseteq Names
  BY Before DEF CreateConfig, Begun, TypeOK
<1>2. CASE dir[n].keys = None /\ Proceed(c) /\ dir' = [dir EXCEPT ![n].keys = k]
  <2>1. /\ k \in KeysType /\ k # None /\ k.id = None /\ k.seal = s
        /\ k.role = "admin" => call[c].op = "create"
    BY <1>1, Before, BlankFacts DEF Role
  <2> HIDE DEF k
  <2>2. PICK q \in Pcs : /\ call' = [call EXCEPT ![c] = Moved(c, q)]
                         /\ AtStep(call[c].op, q) /\ q = "fill"
    BY <1>1, <1>2, ProceedFacts DEF Follows
  <2>3. /\ f \in FilesType /\ f.ident = dir[n].ident /\ f.keys = k /\ f.wallet = dir[n].wallet
        /\ dir' = [dir EXCEPT ![n] = f]
    BY <1>1, <1>2, <2>1, Before DEF FilesType, TypeOK
  <2> HIDE DEF f
  <2>4. SealsKept(c, q, f)
    <3>1. ~stray /\ call[c].op = "create" => dir[n].ident = s
      BY <1>1 DEF CatalogInv, Sealed
    <3> QED BY <1>1, <2>1, <2>2, <2>3, <3>1 DEF SealsKept, hist
  <2>5. ~crossed /\ n \notin torn => WholeKept(c, q, f)
    BY <1>1, <1>2, <2>1, <2>2, <2>3, Before DEF WholeKept
  <2> QED BY <1>1, <2>2, <2>3, <2>4, <2>5, Before, FilesStep DEF hist
<1>3. CASE End(c) /\ dir' = dir
  <2>1. call' = [call EXCEPT ![c] = Moved(c, "idle")] /\ "idle" \in Pcs
    BY <1>3 DEF End, Moved, Pcs
  <2> QED BY <1>1, <1>3, <2>1, SameFiles
<1> QED BY <1>2, <1>3 DEF CreateConfig

LEMMA FillConfigStep == ASSUME CatalogInv, NEW c \in Calls, FillConfig(c) PROVE CatalogInv'
<1> DEFINE n == call[c].name
           s == call[c].seal
           mine == Exists(n) /\ dir[n].keys.seal = s
           k == [dir[n].keys EXCEPT !.id = call[c].id]
           f == IF mine THEN [dir[n] EXCEPT !.keys = k] ELSE dir[n]
<1>1. /\ call[c].pc = "fill" /\ Begun(c) /\ current' = current /\ provisioned' = provisioned
      /\ UNCHANGED <<calls, hist>> /\ TypeOK /\ current \in {None} \cup Names
      /\ provisioned \in BOOLEAN /\ late \subseteq Names /\ Proceed(c)
      /\ dir' = IF mine THEN [dir EXCEPT ![n].keys.id = call[c].id] ELSE dir
  BY Before DEF FillConfig, Begun, TypeOK
<1>2. PICK q \in Pcs : /\ call' = [call EXCEPT ![c] = Moved(c, q)]
                       /\ AtStep(call[c].op, q) /\ q = "open"
  BY <1>1, ProceedFacts DEF Follows
<1>3. call[c].id \in Ids
  <2>1. call[c].op # "remove"
    <3> SUFFICES ASSUME call[c].op = "remove" PROVE FALSE
      OBVIOUS
    <3>1. AtStep("remove", "fill")
      BY <1>1, Typed
    <3> QED BY <3>1 DEF AtStep, Steps, forget
  <2> QED BY <1>1, <2>1, Typed
<1>4. mine => /\ k \in KeysType /\ k # None /\ k.id = call[c].id /\ k.seal = s
              /\ k.role = dir[n].keys.role
  <2> SUFFICES ASSUME mine
               PROVE  /\ k \in KeysType /\ k # None /\ k.id = call[c].id /\ k.seal = s
                      /\ k.role = dir[n].keys.role
    OBVIOUS
  <2>1. dir[n].keys \in KeysType
    BY Before, FilesTyped, <1>1 DEF Exists
  <2>2. /\ k \in KeysType /\ k.id = call[c].id /\ k.seal = dir[n].keys.seal
        /\ k.role = dir[n].keys.role
    BY <1>3, <2>1 DEF KeysType
  <2>3. k \in [id : {None} \cup Ids, role : {"admin", "watch"}, seal : Nat]
    BY <1>3, <2>1, <1>1 DEF KeysType, TypeOK
  <2> QED BY <2>2, <2>3, NoneAssumption
<1> HIDE DEF k
<1>5. /\ f \in FilesType /\ f.ident = dir[n].ident /\ f.wallet = dir[n].wallet
      /\ mine => f.keys = k /\ dir[n].keys # None
      /\ ~mine => f.keys = dir[n].keys
  BY <1>1, <1>4, Before DEF FilesType, Exists
<1>6. dir' = [dir EXCEPT ![n] = f]
  BY <1>1, Before DEF TypeOK, k
<1> HIDE DEF f
<1>7. SealsKept(c, q, f)
  BY <1>1, <1>2, <1>4, <1>5, Before DEF SealsKept, hist, Exists
<1>8. ~crossed /\ n \notin torn => WholeKept(c, q, f)
  BY <1>1, <1>2, <1>3, <1>4, <1>5, Before, IdsAssumption DEF WholeKept, Finds, Exists
<1> QED BY <1>1, <1>2, <1>5, <1>6, <1>7, <1>8, Before, FilesStep DEF hist

\* wipe_sidecars, init_dbs and the import of an account change the wallet only.
LEMMA WalletStep ==
    ASSUME CatalogInv, NEW c \in Calls, call[c].pc \in {"wipe", "open", "import"},
           NEW w \in {None} \cup Seq(Ids), Distinct(w), Proceed(c),
           dir' = [dir EXCEPT ![call[c].name].wallet = w],
           UNCHANGED <<calls, overlaps, crossed, torn, stray>>,
           current' \in {None} \cup Names, provisioned' \in BOOLEAN, late' \subseteq Names,
           call[c].pc = "wipe" => w = None,
           call[c].pc = "open" => w = << >> \/ (w = dir[call[c].name].wallet /\ w # None),
           call[c].pc = "import" /\ dir[call[c].name].wallet \in {None, << >>} =>
               w = <<call[c].id>> \/ w = dir[call[c].name].wallet
    PROVE  CatalogInv'
<1> DEFINE n == call[c].name
           f == [dir[n] EXCEPT !.wallet = w]
<1>1. call[c].pc # "idle" /\ Begun(c) /\ TypeOK
  BY Before DEF Begun
<1>2. PICK q \in Pcs : /\ call' = [call EXCEPT ![c] = Moved(c, q)]
                       /\ q = "idle" \/ AtStep(call[c].op, q)
                       /\ Follows(call[c].op, call[c].pc, q)
  BY <1>1, ProceedFacts
<1>3. /\ f \in FilesType /\ f.ident = dir[n].ident /\ f.keys = dir[n].keys /\ f.wallet = w
      /\ dir' = [dir EXCEPT ![n] = f]
  BY <1>1, Before DEF FilesType, TypeOK
<1> HIDE DEF f
<1>4. q \notin {"fill", "config", "identity", "wipe"} /\ (q = "open" => call[c].pc = "wipe")
      /\ (q \in {"check", "import"} => call[c].pc = "open")
  BY <1>2 DEF Follows
<1>5. SealsKept(c, q, f)
  BY <1>1, <1>3, <1>4, Before DEF SealsKept
<1>6. call[c].id \in Ids
  <2>1. call[c].op # "remove"
    <3> SUFFICES ASSUME call[c].op = "remove" PROVE FALSE
      OBVIOUS
    <3>1. AtStep("remove", call[c].pc)
      BY <1>1, Typed
    <3> QED BY <3>1 DEF AtStep, Steps, forget
  <2> QED BY <1>1, <2>1, Typed
<1>7. ~crossed /\ n \notin torn => WholeKept(c, q, f)
  BY <1>1, <1>3, <1>4, <1>6, Before, IdsAssumption DEF WholeKept, Finds
<1> QED BY <1>1, <1>2, <1>3, <1>5, <1>7, FilesStep

LEMMA OpenWipeImportStep ==
    ASSUME CatalogInv, NEW c \in Calls, Wipe(c) \/ OpenWallet(c) \/ ImportAccount(c)
    PROVE  CatalogInv'
<1> DEFINE n == call[c].name
           w == dir[n].wallet
<1>0. /\ call[c].pc # "idle" /\ Begun(c) /\ UNCHANGED <<calls, overlaps, crossed, torn, stray>>
      /\ provisioned' = provisioned
  BY DEF Wipe, OpenWallet, ImportAccount, Begun, hist
<1>t. /\ TypeOK /\ current \in {None} \cup Names /\ provisioned \in BOOLEAN /\ late \subseteq Names
      /\ n \in Names /\ dir \in [Names -> FilesType] /\ Distinct(w)
      /\ w = None \/ (w \in Seq(Ids) /\ w # None)
  BY <1>0, Before, FilesTyped DEF TypeOK
<1>1. CASE Wipe(c)
  <2>1. /\ call[c].pc = "wipe" /\ Proceed(c) /\ dir' = [dir EXCEPT ![n].wallet = None]
        /\ current' = current /\ late' = late
    BY <1>1 DEF Wipe, hist
  <2>2. Distinct(None)
    BY DEF Distinct
  <2> QED BY <1>0, <1>t, <2>1, <2>2, WalletStep
<1>2. CASE OpenWallet(c)
  <2>1. /\ call[c].pc = "open" /\ Proceed(c) /\ late' = late
        /\ current' \in {current, n}
        /\ dir' = IF w = None THEN [dir EXCEPT ![n].wallet = << >>] ELSE dir
    BY <1>2 DEF OpenWallet, hist
  <2>2. Distinct(<< >>) /\ << >> \in Seq(Ids)
    BY DEF Distinct
  <2>3. CASE w = None
    BY <1>0, <1>t, <2>1, <2>2, <2>3, WalletStep
  <2>4. CASE w # None
    <3>1. dir' = [dir EXCEPT ![n].wallet = w]
      BY <1>t, <2>1, <2>4 DEF FilesType
    <3> HIDE DEF w
    <3> QED BY <1>0, <1>t, <2>1, <2>4, <3>1, WalletStep DEF w
  <2> QED BY <2>3, <2>4
<1>3. CASE ImportAccount(c)
  <2> DEFINE v == IF w = None /\ call[c].op = "demo" THEN << >> ELSE w
             id == call[c].id
  <2>0. call[c].pc = "import" /\ current' = current
    BY <1>3 DEF ImportAccount
  <2>1. CASE v # None /\ \E i \in DOMAIN v : v[i] = id
    <3>1. dir' = dir /\ late' = late /\ call' = [call EXCEPT ![c] = Moved(c, "idle")] /\ "idle" \in Pcs
      BY <1>3, <2>1 DEF ImportAccount, End, Moved, Pcs
    <3>2. dropped' = dropped
      BY <1>3 DEF ImportAccount
    <3> QED BY <1>0, <1>t, <2>0, <3>1, <3>2, SameFiles DEF hist
  <2>2. CASE ~(v # None /\ \E i \in DOMAIN v : v[i] = id)
    <3> DEFINE new == IF v = None THEN w ELSE Append(v, id)
    <3>1. /\ Proceed(c) /\ late' \in {late, late \cup {n}}
          /\ dir' = IF v = None THEN dir ELSE [dir EXCEPT ![n].wallet = Append(v, id)]
      BY <1>3, <2>2 DEF ImportAccount
    <3>2. id \in Ids
      <4>1. call[c].op # "remove"
        <5> SUFFICES ASSUME call[c].op = "remove" PROVE FALSE
          OBVIOUS
        <5>1. AtStep("remove", "import")
          BY <1>t, <2>0, Typed
        <5> QED BY <5>1 DEF AtStep, Steps, forget
      <4> QED BY <1>0, <1>t, <4>1, Typed
    <3>3. v = None \/ (v \in Seq(Ids) /\ Distinct(v))
      BY <1>t DEF Distinct
    <3>4. new \in {None} \cup Seq(Ids) /\ Distinct(new)
      <4>1. CASE v = None
        BY <1>t, <4>1
      <4>2. CASE v # None
        <5>1. v \in Seq(Ids) /\ Distinct(v) /\ \A i \in DOMAIN v : v[i] # id
          BY <2>2, <3>3, <4>2
        <5> HIDE DEF v, id
        <5>2. Append(v, id) \in Seq(Ids) /\ Distinct(Append(v, id))
          BY <3>2, <4>2, <5>1 DEF Distinct
        <5> QED BY <4>2, <5>2
      <4> QED BY <4>1, <4>2
    <3>5. w \in {None, << >>} => new = <<id>> \/ new = w
      <4>1. Append(<< >>, id) = <<id>>
        OBVIOUS
      <4>2. v = w \/ v = << >>
        OBVIOUS
      <4> HIDE DEF v, w, id
      <4> QED BY <4>1, <4>2
    <3>6. dir' = [dir EXCEPT ![n].wallet = new]
      <4>1. CASE v = None
        BY <1>t, <3>1, <4>1 DEF FilesType
      <4>2. CASE v # None
        BY <3>1, <4>2
      <4> QED BY <4>1, <4>2
    <3> HIDE DEF new
    <3>7. late' \subseteq Names
      BY <1>t, <3>1
    <3> QED BY <1>0, <1>t, <2>0, <3>1, <3>4, <3>5, <3>6, <3>7, WalletStep
  <2> QED BY <2>1, <2>2
<1> QED BY <1>1, <1>2, <1>3

LEMMA MarkersStep ==
    ASSUME CatalogInv, NEW c \in Calls,
           NetworkFails(c) \/ CheckAccount(c) \/ Promote(c) \/ Mark(c) \/ Unmark(c)
    PROVE  CatalogInv'
<1> DEFINE n == call[c].name
<1>0. call[c].pc # "idle" /\ Begun(c) /\ UNCHANGED <<dir, calls, hist>> /\ "idle" \in Pcs
  BY DEF NetworkFails, CheckAccount, Promote, Mark, Unmark, Begun, disk, Pcs
<1>t. /\ TypeOK /\ current \in {None} \cup Names /\ provisioned \in BOOLEAN /\ n \in Names
      /\ call \in [Calls -> CallType]
  BY <1>0, Before DEF TypeOK
<1>1. CASE NetworkFails(c) \/ Mark(c) \/ Unmark(c)
  <2>1. /\ call' = [call EXCEPT ![c] = Moved(c, "idle")]
        /\ current' \in {current, None} /\ provisioned' \in {provisioned, TRUE}
    BY <1>1 DEF NetworkFails, Mark, Unmark, End, Moved, disk
  <2> QED BY <1>0, <1>t, <2>1, SameFiles
<1>2. CASE CheckAccount(c)
  <2> DEFINE q == IF dir[n].wallet \in {None, << >>} THEN "import" ELSE "mark"
  <2>1. /\ call[c].pc = "check" /\ Goto(c, q) /\ current' = current /\ provisioned' = provisioned
    BY <1>2 DEF CheckAccount, disk
  <2>2. call' = [call EXCEPT ![c] = Moved(c, q)] /\ q \in Pcs
    BY <1>t, <2>1 DEF Goto, Moved, Pcs
  <2>3. AtStep(call[c].op, q)
    <3>1. AtStep(call[c].op, "check") /\ call[c].op \in Ops \ {"none"}
      BY <1>t, <2>1, Typed
    <3>2. call[c].op = "demo"
      BY <3>1 DEF AtStep, Steps, Ops, create_admin, init_watch_with, reimport_demo, rebootstrap,
                  forget
    <3>3. AtStep("demo", "import") /\ AtStep("demo", "mark")
      <4>1. Steps("demo") = ensure
        BY DEF Steps
      <4>2. 5 \in DOMAIN ensure /\ 6 \in DOMAIN ensure /\ ensure[5] = "import" /\ ensure[6] = "mark"
        BY DEF ensure
      <4> QED BY <4>1, <4>2 DEF AtStep
    <3> QED BY <3>2, <3>3
  <2>4. q = "mark" \/ (q = "import" /\ dir[n].wallet \in {None, << >>})
    OBVIOUS
  <2> HIDE DEF q
  <2> QED BY <1>0, <1>t, <2>1, <2>2, <2>3, <2>4, SameFiles
<1>3. CASE Promote(c)
  <2>1. /\ call[c].pc = "promote" /\ Proceed(c) /\ current' \in {current, n}
        /\ provisioned' = provisioned
    BY <1>3 DEF Promote
  <2>2. PICK q \in Pcs : /\ call' = [call EXCEPT ![c] = Moved(c, q)]
                         /\ q = "idle" \/ AtStep(call[c].op, q)
                         /\ q \in {"mark", "idle"}
    BY <1>t, <2>1, ProceedFacts DEF Follows
  <2> QED BY <1>0, <1>t, <2>1, <2>2, SameFiles
<1> QED BY <1>1, <1>2, <1>3

LEMMA EraseStep == ASSUME CatalogInv, NEW c \in Calls, Erase(c) PROVE CatalogInv'
<1> DEFINE n == call[c].name
<1>1. /\ call[c].pc = "erase" /\ LockFree(c, n) /\ dir' = [dir EXCEPT ![n] = NoFiles]
      /\ stray' = (stray \/ Strays(c, {"ident", "keys", "wallet"}, Calls))
      /\ torn' = torn \ {n} /\ late' = late \ {n} /\ Proceed(c)
      /\ UNCHANGED <<current, provisioned, calls, overlaps, crossed>>
  BY DEF Erase
<1>2. TypeOK /\ late \subseteq Names /\ current \in {None} \cup Names /\ provisioned \in BOOLEAN
  BY <1>1, Before DEF TypeOK
<1>3. PICK q \in Pcs : /\ call' = [call EXCEPT ![c] = Moved(c, q)]
                       /\ AtStep(call[c].op, q) /\ q = "unmark"
  BY <1>1, <1>2, ProceedFacts DEF Follows
<1>4. /\ NoFiles \in FilesType /\ NoFiles.ident = None /\ NoFiles.keys = None
      /\ NoFiles.wallet = None /\ Distinct(NoFiles.wallet)
  BY DEF NoFiles, FilesType, Distinct
<1>5. SealsKept(c, q, NoFiles)
  <2>1. ~stray' => \A d \in Calls : call[d].seal # dir[n].ident
    BY <1>1 DEF Strays
  <2> QED BY <1>3, <1>4, <2>1 DEF SealsKept
<1>6. WholeKept(c, q, NoFiles)
  BY <1>3, <1>4 DEF WholeKept
<1>7. ASSUME ~crossed, NEW d \in Calls \ {c}, Begun(d) PROVE call[d].name # n
  <2> SUFFICES ASSUME call[d].name = n PROVE FALSE
    OBVIOUS
  <2>1. c \in Gui /\ d \in Gui /\ call[d].op # "demo"
    BY <1>1, <1>7 DEF CatalogInv, Exclusive, Begun
  <2>2. Locks(d)
    BY <1>7, <2>1 DEF Locks, Begun
  <2> QED BY <1>1, <2>1, <2>2 DEF LockFree
<1>8. stray' \in BOOLEAN /\ (stray => stray')
  BY <1>1
<1> QED BY <1>1, <1>2, <1>3, <1>4, <1>5, <1>6, <1>7, <1>8, StepFrame

-----------------------------------------------------------------------------
(* Starting a call, kills, and the theorems.                               *)

\* A call begins: nothing on disk changes.
LEMMA StartFrame ==
    ASSUME CatalogInv, NEW c \in Calls, NEW op \in Ops \ {"none"}, NEW n \in Names,
           NEW id \in Ids \cup Nat, NEW pc \in Pcs \ {"idle"},
           Start(c, op, n, id, pc), AtStep(op, pc), op # "remove" => id \in Ids,
           op = "remove" => pc = "erase",
           op # "remove" => \/ c \in Cli \/ op = "demo" \/ LockFree(c, n),
           pc \in {"identity", "config", "wipe", "check", "erase", "mark"},
           pc = "config" => op # "create",
           ~crossed' /\ n \notin torn =>
               /\ pc \in {"identity", "config"} => dir[n].keys = None
               /\ pc \in {"wipe", "check"} => dir[n].keys # None /\ dir[n].keys.id = id
    PROVE  CatalogInv'
<1> DEFINE new == [op |-> op, name |-> n, id |-> id, seal |-> calls + 1, pc |-> pc]
<1>t. /\ TypeOK /\ Sealed /\ Exclusive /\ Whole /\ SeedDecryptable /\ WalletMatchesKeys
      /\ calls \in Nat /\ call \in [Calls -> CallType] /\ dir \in [Names -> FilesType]
      /\ overlaps \in Nat /\ crossed \in BOOLEAN
  BY DEF CatalogInv, FilesAgree, TypeOK
<1>1. /\ call[c].pc = "idle" /\ calls' = calls + 1 /\ call' = [call EXCEPT ![c] = new]
      /\ overlaps' = IF \A d \in Calls : call[d].pc = "idle" THEN overlaps ELSE overlaps + 1
      /\ crossed' = (crossed \/ \E d \in Calls :
                        call[d].pc # "idle" /\ ({c, d} \cap Cli # {} \/ "demo" \in {op, call[d].op}))
      /\ dir' = dir /\ current' = current /\ provisioned' = provisioned /\ torn' = torn
      /\ stray' = stray /\ late' = late
  BY DEF Start, disk
<1>2. /\ new.op = op /\ new.name = n /\ new.id = id /\ new.seal = calls + 1 /\ new.pc = pc
      /\ call'[c] = new /\ \A d \in Calls \ {c} : call'[d] = call[d]
  BY <1>t, <1>1
<1>3. /\ \A d \in Calls : call[d].seal \in Nat /\ call[d].seal <= calls
      /\ calls + 1 # 0
  BY <1>t, Typed
<1>4. TypeOK'
  <2>1. CallType \subseteq CallType' /\ FilesType \subseteq FilesType' /\ new \in CallType'
    <3>1. 0..calls \subseteq 0..(calls + 1) /\ 1..calls \subseteq 1..(calls + 1)
          /\ calls + 1 \in 0..(calls + 1)
      BY <1>t
    <3>2. KeysType \subseteq KeysType'
      BY <1>1, <3>1 DEF KeysType
    <3>3. CallType \subseteq CallType' /\ new \in CallType'
      BY <1>1, <3>1 DEF CallType
    <3>4. FilesType \subseteq FilesType'
      BY <1>1, <3>1, <3>2 DEF FilesType
    <3> QED BY <3>3, <3>4
  <2> HIDE DEF new
  <2>2. call' \in [Calls -> CallType'] /\ dir' \in [Names -> FilesType']
    BY <1>t, <1>1, <2>1
  <2>3. ASSUME NEW d \in Calls, call'[d].pc # "idle"
        PROVE  /\ call'[d].name \in Names /\ call'[d].op # "none"
               /\ AtStep(call'[d].op, call'[d].pc)
               /\ call'[d].op # "remove" => call'[d].id \in Ids
    BY <1>t, <1>2, <2>3, Typed
  <2>4. overlaps' \in Nat /\ crossed' \in BOOLEAN /\ calls' \in Nat
    BY <1>t, <1>1
  <2> QED BY <1>t, <1>1, <2>2, <2>3, <2>4 DEF TypeOK, AtStep
<1> HIDE DEF new
<1>5. Sealed'
  <2>1. ASSUME NEW a \in Calls, NEW d \in Calls, a # d, call'[a].pc # "idle"
        PROVE  call'[a].seal # call'[d].seal
    BY <1>t, <1>2, <1>3, <2>1 DEF Sealed
  <2>2. ASSUME NEW d \in Calls, call'[d].pc # "idle" PROVE call'[d].seal # 0
    BY <1>t, <1>2, <1>3, <2>2 DEF Sealed
  <2>3. ASSUME NEW d \in Calls, call'[d].pc = "fill", dir[call'[d].name].keys # None,
               dir[call'[d].name].keys.seal = call'[d].seal
        PROVE  dir[call'[d].name].keys.id = None
    BY <1>t, <1>2, <2>3 DEF Sealed
  <2>4. ASSUME ~stray, NEW d \in Calls, call'[d].pc = "config", call'[d].op = "create"
        PROVE  dir[call'[d].name].ident = call'[d].seal
    BY <1>t, <1>2, <2>4 DEF Sealed
  <2> QED BY <1>1, <2>1, <2>2, <2>3, <2>4 DEF Sealed
<1>6. SeedDecryptable' /\ WalletMatchesKeys'
  BY <1>t, <1>1 DEF SeedDecryptable, WalletMatchesKeys, Exists
<1>7. Exclusive'
  <2>1. ASSUME ~crossed', NEW d \in Calls, d # c, call[d].pc # "idle"
        PROVE  /\ c \in Gui /\ d \in Gui /\ op # "demo" /\ call[d].op # "demo"
               /\ Begun(c)' /\ Begun(d) => n # call[d].name
    <3>1. c \notin Cli /\ d \notin Cli /\ op # "demo" /\ call[d].op # "demo"
      BY <1>1, <2>1
    <3>2. c \in Gui /\ d \in Gui
      BY <3>1 DEF Calls
    <3>3. ASSUME Begun(c)', Begun(d), n = call[d].name PROVE FALSE
      <4>1. op # "remove"
        BY <1>2, <3>3 DEF Begun
      <4>2. Locks(d)
        BY <3>1, <3>2, <3>3 DEF Locks, Begun
      <4> QED BY <2>1, <3>1, <3>2, <3>3, <4>1, <4>2 DEF LockFree
    <3> QED BY <3>1, <3>2, <3>3
  <2>2. \A d \in Calls \ {c} : Begun(d)' = Begun(d)
    BY <1>2 DEF Begun
  <2>3. ASSUME ~crossed', NEW a \in Calls, NEW d \in Calls, a # d,
               call'[a].pc # "idle", call'[d].pc # "idle"
        PROVE  /\ a \in Gui /\ call'[a].op # "demo"
               /\ Begun(a)' /\ Begun(d)' => call'[a].name # call'[d].name
    <3>1. ~crossed
      BY <1>1, <2>3
    <3>2. CASE a # c /\ d # c
      BY <1>t, <1>2, <2>2, <2>3, <3>1, <3>2 DEF Exclusive
    <3>3. CASE a = c
      BY <1>2, <2>1, <2>2, <2>3, <3>3
    <3>4. CASE d = c
      BY <1>2, <2>1, <2>2, <2>3, <3>4
    <3> QED BY <3>2, <3>3, <3>4
  <2>4. sequential' => /\ ~crossed'
                       /\ \A a, d \in Calls : call'[a].pc # "idle" /\ call'[d].pc # "idle" => a = d
    <3> SUFFICES ASSUME overlaps' = 0
                 PROVE  /\ ~crossed'
                        /\ \A a, d \in Calls : call'[a].pc # "idle" /\ call'[d].pc # "idle" => a = d
      BY DEF sequential
    <3>1. (\A d \in Calls : call[d].pc = "idle") /\ overlaps = 0
      BY <1>t, <1>1
    <3> QED BY <1>t, <1>1, <1>2, <3>1 DEF Exclusive, sequential
  <2> QED BY <2>3, <2>4 DEF Exclusive
<1>8. Whole'
  <2> SUFFICES ASSUME ~crossed'
               PROVE  /\ \A d \in Calls : call'[d].name \notin torn => Finds(d)'
                      /\ \A m \in Names \ torn : ~Readable(m) => dir[m].wallet = None
    BY <1>1 DEF Whole, Readable, Exists
  <2>1. ~crossed
    BY <1>1
  <2>2. ASSUME NEW d \in Calls, call'[d].name \notin torn PROVE Finds(d)'
    <3>1. CASE d = c
      BY <1>1, <1>2, <2>2, <3>1 DEF Finds
    <3>2. CASE d # c
      BY <1>t, <1>1, <1>2, <2>1, <2>2, <3>2 DEF Finds, Whole
    <3> QED BY <3>1, <3>2
  <2> QED BY <1>t, <2>1, <2>2 DEF Whole
<1> QED BY <1>4, <1>5, <1>6, <1>7, <1>8 DEF CatalogInv, FilesAgree

LEMMA FirstSteps ==
    /\ AtStep("create", "identity") /\ AtStep("watch", "config") /\ AtStep("reimport", "config")
    /\ AtStep("demo", "config") /\ AtStep("demo", "check") /\ AtStep("demo", "mark")
    /\ AtStep("rebuild", "wipe") /\ AtStep("remove", "erase")
<1>1. 1 \in DOMAIN create_admin /\ create_admin[1] = "identity" /\ Steps("create") = create_admin
  BY DEF create_admin, Steps
<1>2. /\ 1 \in DOMAIN init_watch_with /\ init_watch_with[1] = "config"
      /\ Steps("watch") = init_watch_with
  BY DEF init_watch_with, Steps
<1>3. /\ 1 \in DOMAIN reimport_demo /\ reimport_demo[1] = "config"
      /\ Steps("reimport") = reimport_demo
  BY DEF reimport_demo, Steps
<1>4. /\ 1 \in DOMAIN ensure /\ ensure[1] = "config" /\ 4 \in DOMAIN ensure /\ ensure[4] = "check"
      /\ 6 \in DOMAIN ensure /\ ensure[6] = "mark" /\ Steps("demo") = ensure
  BY DEF ensure, Steps
<1>5. 1 \in DOMAIN rebootstrap /\ rebootstrap[1] = "wipe" /\ Steps("rebuild") = rebootstrap
  BY DEF rebootstrap, Steps
<1>6. 1 \in DOMAIN forget /\ forget[1] = "erase" /\ Steps("remove") = forget
  BY DEF forget, Steps
<1> QED BY <1>1, <1>2, <1>3, <1>4, <1>5, <1>6 DEF AtStep

LEMMA StartStep ==
    ASSUME CatalogInv, NEW c \in Calls, NEW n \in Names, NEW id \in Ids,
           \/ StartInit(c, n, id) \/ StartRestore(c, n, id) \/ StartCreate(c, n, id)
           \/ StartGuiRestore(c, n, id) \/ StartWatch(c, n, id) \/ StartGuiWatch(c, n, id)
    PROVE  CatalogInv'
<1> DEFINE op == IF n = DemoName /\ id = DemoId THEN "reimport" ELSE "watch"
<1>1. /\ dir[n].keys = None /\ (c \in Cli \/ LockFree(c, n))
      /\ \/ Start(c, "create", n, id, "identity") \/ Start(c, "watch", n, id, "config")
         \/ Start(c, op, n, id, "config")
  BY DEF StartInit, StartRestore, StartCreate, StartGuiRestore, StartWatch, StartGuiWatch, Exists
<1>2. /\ op \in {"reimport", "watch"} /\ AtStep(op, "config") /\ op \in Ops \ {"none"}
      /\ "create" \in Ops \ {"none"} /\ "watch" \in Ops \ {"none"}
      /\ "identity" \in Pcs \ {"idle"} /\ "config" \in Pcs \ {"idle"}
  BY FirstSteps DEF Ops, Pcs
<1> HIDE DEF op
<1>3. CASE Start(c, "create", n, id, "identity")
  BY <1>1, <1>2, <1>3, FirstSteps, StartFrame
<1>4. CASE Start(c, "watch", n, id, "config")
  BY <1>1, <1>2, <1>4, FirstSteps, StartFrame
<1>5. CASE Start(c, op, n, id, "config")
  BY <1>1, <1>2, <1>5, StartFrame
<1> QED BY <1>1, <1>3, <1>4, <1>5

LEMMA StartOnFound ==
    ASSUME CatalogInv, NEW c \in Calls, NEW n \in Names, StartRemove(c, n) \/ StartRebuild(c, n)
    PROVE  CatalogInv'
<1>1. /\ TypeOK /\ calls \in Nat /\ dir[n].keys # None /\ dir[n].keys.id # None
  BY DEF CatalogInv, FilesAgree, TypeOK, StartRemove, StartRebuild, Readable, Exists
<1>2. dir[n].keys.seal \in Nat /\ dir[n].keys.id \in Ids
  BY <1>1, FilesTyped DEF KeysType
<1>3. /\ "remove" \in Ops \ {"none"} /\ "rebuild" \in Ops \ {"none"}
      /\ "erase" \in Pcs \ {"idle"} /\ "wipe" \in Pcs \ {"idle"}
  BY DEF Ops, Pcs
<1>4. CASE StartRemove(c, n)
  <2>1. Start(c, "remove", n, dir[n].keys.seal, "erase")
    BY <1>4 DEF StartRemove
  <2> QED BY <1>2, <1>3, <2>1, FirstSteps, StartFrame
<1>5. CASE StartRebuild(c, n)
  <2>1. c \in Cli /\ Start(c, "rebuild", n, dir[n].keys.id, "wipe")
    BY <1>5 DEF StartRebuild
  <2> QED BY <1>1, <1>2, <1>3, <2>1, FirstSteps, StartFrame
<1> QED BY <1>4, <1>5

LEMMA StartEnsureStep == ASSUME CatalogInv, NEW c \in Calls, StartEnsure(c) PROVE CatalogInv'
<1>1. /\ DemoName \in Names /\ DemoId \in Ids /\ "demo" \in Ops \ {"none"}
      /\ {"config", "check", "mark"} \subseteq Pcs \ {"idle"}
  BY NamesAssumption, IdsAssumption DEF Ops, Pcs
<1>2. CASE ~Exists(DemoName)
  <2>1. Start(c, "demo", DemoName, DemoId, "config") /\ dir[DemoName].keys = None
    BY <1>2 DEF StartEnsure, Exists
  <2> QED BY <1>1, <2>1, FirstSteps, StartFrame
<1>3. CASE Exists(DemoName) /\ is_our_demo
  <2>1. /\ Start(c, "demo", DemoName, DemoId, "check")
        /\ dir[DemoName].keys # None /\ dir[DemoName].keys.id = DemoId
    BY <1>3 DEF StartEnsure, Exists, is_our_demo
  <2> QED BY <1>1, <2>1, FirstSteps, StartFrame
<1>4. CASE Exists(DemoName) /\ ~is_our_demo
  <2>1. Start(c, "demo", DemoName, DemoId, "mark")
    BY <1>4 DEF StartEnsure
  <2> QED BY <1>1, <2>1, FirstSteps, StartFrame
<1> QED BY <1>2, <1>3, <1>4

\* Only the markers and the history change.
LEMMA SameStep ==
    ASSUME CatalogInv, UNCHANGED <<dir, call, calls, overlaps, crossed, torn, stray, late, provisioned>>,
           current' \in {None} \cup Names
    PROVE  CatalogInv'
<1>1. TypeOK'
  BY DEF CatalogInv, FilesAgree, TypeOK, CallType, FilesType, KeysType
<1>2. SeedDecryptable' /\ WalletMatchesKeys'
  BY DEF CatalogInv, FilesAgree, SeedDecryptable, WalletMatchesKeys, Exists
<1>3. Sealed'
  BY DEF CatalogInv, Sealed
<1>4. Exclusive'
  BY DEF CatalogInv, Exclusive, Begun, sequential
<1>5. Whole'
  BY DEF CatalogInv, Whole, Finds, Readable, Exists
<1> QED BY <1>1, <1>2, <1>3, <1>4, <1>5 DEF CatalogInv, FilesAgree

\* What a kill leaves of the files: the same, or a part of those of the name it was removing.
LEMMA CrashFrame ==
    ASSUME CatalogInv, NEW P \in {Cli, Gui}, NEW f \in [Names -> FilesType],
           call' = [c \in Calls |-> IF c \in P THEN Idle ELSE call[c]], dir' = f,
           UNCHANGED <<current, provisioned, calls, overlaps, crossed, late>>,
           stray' \in BOOLEAN, stray => stray', torn' \subseteq Names, torn \subseteq torn',
           \A m \in Names : /\ f[m].keys \in {None, dir[m].keys}
                            /\ f[m].wallet \in {None, dir[m].wallet}
                            /\ m \notin torn' => f[m] = dir[m]
                            /\ ~stray' => \/ f[m].ident = dir[m].ident
                                          \/ \A d \in Calls \ P : call[d].seal # dir[m].ident
    PROVE  CatalogInv'
<1>t. /\ TypeOK /\ Sealed /\ Exclusive /\ Whole /\ SeedDecryptable /\ WalletMatchesKeys
      /\ calls \in Nat /\ call \in [Calls -> CallType] /\ dir \in [Names -> FilesType]
  BY DEF CatalogInv, FilesAgree, TypeOK
<1>1. \A d \in Calls : \/ d \in P /\ call'[d] = Idle /\ call'[d].pc = "idle"
                       \/ d \notin P /\ call'[d] = call[d]
  BY IdleFacts
<1>2. TypeOK'
  <2>1. CallType' = CallType /\ FilesType' = FilesType
    BY DEF CallType, FilesType, KeysType
  <2>2. call' \in [Calls -> CallType]
    BY <1>t, IdleFacts
  <2>3. \A m \in Names : Distinct(f[m].wallet)
    BY <1>t DEF TypeOK, Distinct
  <2>4. ASSUME NEW d \in Calls, call'[d].pc # "idle"
        PROVE  /\ call'[d].name \in Names /\ call'[d].op # "none"
               /\ AtStep(call'[d].op, call'[d].pc)
               /\ call'[d].op # "remove" => call'[d].id \in Ids
    BY <1>t, <1>1, <2>4, Typed
  <2> QED BY <1>t, <2>1, <2>2, <2>3, <2>4 DEF TypeOK, AtStep, Distinct
<1>3. Sealed'
  <2>1. ASSUME NEW a \in Calls, NEW d \in Calls, a # d, call'[a].pc # "idle"
        PROVE  call'[a].seal # call'[d].seal
    BY <1>t, <1>1, <2>1, IdleFacts DEF Sealed
  <2>2. ASSUME NEW d \in Calls, call'[d].pc # "idle" PROVE call'[d].seal # 0
    BY <1>t, <1>1, <2>2 DEF Sealed
  <2>3. ASSUME NEW d \in Calls, call'[d].pc = "fill", f[call'[d].name].keys # None,
               f[call'[d].name].keys.seal = call'[d].seal
        PROVE  f[call'[d].name].keys.id = None
    <3>1. call'[d] = call[d] /\ call[d].name \in Names
      BY <1>t, <1>1, <2>3, Typed
    <3> QED BY <1>t, <2>3, <3>1 DEF Sealed
  <2>4. ASSUME ~stray', NEW d \in Calls, call'[d].pc = "config", call'[d].op = "create"
        PROVE  f[call'[d].name].ident = call'[d].seal
    <3>1. d \in Calls \ P /\ call'[d] = call[d] /\ call[d].name \in Names
      BY <1>t, <1>1, <2>4, Typed
    <3>2. dir[call[d].name].ident = call[d].seal
      BY <1>t, <2>4, <3>1 DEF Sealed
    <3> QED BY <2>4, <3>1, <3>2
  <2> QED BY <2>1, <2>2, <2>3, <2>4 DEF Sealed
<1>4. SeedDecryptable' /\ WalletMatchesKeys'
  <2>1. \A m \in Names \ torn' : m \in Names \ torn /\ f[m] = dir[m]
    OBVIOUS
  <2> QED BY <1>t, <2>1 DEF SeedDecryptable, WalletMatchesKeys, Exists
<1>5. Exclusive'
  <2>1. \A d \in Calls : call'[d].pc # "idle" => call'[d] = call[d] /\ (Begun(d)' => Begun(d))
    BY <1>1 DEF Begun
  <2> QED BY <1>t, <2>1 DEF Exclusive, sequential
<1>6. Whole'
  <2>1. ASSUME ~crossed, NEW d \in Calls, call'[d].name \notin torn' PROVE Finds(d)'
    <3>1. CASE call'[d].pc = "idle"
      BY <3>1 DEF Finds
    <3>2. CASE call'[d].pc # "idle"
      <4>1. call'[d] = call[d] /\ call[d].name \in Names /\ f[call[d].name] = dir[call[d].name]
        BY <1>t, <1>1, <2>1, <3>2, Typed
      <4> QED BY <1>t, <2>1, <4>1 DEF Whole, Finds
    <3> QED BY <3>1, <3>2
  <2>2. ASSUME ~crossed, NEW m \in Names \ torn', ~Readable(m)' PROVE f[m].wallet = None
    BY <1>t, <2>2 DEF Whole, Readable, Exists
  <2> QED BY <2>1, <2>2 DEF Whole
<1> QED BY <1>2, <1>3, <1>4, <1>5, <1>6 DEF CatalogInv, FilesAgree

LEMMA CrashStep == ASSUME CatalogInv, NEW P \in {Cli, Gui}, Crash(P) PROVE CatalogInv'
<1>t. /\ TypeOK /\ dir \in [Names -> FilesType] /\ torn \subseteq Names /\ stray \in BOOLEAN
      /\ P \subseteq Calls
  BY DEF CatalogInv, FilesAgree, TypeOK, Calls
<1>1. /\ call' = [c \in Calls |-> IF c \in P THEN Idle ELSE call[c]]
      /\ UNCHANGED <<current, provisioned, calls, overlaps, crossed, late>>
  BY DEF Crash
<1>2. CASE UNCHANGED <<dir, torn, stray>>
  BY <1>t, <1>1, <1>2, CrashFrame
<1>3. CASE ~UNCHANGED <<dir, torn, stray>>
  <2>1. PICK c \in P, gone \in SUBSET {"ident", "keys", "wallet"} :
            LET n == call[c].name
                Left(x, file) == IF x \in gone THEN None ELSE file
            IN  /\ call[c].pc = "erase"
                /\ dir' = [dir EXCEPT ![n] = [ident  |-> Left("ident", @.ident),
                                             keys   |-> Left("keys", @.keys),
                                             wallet |-> Left("wallet", @.wallet)]]
                /\ torn' = torn \cup {n}
                /\ stray' = (stray \/ Strays(c, gone, Calls \ P))
    BY <1>3 DEF Crash
  <2> DEFINE n == call[c].name
             old == dir[n]
             left == [ident  |-> IF "ident" \in gone THEN None ELSE old.ident,
                      keys   |-> IF "keys" \in gone THEN None ELSE old.keys,
                      wallet |-> IF "wallet" \in gone THEN None ELSE old.wallet]
             f == [dir EXCEPT ![n] = left]
  <2>2. /\ n \in Names /\ old \in FilesType
    BY <1>t, <2>1, Typed
  <2>3. /\ dir' = f /\ torn' = torn \cup {n} /\ stray' = (stray \/ Strays(c, gone, Calls \ P))
    BY <2>1
  <2>4. /\ left \in FilesType /\ left.keys \in {None, old.keys} /\ left.wallet \in {None, old.wallet}
        /\ left.ident = old.ident \/ "ident" \in gone
    BY <2>2 DEF FilesType
  <2> HIDE DEF left
  <2>5. f \in [Names -> FilesType] /\ f[n] = left /\ \A m \in Names \ {n} : f[m] = dir[m]
    BY <1>t, <2>2, <2>4
  <2> HIDE DEF f
  <2>6. ~stray' => left.ident = old.ident \/ \A d \in Calls \ P : call[d].seal # old.ident
    BY <2>3, <2>4 DEF Strays
  <2>7. \A m \in Names : /\ f[m].keys \in {None, dir[m].keys}
                         /\ f[m].wallet \in {None, dir[m].wallet}
                         /\ m \notin torn' => f[m] = dir[m]
                         /\ ~stray' => \/ f[m].ident = dir[m].ident
                                       \/ \A d \in Calls \ P : call[d].seal # dir[m].ident
    BY <2>3, <2>4, <2>5, <2>6
  <2>8. stray' \in BOOLEAN /\ (stray => stray') /\ torn' \subseteq Names /\ torn \subseteq torn'
    BY <1>t, <2>2, <2>3
  <2> QED BY <1>1, <2>3, <2>5, <2>7, <2>8, CrashFrame
<1> QED BY <1>2, <1>3

-----------------------------------------------------------------------------
(* The invariant and the theorems.                                         *)

LEMMA CatalogInvInit == Init => CatalogInv
<1> SUFFICES ASSUME Init PROVE CatalogInv
  OBVIOUS
<1>1. /\ calls = 0 /\ overlaps = 0 /\ crossed = FALSE /\ torn = {} /\ stray = FALSE /\ late = {}
      /\ current = None /\ provisioned = FALSE /\ \A n \in Names : dir[n] = NoFiles
      /\ \A c \in Calls : call[c] = Idle
  BY DEF Init
<1>2. NoFiles.keys = None /\ NoFiles.wallet = None /\ NoFiles \in FilesType
  BY DEF NoFiles, FilesType
<1>3. dir \in [Names -> FilesType] /\ call \in [Calls -> CallType]
  BY <1>1, <1>2, IdleFacts DEF Init
<1>4. TypeOK
  BY <1>1, <1>2, <1>3, IdleFacts DEF TypeOK
<1>5. SeedDecryptable /\ WalletMatchesKeys
  BY <1>1, <1>2 DEF SeedDecryptable, WalletMatchesKeys, Exists
<1>6. Sealed /\ Exclusive
  BY <1>1, IdleFacts DEF Sealed, Exclusive
<1>7. Whole
  BY <1>1, <1>2, IdleFacts DEF Whole, Finds
<1> QED BY <1>4, <1>5, <1>6, <1>7 DEF CatalogInv, FilesAgree

LEMMA CatalogInvStep == CatalogInv /\ [Next]_vars => CatalogInv'
<1> SUFFICES ASSUME CatalogInv, [Next]_vars PROVE CatalogInv'
  OBVIOUS
<1>0. current \in {None} \cup Names
  BY DEF CatalogInv, FilesAgree, TypeOK
<1>1. ASSUME NEW c \in Calls, NEW n \in Names, NEW id \in Ids,
             \/ StartInit(c, n, id) \/ StartRestore(c, n, id) \/ StartCreate(c, n, id)
             \/ StartGuiRestore(c, n, id) \/ StartWatch(c, n, id) \/ StartGuiWatch(c, n, id)
      PROVE  CatalogInv'
  BY <1>1, StartStep
<1>2. ASSUME NEW c \in Calls, NEW n \in Names, StartRemove(c, n) \/ StartRebuild(c, n)
      PROVE  CatalogInv'
  BY <1>2, StartOnFound
<1>3. ASSUME NEW c \in Calls, NEW n \in Names, Use(c, n) PROVE CatalogInv'
  BY <1>3, SameStep DEF Use, hist
<1>4. ASSUME NEW c \in Calls, StartEnsure(c) PROVE CatalogInv'
  BY <1>4, StartEnsureStep
<1>5. ASSUME NEW c \in Calls, Step(c) PROVE CatalogInv'
  BY <1>5, WriteIdentityStep, CreateConfigStep, FillConfigStep, OpenWipeImportStep, MarkersStep,
     EraseStep DEF Step
<1>6. CASE Crash(Cli) \/ Crash(Gui)
  BY <1>6, CrashStep
<1>7. CASE UNCHANGED vars
  BY <1>0, <1>7, SameStep DEF vars, disk, hist
<1> QED BY <1>1, <1>2, <1>3, <1>4, <1>5, <1>6, <1>7 DEF Next

\* Whatever calls race, fail or are killed, a seed on disk can be decrypted by the identity
\* beside it and a wallet holds the one account its keys.toml names (within the limits the
\* two properties state): the create_new of write_identity and write_config and the GUI's
\* lock per name are enough, for any number of calls and processes' calls.
THEOREM FilesAlwaysAgree == Spec => []FilesAgree
<1>1. CatalogInv => FilesAgree
  BY DEF CatalogInv
<1> QED BY <1>1, CatalogInvInit, CatalogInvStep, PTL DEF Spec

LEMMA NotClobbered ==
    ASSUME CatalogInv, [Next]_vars, NEW n \in Names PROVE KeptOrRemoved(n)
<1>t. /\ TypeOK /\ Sealed /\ dir \in [Names -> FilesType]
      /\ \A c \in Calls : call[c].pc # "idle" => call[c].name \in Names
  BY DEF CatalogInv, FilesAgree, TypeOK
<1>1. dir'[n].keys = dir[n].keys => KeptOrRemoved(n)
  BY DEF KeptOrRemoved
<1>2. CASE UNCHANGED dir
  BY <1>1, <1>2
<1>3. ASSUME NEW c \in Calls, WriteIdentity(c) \/ Wipe(c) \/ OpenWallet(c) \/ ImportAccount(c)
      PROVE  KeptOrRemoved(n)
  <2> DEFINE m == call[c].name
  <2>1. \/ dir' = dir
        \/ \E x : dir' = [dir EXCEPT ![m].ident = x]
        \/ \E x : dir' = [dir EXCEPT ![m].wallet = x]
    BY <1>3 DEF WriteIdentity, Wipe, OpenWallet, ImportAccount
  <2>2. dir'[n].keys = dir[n].keys
    <3>1. ASSUME NEW x, dir' = [dir EXCEPT ![m].ident = x] PROVE dir'[n].keys = dir[n].keys
      BY <1>t, <3>1 DEF FilesType
    <3>2. ASSUME NEW x, dir' = [dir EXCEPT ![m].wallet = x] PROVE dir'[n].keys = dir[n].keys
      BY <1>t, <3>2 DEF FilesType
    <3> QED BY <2>1, <3>1, <3>2
  <2> QED BY <1>1, <2>2
<1>4. ASSUME NEW c \in Calls, CreateConfig(c) PROVE KeptOrRemoved(n)
  <2> DEFINE m == call[c].name
  <2>1. \/ dir' = dir
        \/ dir[m].keys = None /\ \E x : dir' = [dir EXCEPT ![m].keys = x]
    BY <1>4 DEF CreateConfig
  <2>2. ASSUME NEW x, dir[m].keys = None, dir' = [dir EXCEPT ![m].keys = x]
        PROVE  dir[n].keys = None \/ dir'[n].keys = dir[n].keys
    BY <1>t, <2>2 DEF FilesType
  <2> QED BY <1>1, <2>1, <2>2 DEF KeptOrRemoved
<1>5. ASSUME NEW c \in Calls, FillConfig(c) PROVE KeptOrRemoved(n)
  <2> DEFINE m == call[c].name
             k == dir[m].keys
  <2>1. /\ call[c].pc = "fill" /\ m \in Names
        /\ \/ dir' = dir
           \/ k # None /\ k.seal = call[c].seal /\ dir' = [dir EXCEPT ![m].keys.id = call[c].id]
    BY <1>t, <1>5 DEF FillConfig, Exists
  <2>2. CASE dir' = dir
    BY <1>1, <2>2
  <2>3. CASE k # None /\ k.seal = call[c].seal /\ dir' = [dir EXCEPT ![m].keys.id = call[c].id]
    <3>1. k.id = None
      BY <1>t, <2>1, <2>3 DEF Sealed
    <3>2. k \in KeysType
      BY <1>t, <2>1, <2>3, FilesTyped
    <3>3. dir'[m].keys = [k EXCEPT !.id = call[c].id] /\ (n # m => dir'[n] = dir[n])
      BY <1>t, <2>1, <2>3 DEF FilesType
    <3>4. dir'[m].keys.id = call[c].id
      BY <3>2, <3>3 DEF KeysType
    <3> HIDE DEF k
    <3>5. dir'[m].keys = [k EXCEPT !.id = dir'[m].keys.id]
      BY <3>3, <3>4
    <3> QED BY <1>1, <3>1, <3>3, <3>5 DEF KeptOrRemoved, k
  <2> QED BY <2>1, <2>2, <2>3
<1>6. ASSUME NEW c \in Calls, Erase(c) PROVE KeptOrRemoved(n)
  <2>1. dir' = [dir EXCEPT ![call[c].name] = NoFiles] /\ NoFiles.keys = None
    BY <1>6 DEF Erase, NoFiles
  <2> QED BY <1>t, <1>1, <2>1 DEF KeptOrRemoved
<1>7. ASSUME NEW P \in {Cli, Gui}, Crash(P) PROVE KeptOrRemoved(n)
  <2>1. CASE dir' = dir
    BY <1>1, <2>1
  <2>2. CASE dir' # dir
    <3>1. PICK c \in P, gone \in SUBSET {"ident", "keys", "wallet"} :
              LET Left(x, file) == IF x \in gone THEN None ELSE file
              IN  dir' = [dir EXCEPT ![call[c].name] = [ident  |-> Left("ident", @.ident),
                                                        keys   |-> Left("keys", @.keys),
                                                        wallet |-> Left("wallet", @.wallet)]]
      BY <1>7, <2>2 DEF Crash
    <3>2. dir'[n].keys = None \/ dir'[n].keys = dir[n].keys
      BY <1>t, <3>1
    <3> QED BY <1>1, <3>2 DEF KeptOrRemoved
  <2> QED BY <2>1, <2>2
<1>8. ASSUME NEW c \in Calls, Step(c) PROVE KeptOrRemoved(n)
  <2>1. CASE NetworkFails(c) \/ CheckAccount(c) \/ Promote(c) \/ Mark(c) \/ Unmark(c)
    BY <1>2, <2>1 DEF NetworkFails, CheckAccount, Promote, Mark, Unmark, disk
  <2> QED BY <1>3, <1>4, <1>5, <1>6, <1>8, <2>1 DEF Step
<1>9. ASSUME NEW c \in Calls, NEW op, NEW m, NEW id, NEW pc, Start(c, op, m, id, pc)
      PROVE  UNCHANGED dir
  BY <1>9 DEF Start, disk
<1>10. ASSUME NEW c \in Calls, NEW m \in Names,
              \/ \E id \in Ids : \/ StartInit(c, m, id) \/ StartRestore(c, m, id)
                                \/ StartCreate(c, m, id) \/ StartGuiRestore(c, m, id)
                                \/ StartWatch(c, m, id) \/ StartGuiWatch(c, m, id)
              \/ StartRemove(c, m) \/ StartRebuild(c, m) \/ Use(c, m) \/ StartEnsure(c)
       PROVE  UNCHANGED dir
  BY <1>9, <1>10 DEF StartInit, StartRestore, StartCreate, StartGuiRestore, StartWatch,
     StartGuiWatch, StartRemove, StartRebuild, Use, StartEnsure
<1>11. ASSUME NEW c \in Calls, StartEnsure(c) PROVE UNCHANGED dir
  BY <1>10, <1>11, NamesAssumption
<1> QED BY <1>2, <1>7, <1>8, <1>10, <1>11 DEF Next, vars, disk

\* "Creating a database can never clobber one that is already there", for any calls of any
\* processes in any order: write_config fills the file it created itself, and no other step
\* touches an existing keys.toml except to remove it.
THEOREM CreatingNeverClobbers == Spec => NeverClobbered
<1>1. CatalogInv /\ [Next]_vars => [\A n \in Names : KeptOrRemoved(n)]_vars
  BY NotClobbered
<1> QED BY <1>1, CatalogInvInit, CatalogInvStep, PTL DEF Spec, NeverClobbered

-----------------------------------------------------------------------------
(* Nothing unasked.                                                        *)

\* Where a step of a call leads.
LEMMA StepMoves ==
    ASSUME TypeOK, NEW c \in Calls, Step(c)
    PROVE  /\ call[c].pc # "idle" /\ overlaps' = overlaps
           /\ \A d \in Calls \ {c} : call'[d] = call[d]
           /\ call'[c].pc = "idle" \/ (/\ call'[c].op = call[c].op /\ call'[c].name = call[c].name
                                       /\ call'[c].id = call[c].id)
           /\ call'[c].pc = "config" => call'[c].op = "create"
<1>0. call \in [Calls -> CallType] /\ call[c] \in CallType
  BY DEF TypeOK
<1>1. call[c].pc # "idle" /\ overlaps' = overlaps
  BY DEF Step, NetworkFails, WriteIdentity, CreateConfig, FillConfig, Wipe, OpenWallet, CheckAccount,
     ImportAccount, Promote, Mark, Erase, Unmark, hist
<1>2. \/ End(c)
      \/ Goto(c, "import") \/ Goto(c, "mark")
      \/ Proceed(c) /\ call[c].pc \notin {"check", "mark", "unmark"}
  BY DEF Step, NetworkFails, WriteIdentity, CreateConfig, FillConfig, Wipe, OpenWallet, CheckAccount,
     ImportAccount, Promote, Mark, Erase, Unmark
<1>3. CASE End(c)
  BY <1>0, <1>1, <1>3, IdleFacts DEF End
<1>4. ASSUME NEW q \in {"import", "mark"}, Goto(c, q)
      PROVE  /\ \A d \in Calls \ {c} : call'[d] = call[d]
             /\ call'[c].op = call[c].op /\ call'[c].name = call[c].name /\ call'[c].id = call[c].id
             /\ call'[c].pc # "config"
  BY <1>0, <1>4 DEF Goto, CallType
<1>5. CASE Proceed(c) /\ call[c].pc \notin {"check", "mark", "unmark"}
  <2>1. PICK q \in Pcs : /\ call' = [call EXCEPT ![c] = Moved(c, q)]
                         /\ q = "idle" \/ AtStep(call[c].op, q)
                         /\ Follows(call[c].op, call[c].pc, q)
    BY <1>1, <1>5, ProceedFacts
  <2>2. q = "config" => call[c].pc = "identity"
    <3>1. call[c].pc \in Pcs \ {"idle", "check", "mark", "unmark"}
      BY <1>1, <1>5, Typed
    <3> QED BY <2>1, <3>1 DEF Follows, Pcs
  <2>3. call[c].pc = "identity" => call[c].op = "create"
    <3>1. AtStep(call[c].op, call[c].pc) /\ call[c].op \in Ops \ {"none"}
      BY <1>1, Typed
    <3> QED BY <3>1 DEF AtStep, Steps, Ops, init_watch_with, reimport_demo, ensure, rebootstrap, forget
  <2>4. Moved(c, q) = Idle \/ (/\ Moved(c, q).op = call[c].op /\ Moved(c, q).name = call[c].name
                               /\ Moved(c, q).id = call[c].id /\ Moved(c, q).pc = q)
    BY <1>0 DEF Moved, CallType
  <2>5. call'[c] = Moved(c, q) /\ \A d \in Calls \ {c} : call'[d] = call[d]
    BY <1>0, <2>1
  <2> QED BY <1>1, <2>2, <2>3, <2>4, <2>5, IdleFacts
<1> QED BY <1>1, <1>2, <1>3, <1>4, <1>5

\* Whom the database of these files belongs to: Identity, of the files.
Owner(f) ==
    IF f.keys # None /\ f.keys.id # None /\ f.wallet \notin {None, << >>} THEN Head(f.wallet) ELSE None

LEMMA IdentityIsOwner == \A n \in Names : Identity(n) = Owner(dir[n]) /\ Identity(n)' = Owner(dir'[n])
BY DEF Identity, Owner, Readable, Exists

\* Whom a database belongs to after a step on it.
Belongs(c) ==
    LET n == call[c].name
    IN  /\ \A m \in Names \ {n} : Owner(dir'[m]) = Owner(dir[m])
        /\ \/ Owner(dir'[n]) \in {None, Owner(dir[n])}
           \/ n \in late' \cup torn'
           \/ Owner(dir'[n]) = call[c].id /\ call[c].op \in {"create", "watch", "reimport"}
        /\ (late \cup torn) \ {n} \subseteq late' \cup torn'
        /\ n \in late \cup torn => n \in late' \cup torn' \/ Owner(dir'[n]) = None

LEMMA SameIdentity ==
    ASSUME NEW m, dir'[m].keys = dir[m].keys, dir'[m].wallet = dir[m].wallet
    PROVE  Owner(dir'[m]) = Owner(dir[m])
BY DEF Owner

LEMMA Others ==
    ASSUME TypeOK, NEW n \in Names, \A m \in Names \ {n} : dir'[m] = dir[m]
    PROVE  \A m \in Names \ {n} : Owner(dir'[m]) = Owner(dir[m])
BY SameIdentity

LEMMA StepBelongs ==
    ASSUME CatalogInv, sequential, NEW c \in Calls, Step(c) PROVE Belongs(c)
<1> DEFINE n == call[c].name
           w == dir[n].wallet
           k == dir[n].keys
<1>t. /\ TypeOK /\ Sealed /\ Whole /\ ~crossed /\ dir \in [Names -> FilesType] /\ n \in Names
      /\ dir[n] \in FilesType
  BY StepMoves, Typed DEF CatalogInv, FilesAgree, TypeOK, Exclusive
<1>1. CASE NetworkFails(c) \/ CheckAccount(c) \/ Promote(c) \/ Mark(c) \/ Unmark(c)
  <2>1. dir' = dir /\ late' = late /\ torn' = torn
    BY <1>1 DEF NetworkFails, CheckAccount, Promote, Mark, Unmark, disk, hist
  <2> QED BY <2>1, SameIdentity DEF Belongs
<1>2. CASE WriteIdentity(c)
  <2>1. /\ dir' = dir \/ dir' = [dir EXCEPT ![n].ident = call[c].seal]
        /\ late' = late /\ torn' = torn
    BY <1>2 DEF WriteIdentity, hist
  <2>2. \A m \in Names : dir'[m].keys = dir[m].keys /\ dir'[m].wallet = dir[m].wallet
    BY <1>t, <2>1 DEF FilesType
  <2> QED BY <1>t, <2>1, <2>2, SameIdentity DEF Belongs
<1>3. CASE CreateConfig(c)
  <2>1. late' = late /\ torn' = torn
    BY <1>3 DEF CreateConfig, hist
  <2>2. CASE dir' = dir
    BY <2>1, <2>2, SameIdentity DEF Belongs
  <2>3. CASE dir' # dir
    <3>1. dir' = [dir EXCEPT ![n].keys = Blank(call[c].seal, Role(call[c].op))]
      BY <1>3, <2>3 DEF CreateConfig
    <3>2. dir'[n].keys.id = None /\ \A m \in Names \ {n} : dir'[m] = dir[m]
      BY <1>t, <3>1 DEF Blank, FilesType
    <3>3. Owner(dir'[n]) = None
      BY <3>2 DEF Owner
    <3> QED BY <1>t, <2>1, <3>2, <3>3, Others DEF Belongs
  <2> QED BY <2>2, <2>3
<1>4. CASE FillConfig(c)
  <2>1. late' = late /\ torn' = torn /\ call[c].pc = "fill"
    BY <1>4 DEF FillConfig, hist
  <2>2. CASE dir' = dir
    BY <2>1, <2>2, SameIdentity DEF Belongs
  <2>3. CASE dir' # dir
    <3>1. k # None /\ k.seal = call[c].seal /\ dir' = [dir EXCEPT ![n].keys.id = call[c].id]
      BY <1>4, <2>3 DEF FillConfig, Exists
    <3>2. dir'[n].wallet = w /\ \A m \in Names \ {n} : dir'[m] = dir[m]
      BY <1>t, <3>1 DEF FilesType
    <3>3. k.id = None
      BY <1>t, <2>1, <3>1 DEF Sealed
    <3>4. n \in torn \/ w = None
      BY <1>t, <3>3 DEF Whole, Readable
    <3>5. n \in torn' \/ Owner(dir'[n]) = None
      BY <2>1, <3>2, <3>4 DEF Owner
    <3> QED BY <1>t, <2>1, <3>2, <3>5, Others DEF Belongs
  <2> QED BY <2>2, <2>3
<1>5. CASE Wipe(c)
  <2>1. late' = late /\ torn' = torn /\ dir' = [dir EXCEPT ![n].wallet = None]
    BY <1>5 DEF Wipe, hist
  <2>2. dir'[n].wallet = None /\ \A m \in Names \ {n} : dir'[m] = dir[m]
    BY <1>t, <2>1 DEF FilesType
  <2>3. Owner(dir'[n]) = None
    BY <2>2 DEF Owner
  <2> QED BY <1>t, <2>1, <2>2, <2>3, Others DEF Belongs
<1>6. CASE OpenWallet(c)
  <2>1. late' = late /\ torn' = torn
    BY <1>6 DEF OpenWallet, hist
  <2>2. CASE dir' = dir
    BY <2>1, <2>2, SameIdentity DEF Belongs
  <2>3. CASE dir' # dir
    <3>1. dir' = [dir EXCEPT ![n].wallet = << >>]
      BY <1>6, <2>3 DEF OpenWallet
    <3>2. dir'[n].wallet = << >> /\ \A m \in Names \ {n} : dir'[m] = dir[m]
      BY <1>t, <3>1 DEF FilesType
    <3>3. Owner(dir'[n]) = None
      BY <3>2 DEF Owner
    <3> QED BY <1>t, <2>1, <3>2, <3>3, Others DEF Belongs
  <2> QED BY <2>2, <2>3
<1>7. CASE ImportAccount(c)
  <2> DEFINE v == IF w = None /\ call[c].op = "demo" THEN << >> ELSE w
             id == call[c].id
  <2>1. CASE dir' = dir
    <3>1. late \subseteq late' /\ torn' = torn
      BY <1>7 DEF ImportAccount
    <3> QED BY <2>1, <3>1, SameIdentity DEF Belongs
  <2>2. CASE dir' # dir
    <3>1. /\ v # None /\ dir' = [dir EXCEPT ![n].wallet = Append(v, id)] /\ torn' = torn
          /\ call[c].pc = "import"
          /\ late' = IF call[c].op \in {"demo", "rebuild"} THEN late \cup {n} ELSE late
      BY <1>7, <2>2 DEF ImportAccount
    <3>2. /\ dir'[n].wallet = Append(v, id) /\ dir'[n].keys = k
          /\ \A m \in Names \ {n} : dir'[m] = dir[m]
      BY <1>t, <3>1 DEF FilesType
    <3>3. late \cup torn \subseteq late' \cup torn' /\ (call[c].op \in {"demo", "rebuild"} => n \in late')
      BY <3>1
    <3>4. CASE call[c].op \in {"demo", "rebuild"}
      BY <1>t, <3>2, <3>3, <3>4, Others DEF Belongs
    <3>5. CASE call[c].op \notin {"demo", "rebuild"}
      <4>1. call[c].op \in {"create", "watch", "reimport"}
        <5>1. call[c].op \in Ops \ {"none"} /\ AtStep(call[c].op, "import")
          BY <1>t, <3>1, Typed
        <5>2. ~AtStep("remove", "import")
          BY DEF AtStep, Steps, forget
        <5> QED BY <3>5, <5>1, <5>2 DEF Ops
      <4>2. w # None /\ w \in Seq(Ids) /\ dir'[n].wallet = Append(w, id)
        BY <1>t, <3>1, <3>2, <3>5, FilesTyped
      <4>3. id \in Ids
        BY <1>t, <3>1, <4>1, Typed
      <4>4. Append(w, id) # None /\ Append(w, id) # << >>
        <5>1. Append(w, id) \in Seq(Ids) /\ Len(Append(w, id)) = Len(w) + 1
          BY <4>2, <4>3
        <5>2. Len(w) + 1 # 0
          BY <4>2
        <5> QED BY <5>1, <5>2, NoneAssumption
      <4>5. w # << >> => Head(Append(w, id)) = Head(w)
        <5> HIDE DEF w, id
        <5> QED BY <4>2, <4>3
      <4>6. w = << >> => Head(Append(w, id)) = id
        <5> HIDE DEF w, id
        <5> QED BY <4>2, <4>3
      <4>7. Owner(dir'[n]) = IF k # None /\ k.id # None THEN Head(Append(w, id)) ELSE None
        BY <3>2, <4>2, <4>4 DEF Owner
      <4>8. k # None /\ k.id # None /\ w # << >> => Owner(dir[n]) = Head(w)
        BY <4>2 DEF Owner
      <4>9. Owner(dir'[n]) \in {None, Owner(dir[n])} \/ Owner(dir'[n]) = id
        BY <4>5, <4>6, <4>7, <4>8
      <4> QED BY <1>t, <3>2, <3>3, <4>1, <4>9, Others DEF Belongs
    <3> QED BY <3>4, <3>5
  <2> QED BY <2>1, <2>2
<1>8. CASE Erase(c)
  <2>1. late' = late \ {n} /\ torn' = torn \ {n} /\ dir' = [dir EXCEPT ![n] = NoFiles]
    BY <1>8 DEF Erase
  <2>2. dir'[n].wallet = None /\ \A m \in Names \ {n} : dir'[m] = dir[m]
    BY <1>t, <2>1 DEF NoFiles
  <2>3. Owner(dir'[n]) = None
    BY <2>2 DEF Owner
  <2> QED BY <1>t, <2>1, <2>2, <2>3, Others DEF Belongs
<1> QED BY <1>1, <1>2, <1>3, <1>4, <1>5, <1>6, <1>7, <1>8 DEF Step

\* The conjuncts of Unasked.
Alone(c) ==
    call[c].pc # "idle" /\ call[c].op \in {"create", "watch", "reimport"} =>
        \A m \in Names : m # call[c].name => Identity(m) # call[c].id
Unmarked(c) == call[c].op = "demo" /\ call[c].pc = "config" => ~provisioned

LEMMA UnaskedParts ==
    Unasked = (sequential => /\ ImportedOnce /\ (\A c \in Calls : Alone(c))
                             /\ (\A c \in Calls : Unmarked(c)) /\ (dropped = "marked" => provisioned))
BY DEF Unasked, Alone, Unmarked

\* A fresh seed is nobody's.
LEMMA FreshIsAlone ==
    ASSUME TypeOK, NEW id \in Ids, Fresh(id), NEW m \in Names PROVE Identity(m) # id
<1> SUFFICES ASSUME Identity(m) = id PROVE FALSE
  OBVIOUS
<1>1. dir[m].wallet \notin {None, << >>} /\ Head(dir[m].wallet) = id
  BY IdsAssumption DEF Identity
<1>2. dir[m].wallet \in Seq(Ids)
  BY <1>1, FilesTyped
<1>3. 1 \in DOMAIN dir[m].wallet /\ dir[m].wallet[1] = id
  BY <1>1, <1>2
<1>4. id \in Held(m)
  BY <1>1, <1>3 DEF Held
<1> QED BY <1>4 DEF Fresh

LEMMA UnaskedStart ==
    ASSUME CatalogInv, Unasked, sequential', NEW c \in Calls, NEW op, NEW n, NEW id, NEW pc,
           Start(c, op, n, id, pc), op = "demo" => ~provisioned,
           op \in {"create", "watch", "reimport"} => \A m \in Names : Identity(m) # id
    PROVE  Unasked'
<1> DEFINE new == [op |-> op, name |-> n, id |-> id, seal |-> calls + 1, pc |-> pc]
<1>1. /\ call \in [Calls -> CallType] /\ overlaps \in Nat
  BY DEF CatalogInv, FilesAgree, TypeOK
<1>2. /\ \A d \in Calls : call[d].pc = "idle"
      /\ sequential /\ UNCHANGED <<dir, late, torn, provisioned, dropped>>
      /\ call' = [call EXCEPT ![c] = new]
  BY <1>1 DEF Start, sequential, disk
<1>3. /\ call'[c].op = op /\ call'[c].id = id
      /\ \A d \in Calls \ {c} : call'[d].pc = "idle"
  BY <1>1, <1>2
<1>4. ImportedOnce'
  BY <1>2, IdentityIsOwner, UnaskedParts DEF ImportedOnce
<1>5. ASSUME NEW d \in Calls PROVE Alone(d)'
  BY <1>2, <1>3, IdentityIsOwner DEF Alone
<1>6. ASSUME NEW d \in Calls PROVE Unmarked(d)'
  BY <1>2, <1>3 DEF Unmarked
<1>7. dropped' = "marked" => provisioned'
  BY <1>2, UnaskedParts
<1> QED BY <1>4, <1>5, <1>6, <1>7 DEF Unasked, Alone, Unmarked

LEMMA UnaskedCall ==
    ASSUME CatalogInv, Unasked, sequential', NEW c \in Calls, Step(c) PROVE Unasked'
<1> DEFINE n == call[c].name
<1>1. /\ TypeOK /\ sequential /\ call[c].pc # "idle" /\ n \in Names
      /\ \A d \in Calls \ {c} : call[d].pc = "idle" /\ call'[d] = call[d]
      /\ call'[c].pc = "idle" \/ (/\ call'[c].op = call[c].op /\ call'[c].name = n
                                  /\ call'[c].id = call[c].id)
      /\ call'[c].pc = "config" => call'[c].op = "create"
  BY StepMoves, Typed DEF CatalogInv, FilesAgree, Exclusive, sequential
<1>2. /\ \A m \in Names \ {n} : Identity(m)' = Identity(m)
      /\ \/ Owner(dir'[n]) \in {None, Identity(n)}
         \/ n \in late' \cup torn'
         \/ Owner(dir'[n]) = call[c].id /\ call[c].op \in {"create", "watch", "reimport"}
      /\ (late \cup torn) \ {n} \subseteq late' \cup torn'
      /\ n \in late \cup torn => n \in late' \cup torn' \/ Owner(dir'[n]) = None
  BY <1>1, StepBelongs, IdentityIsOwner DEF Belongs
<1>3. \A m \in Names : m # n /\ call[c].op \in {"create", "watch", "reimport"} => Identity(m) # call[c].id
  BY <1>1, UnaskedParts DEF Alone
<1>4. ImportedOnce'
  <2> SUFFICES ASSUME NEW a \in Names, NEW b \in Names, a # b, Owner(dir'[a]) = Owner(dir'[b]),
                      Owner(dir'[a]) # None
               PROVE  (late' \cup torn') \cap {a, b} # {}
    BY IdentityIsOwner DEF ImportedOnce
  <2>1. \A m \in Names \ {n} : Owner(dir'[m]) = Identity(m)
    BY <1>2, IdentityIsOwner
  <2>2. ASSUME Identity(a) = Identity(b), Identity(a) # None PROVE (late \cup torn) \cap {a, b} # {}
    BY <1>1, <2>2, UnaskedParts DEF ImportedOnce
  <2>3. ASSUME NEW m \in Names, m # n, Identity(m) = Owner(dir'[n]), Owner(dir'[n]) # None,
               n \notin late' \cup torn'
        PROVE  Identity(m) = Identity(n)
    BY <1>2, <1>3, <2>3
  <2>4. CASE a # n /\ b # n
    BY <1>2, <2>1, <2>2, <2>4
  <2>5. CASE a = n \/ b = n
    <3> SUFFICES ASSUME n \notin late' \cup torn' PROVE (late' \cup torn') \cap {a, b} # {}
      BY <2>5
    <3>1. Identity(a) = Identity(b) /\ Identity(a) # None
      <4>1. CASE a = n
        BY <2>1, <2>3, <4>1
      <4>2. CASE b = n
        BY <2>1, <2>3, <4>2
      <4> QED BY <2>5, <4>1, <4>2
    <3>2. n \notin late \cup torn
      BY <1>2, <2>5
    <3> QED BY <1>2, <2>2, <2>5, <3>1, <3>2
  <2> QED BY <2>4, <2>5
<1>5. ASSUME NEW d \in Calls PROVE Alone(d)'
  <2>1. CASE d # c \/ call'[c].pc = "idle"
    BY <1>1, <2>1 DEF Alone
  <2>2. CASE d = c /\ call'[c].pc # "idle"
    BY <1>1, <1>2, <1>3, <2>2 DEF Alone
  <2> QED BY <2>1, <2>2
<1>6. ASSUME NEW d \in Calls PROVE Unmarked(d)'
  BY <1>1 DEF Unmarked
<1>7. dropped' = "marked" => provisioned'
  <2>1. \/ UNCHANGED <<provisioned, dropped>>
        \/ provisioned' = TRUE
        \/ provisioned' = provisioned /\ (dropped' = "marked" => dropped = "marked" \/ provisioned)
    <3>1. CASE Erase(c)
      BY <3>1 DEF Erase
    <3>2. CASE Mark(c)
      BY <3>2 DEF Mark
    <3>3. CASE ~Erase(c) /\ ~Mark(c)
      BY <3>3 DEF Step, NetworkFails, WriteIdentity, CreateConfig, FillConfig, Wipe, OpenWallet,
         CheckAccount, ImportAccount, Promote, Unmark, hist, disk
    <3> QED BY <3>1, <3>2, <3>3
  <2> QED BY <1>1, <2>1, UnaskedParts
<1> QED BY <1>4, <1>5, <1>6, <1>7 DEF Unasked, Alone, Unmarked

LEMMA UnaskedCrash ==
    ASSUME CatalogInv, Unasked, sequential', NEW P \in {Cli, Gui}, Crash(P) PROVE Unasked'
<1>t. TypeOK /\ dir \in [Names -> FilesType]
  BY DEF CatalogInv, FilesAgree, TypeOK
<1>1. /\ call' = [c \in Calls |-> IF c \in P THEN Idle ELSE call[c]] /\ sequential
      /\ UNCHANGED <<provisioned, dropped, late>>
  BY DEF Crash, sequential
<1>2. \A d \in Calls : call'[d].pc = "idle" \/ call'[d] = call[d]
  BY <1>1, IdleFacts
<1>3. /\ torn \subseteq torn'
      /\ \A m \in Names : Identity(m)' \in {None, Identity(m)}
  <2>1. CASE dir' = dir /\ torn' = torn
    BY <2>1, IdentityIsOwner
  <2>2. CASE ~(dir' = dir /\ torn' = torn)
    <3>1. PICK c \in P, gone \in SUBSET {"ident", "keys", "wallet"} :
              LET n == call[c].name
                  Left(x, file) == IF x \in gone THEN None ELSE file
              IN  /\ dir' = [dir EXCEPT ![n] = [ident  |-> Left("ident", @.ident),
                                               keys   |-> Left("keys", @.keys),
                                               wallet |-> Left("wallet", @.wallet)]]
                  /\ torn' = torn \cup {n}
      BY <2>2 DEF Crash
    <3>2. \A m \in Names : /\ dir'[m].keys \in {None, dir[m].keys}
                           /\ dir'[m].wallet \in {None, dir[m].wallet}
      BY <1>t, <3>1
    <3> QED BY <3>1, <3>2, IdentityIsOwner DEF Owner
  <2> QED BY <2>1, <2>2
<1>4. ImportedOnce'
  BY <1>1, <1>3, UnaskedParts DEF ImportedOnce
<1>5. ASSUME NEW d \in Calls PROVE Alone(d)'
  <2>1. CASE call'[d].pc = "idle"
    BY <2>1 DEF Alone
  <2>2. CASE call'[d] = call[d] /\ call[d].pc # "idle"
    <3>1. call[d].op \in {"create", "watch", "reimport"} => call[d].id # None
      BY <1>t, <2>2, Typed, IdsAssumption
    <3>2. Alone(d)
      BY <1>1, UnaskedParts
    <3> QED BY <1>3, <2>2, <3>1, <3>2 DEF Alone
  <2> QED BY <1>2, <2>1, <2>2
<1>6. ASSUME NEW d \in Calls PROVE Unmarked(d)'
  BY <1>1, <1>2, UnaskedParts DEF Unmarked
<1>7. dropped' = "marked" => provisioned'
  BY <1>1, UnaskedParts
<1> QED BY <1>4, <1>5, <1>6, <1>7 DEF Unasked, Alone, Unmarked

LEMMA UnaskedStep == CatalogInv /\ Unasked /\ [Next]_vars => Unasked'
<1> SUFFICES ASSUME CatalogInv, Unasked, [Next]_vars, sequential' PROVE Unasked'
  BY DEF Unasked
<1>t. TypeOK
  BY DEF CatalogInv, FilesAgree
<1>1. ASSUME NEW c \in Calls, NEW n \in Names, NEW id \in Ids,
             \/ StartInit(c, n, id) \/ StartRestore(c, n, id) \/ StartCreate(c, n, id)
             \/ StartGuiRestore(c, n, id) \/ StartWatch(c, n, id) \/ StartGuiWatch(c, n, id)
      PROVE  Unasked'
  <2>1. \A m \in Names : Identity(m) # id
    <3>1. Fresh(id) \/ ~find_duplicate(id)
      BY <1>1 DEF StartInit, StartRestore, StartCreate, StartGuiRestore, StartWatch, StartGuiWatch
    <3> QED BY <1>t, <3>1, FreshIsAlone DEF find_duplicate
  <2>2. \E op \in {"create", "watch", "reimport"}, pc \in Pcs : Start(c, op, n, id, pc)
    BY <1>1 DEF StartInit, StartRestore, StartCreate, StartGuiRestore, StartWatch, StartGuiWatch, Pcs
  <2> QED BY <2>1, <2>2, UnaskedStart
<1>2. ASSUME NEW c \in Calls, NEW n \in Names, StartRemove(c, n) \/ StartRebuild(c, n)
      PROVE  Unasked'
  <2>1. \E id, pc : Start(c, "remove", n, id, pc) \/ Start(c, "rebuild", n, id, pc)
    BY <1>2 DEF StartRemove, StartRebuild
  <2> QED BY <2>1, UnaskedStart
<1>3. ASSUME NEW c \in Calls, StartEnsure(c) PROVE Unasked'
  <2>1. PICK pc : Start(c, "demo", DemoName, DemoId, pc) /\ ~provisioned
    BY <1>3 DEF StartEnsure
  <2> QED BY <2>1, UnaskedStart
<1>4. ASSUME NEW c \in Calls, Step(c) PROVE Unasked'
  BY <1>4, UnaskedCall
<1>5. CASE Crash(Cli) \/ Crash(Gui)
  BY <1>5, UnaskedCrash
<1>6. ASSUME UNCHANGED <<dir, provisioned, call, hist>> PROVE Unasked'
  <2>1. \A m \in Names : Identity(m)' = Identity(m)
    BY <1>6, IdentityIsOwner
  <2> QED BY <1>6, <2>1 DEF Unasked, ImportedOnce, hist, sequential
<1>7. ASSUME NEW c \in Calls, NEW n \in Names, Use(c, n) PROVE Unasked'
  BY <1>6, <1>7 DEF Use
<1>8. CASE UNCHANGED vars
  BY <1>6, <1>8 DEF vars, disk
<1> QED BY <1>1, <1>2, <1>3, <1>4, <1>5, <1>7, <1>8 DEF Next

LEMMA UnaskedInit == Init => Unasked
<1> SUFFICES ASSUME Init PROVE Unasked
  OBVIOUS
<1>1. \A m \in Names : Identity(m) = None
  BY DEF Init, Identity, Readable, Exists, NoFiles
<1>2. \A c \in Calls : call[c].pc = "idle" /\ call[c].op = "none"
  BY IdleFacts DEF Init
<1> QED BY <1>1, <1>2 DEF Unasked, ImportedOnce, Init

\* Calls made one after another, kills between their steps included, never import a database
\* under a second name, and a demo that was removed once provisioned stays removed: what
\* find_duplicate_by_ufvk saw is still so when the account is imported, and ensure looks at the
\* marker before it writes.
THEOREM NothingIsUnasked == Spec => NothingUnasked
<1>1. CatalogInv /\ Unasked /\ [Next]_vars => [ImportedOnce' /\ DeletedDemoStays]_vars
  <2> SUFFICES ASSUME CatalogInv, Unasked, Next PROVE ImportedOnce' /\ DeletedDemoStays
    OBVIOUS
  <2>1. Unasked'
    BY UnaskedStep
  <2>2. ImportedOnce'
    BY <2>1 DEF Unasked, ImportedOnce
  <2>3. overlaps \in Nat /\ (sequential' => sequential)
    <3>1. overlaps \in Nat
      BY DEF CatalogInv, FilesAgree, TypeOK
    <3>2. ASSUME NEW c, NEW op, NEW n, NEW id, NEW pc, Start(c, op, n, id, pc)
          PROVE  overlaps' \in {overlaps, overlaps + 1}
      BY <3>2 DEF Start
    <3>3. ASSUME NEW c \in Calls, Step(c) PROVE overlaps' = overlaps
      BY <3>3, StepMoves DEF CatalogInv, FilesAgree
    <3>4. overlaps' \in {overlaps, overlaps + 1}
      BY <3>2, <3>3 DEF Next, StartInit, StartRestore, StartCreate, StartGuiRestore, StartWatch,
         StartGuiWatch, StartEnsure, StartRemove, StartRebuild, Use, Crash, hist
    <3> QED BY <3>1, <3>4 DEF sequential
  <2>4. DeletedDemoStays
    BY <2>3 DEF DeletedDemoStays, Recreated, Unasked
  <2> QED BY <2>2, <2>4
<1> QED BY <1>1, CatalogInvInit, CatalogInvStep, UnaskedInit, UnaskedStep, PTL
        DEF Spec, NothingUnasked

=============================================================================
