----------------------------- MODULE ZkvCatalog -----------------------------
(***************************************************************************)
(* The data directory: which databases exist on this machine, the files    *)
(* each is made of, the "current" marker and the bundled demo database.    *)
(*                                                                         *)
(* A database comes into being file by file (age identity, keys.toml,      *)
(* wallet files, account), each call working from checks it made before a  *)
(* network round-trip, and a terminal and the GUI work on the same         *)
(* directory.  The only exclusion is create_new on the two key files, and, *)
(* inside the GUI, a mutex per database name.  Either process can be       *)
(* killed between any two steps.  Databases with wallet files of their own *)
(* are modelled here; members of the shared scan are in ZkvFleet.          *)
(***************************************************************************)
EXTENDS Naturals, Sequences, FiniteSets

CONSTANTS
    Names,          \* database names
    DemoName,       \* DEMO_DB_NAME
    Ids,            \* databases as the chain knows them: receiver identities
    DemoId,         \* the one DEMO_ZKV_ADDRESS points at
    None,           \* no file, no name
    Cli,            \* the zkv command being run in a terminal
    Gui,            \* the calls the GUI process may have in progress
    MaxCalls,       \* bound: calls made
    MaxOverlaps,    \* bound: calls made while another is in progress
    MaxCrashes      \* bound: processes killed

ASSUME NamesAssumption == DemoName \in Names /\ None \notin Names
ASSUME IdsAssumption   == DemoId \in Ids /\ None \notin Ids
ASSUME NoneAssumption  ==
    /\ None \notin Nat /\ None \notin Seq(Ids)
    /\ None \notin [id : {None} \cup Ids, role : {"admin", "watch"}, seal : Nat]
ASSUME CallsAssumption ==
    /\ Cli \cap Gui = {}
    /\ MaxCalls \in Nat /\ MaxOverlaps \in Nat /\ MaxCrashes \in Nat

Calls == Cli \cup Gui

VARIABLES
    dir,            \* per name, its files: [ident, keys, wallet]
    current,        \* the "current" marker
    provisioned,    \* the marker that the demo has been provisioned
    call,           \* per caller: [op, name, id, seal, pc]
    calls,          \* history: calls made; the number of a call seals what it writes
    crashes,        \* history: processes killed
    overlaps,       \* history: calls made while another was in progress
    crossed,        \* history: have calls overlapped that no lock keeps apart?
    torn,           \* history: names whose removal was interrupted
    stray,          \* history: has a removal taken files of another database than it checked?
    dropped,        \* history: was our demo removed, and was it marked provisioned then?
    late            \* history: names whose account came of ensure or a rebuild, which look for no other

disk == <<dir, current, provisioned>>
hist == <<overlaps, crossed, torn, stray, dropped, late>>
vars == <<disk, call, calls, crashes, hist>>

\* ident: the call whose age identity is in the directory; keys: keys.toml, with
\* id None while it is still empty; wallet: the accounts in data.sqlite.
NoFiles == [ident |-> None, keys |-> None, wallet |-> None]
Blank(seal, role) == [id |-> None, role |-> role, seal |-> seal]

Idle == [op |-> "none", name |-> None, id |-> None, seal |-> 0, pc |-> "idle"]

Init ==
    /\ dir = [n \in Names |-> NoFiles]
    /\ current = None /\ provisioned = FALSE
    /\ call = [c \in Calls |-> Idle]
    /\ calls = 0 /\ crashes = 0
    /\ overlaps = 0 /\ crossed = FALSE /\ torn = {} /\ stray = FALSE
    /\ dropped = "never" /\ late = {}

-----------------------------------------------------------------------------
\* No two calls have overlapped.
sequential == overlaps = 0

(* What a call reads.                                                      *)

\* list_dbs: a directory with a keys.toml.
Exists(n) == dir[n].keys # None

\* WalletConfig::read: a keys.toml whose contents were never written does not parse.
Readable(n) == Exists(n) /\ dir[n].keys.id # None

\* account_keys: the identity of the wallet's account, if it has one.
Identity(n) == IF Readable(n) /\ dir[n].wallet \notin {None, << >>} THEN Head(dir[n].wallet) ELSE None

\* find_duplicate_by_ufvk: a database whose wallet cannot be read is skipped.
find_duplicate(id) == \E n \in Names : Identity(n) = id

\* is_our_demo
is_our_demo == Exists(DemoName) /\ dir[DemoName].keys.id = DemoId
               /\ dir[DemoName].keys.role = "watch"

\* db_lock: a call of the GUI waits for the others on the same name; the demo's
\* start-up provisioning takes no lock, nor does the check at the start of forget.
Locks(c) == c \in Gui /\ call[c].op # "demo" /\ ~(call[c].op = "remove" /\ call[c].pc = "erase")
LockFree(c, n) == c \in Gui => \A g \in Gui \ {c} : call[g].name = n => ~Locks(g)

-----------------------------------------------------------------------------
(* The steps each kind of call takes after its checks, in the code's order.  *)

create_admin    == <<"identity", "config", "fill", "open", "import", "promote">>
init_watch_with == <<"config", "fill", "open", "import", "promote">>
reimport_demo   == <<"config", "fill", "open", "import", "promote", "mark">>
ensure          == <<"config", "fill", "open", "check", "import", "mark">>
rebootstrap     == <<"wipe", "open", "import">>
forget          == <<"erase", "unmark">>

Steps(op) ==
    CASE op = "create"   -> create_admin
      [] op = "watch"    -> init_watch_with
      [] op = "reimport" -> reimport_demo
      [] op = "demo"     -> ensure
      [] op = "rebuild"  -> rebootstrap
      [] op = "remove"   -> forget

-----------------------------------------------------------------------------
(* Starting a call.                                                        *)

Start(c, op, n, id, pc) ==
    /\ call[c].pc = "idle"
    /\ calls < MaxCalls
    /\ calls' = calls + 1
    /\ call' = [call EXCEPT ![c] = [op |-> op, name |-> n, id |-> id, seal |-> calls', pc |-> pc]]
    /\ overlaps' = IF \A d \in Calls : call[d].pc = "idle" THEN overlaps ELSE overlaps + 1
    /\ overlaps' <= MaxOverlaps
    /\ crossed' = (crossed \/ \E d \in Calls :
                      call[d].pc # "idle" /\ ({c, d} \cap Cli # {} \/ "demo" \in {op, call[d].op}))
    /\ UNCHANGED <<disk, crashes, torn, stray, dropped, late>>

\* The databases whose keys are in n's files.
Held(n) ==
    (IF Exists(n) THEN {dir[n].keys.id} ELSE {})
    \cup (IF dir[n].wallet = None THEN {} ELSE {dir[n].wallet[i] : i \in DOMAIN dir[n].wallet})

\* A fresh seed: an identity nothing here has.
Fresh(id) ==
    /\ id # DemoId
    /\ \A m \in Names : id \notin Held(m)
    /\ \A d \in Calls : call[d].id # id

\* zkv init: refused only if the name is taken.
StartInit(c, n, id) ==
    /\ c \in Cli
    /\ ~Exists(n)
    /\ Fresh(id)
    /\ Start(c, "create", n, id, "identity")

\* Mutant: a seed is imported without looking for it under another name.
StartRestore_no_duplicate_check(c, n, id) ==
    /\ c \in Cli
    /\ ~Exists(n)
    /\ Start(c, "create", n, id, "identity")

\* zkv restore: refused if the name is taken or the seed's database is already here.
StartRestore(c, n, id) ==
    /\ c \in Cli
    /\ ~Exists(n)
    /\ ~find_duplicate(id)
    /\ Start(c, "create", n, id, "identity")

\* The GUI's create, under the name's lock: the seed it was shown or a new one.
StartCreate(c, n, id) ==
    /\ c \in Gui /\ LockFree(c, n)
    /\ ~Exists(n)
    /\ Fresh(id)
    /\ Start(c, "create", n, id, "identity")

\* The GUI's restore: the checks of zkv restore, under the name's lock.
StartGuiRestore(c, n, id) ==
    /\ c \in Gui /\ LockFree(c, n)
    /\ ~Exists(n)
    /\ ~find_duplicate(id)
    /\ Start(c, "create", n, id, "identity")

\* zkv watch.
StartWatch(c, n, id) ==
    /\ c \in Cli
    /\ ~Exists(n)
    /\ ~find_duplicate(id)
    /\ Start(c, "watch", n, id, "config")

\* The GUI's watch, under the name's lock; re-importing the demo is a watch of its
\* address under its name.
StartGuiWatch(c, n, id) ==
    /\ c \in Gui /\ LockFree(c, n)
    /\ ~Exists(n)
    /\ ~find_duplicate(id)
    /\ Start(c, IF n = DemoName /\ id = DemoId THEN "reimport" ELSE "watch", n, id, "config")

\* demo::ensure: nothing to do once provisioned; an interrupted demo is finished,
\* somebody else's database of that name is left alone.
StartEnsure(c) ==
    /\ ~provisioned
    /\ Start(c, "demo", DemoName, DemoId,
             IF ~Exists(DemoName) THEN "config" ELSE IF is_our_demo THEN "check" ELSE "mark")

\* zkv remove and forget: the name is looked up, and the user then confirms or
\* the call waits for the lock; op's seal is of the database that was looked up.
StartRemove(c, n) ==
    /\ Readable(n)
    /\ Start(c, "remove", n, dir[n].keys.seal, "erase")

\* zkv sync --rebuild: the wallet files are wiped first.
StartRebuild(c, n) ==
    /\ c \in Cli
    /\ Readable(n)
    /\ Start(c, "rebuild", n, dir[n].keys.id, "wipe")

\* zkv use; the GUI's set_current does not ask whether the database exists.
Use(c, n) ==
    /\ call[c].pc = "idle"
    /\ c \in Cli => Readable(n)
    /\ current' = n
    /\ UNCHANGED <<dir, provisioned, call, calls, crashes, hist>>

-----------------------------------------------------------------------------
(* The steps of a call.                                                    *)

End(c)      == call' = [call EXCEPT ![c] = Idle]
Goto(c, pc) == call' = [call EXCEPT ![c].pc = pc]

\* On to the step after this one, if there is one.
Proceed(c) ==
    LET steps == Steps(call[c].op)
    IN  \E i \in DOMAIN steps :
            /\ steps[i] = call[c].pc
            /\ IF i = Len(steps) THEN End(c) ELSE Goto(c, steps[i + 1])

\* pinned_birthday and near_tip_birthday: the server is unreachable or its tip is
\* stale, and the call fails where it stands.
NetworkFails(c) ==
    /\ \/ call[c].pc = "identity"
       \/ call[c].pc = "config" /\ call[c].op \in {"watch", "reimport"}
       \/ call[c].pc = "import" /\ call[c].op = "demo"
       \/ call[c].pc = "open"   /\ call[c].op = "rebuild"
    /\ End(c)
    /\ UNCHANGED <<disk, calls, crashes, hist>>

\* Mutant: create instead of create_new.
WriteIdentity_truncates(c) ==
    /\ call[c].pc = "identity"
    /\ dir' = [dir EXCEPT ![call[c].name].ident = call[c].seal]
    /\ Proceed(c)
    /\ UNCHANGED <<current, provisioned, calls, crashes, hist>>

\* write_identity: an identity file that is already there fails the call.
WriteIdentity(c) ==
    LET n == call[c].name
    IN  /\ call[c].pc = "identity"
        /\ IF dir[n].ident = None
           THEN /\ dir' = [dir EXCEPT ![n].ident = call[c].seal]
                /\ Proceed(c)
           ELSE End(c) /\ UNCHANGED dir
        /\ UNCHANGED <<current, provisioned, calls, crashes, hist>>

Role(op) == IF op = "create" THEN "admin" ELSE "watch"

\* Mutant: create instead of create_new.
CreateConfig_truncates(c) ==
    LET n == call[c].name
    IN  /\ call[c].pc = "config"
        /\ dir' = [dir EXCEPT ![n].keys = Blank(call[c].seal, Role(call[c].op))]
        /\ Proceed(c)
        /\ UNCHANGED <<current, provisioned, calls, crashes, hist>>

\* write_config, the create_new: it fails on an existing file, or on a directory
\* that has been removed since the identity was written.
CreateConfig(c) ==
    LET n == call[c].name
    IN  /\ call[c].pc = "config"
        /\ IF dir[n].keys = None /\ (call[c].op = "create" => dir[n] # NoFiles)
           THEN /\ dir' = [dir EXCEPT ![n].keys = Blank(call[c].seal, Role(call[c].op))]
                /\ Proceed(c)
           ELSE End(c) /\ UNCHANGED dir
        /\ UNCHANGED <<current, provisioned, calls, crashes, hist>>

\* write_config, the contents; a file unlinked meanwhile takes them with it.
FillConfig(c) ==
    LET n == call[c].name
        mine == Exists(n) /\ dir[n].keys.seal = call[c].seal
    IN  /\ call[c].pc = "fill"
        /\ dir' = IF mine THEN [dir EXCEPT ![n].keys.id = call[c].id] ELSE dir
        /\ Proceed(c)
        /\ UNCHANGED <<current, provisioned, calls, crashes, hist>>

\* wipe_sidecars.
Wipe(c) ==
    /\ call[c].pc = "wipe"
    /\ dir' = [dir EXCEPT ![call[c].name].wallet = None]
    /\ Proceed(c)
    /\ UNCHANGED <<current, provisioned, calls, crashes, hist>>

\* init_dbs: wallet files without an account.  The demo claims an unset marker.
OpenWallet(c) ==
    LET n == call[c].name
    IN  /\ call[c].pc = "open"
        /\ dir' = IF dir[n].wallet = None THEN [dir EXCEPT ![n].wallet = << >>] ELSE dir
        /\ current' = IF call[c].op = "demo" /\ current = None THEN n ELSE current
        /\ Proceed(c)
        /\ UNCHANGED <<provisioned, calls, crashes, hist>>

\* import_account of the demo: nothing to do if an account is there.
CheckAccount(c) ==
    /\ call[c].pc = "check"
    /\ Goto(c, IF dir[call[c].name].wallet \in {None, << >>} THEN "import" ELSE "mark")
    /\ UNCHANGED <<disk, calls, crashes, hist>>

\* create_account, import_account_ufvk.  The demo's import opens the wallet afresh,
\* a creation goes on with its own handle; a wallet refuses an account it has.
ImportAccount(c) ==
    LET n == call[c].name
        w == IF dir[n].wallet = None /\ call[c].op = "demo" THEN << >> ELSE dir[n].wallet
    IN  /\ call[c].pc = "import"
        /\ IF w # None /\ \E i \in DOMAIN w : w[i] = call[c].id
           THEN End(c) /\ UNCHANGED <<dir, late>>
           ELSE /\ dir' = IF w = None THEN dir
                          ELSE [dir EXCEPT ![n].wallet = Append(w, call[c].id)]
                /\ late' = IF call[c].op \in {"demo", "rebuild"}
                           THEN late \cup {n} ELSE late
                /\ Proceed(c)
        /\ UNCHANGED <<current, provisioned, calls, crashes, overlaps, crossed, torn, stray, dropped>>

\* promote_current; zkv watch goes on to make the database current in any case.
Promote(c) ==
    LET n == call[c].name
    IN  /\ call[c].pc = "promote"
        /\ current' = IF current \in {None, DemoName} \/ (c \in Cli /\ call[c].op = "watch")
                      THEN n ELSE current
        /\ Proceed(c)
        /\ UNCHANGED <<dir, provisioned, calls, crashes, hist>>

\* mark_provisioned.
Mark(c) ==
    /\ call[c].pc = "mark"
    /\ provisioned' = TRUE
    /\ End(c)
    /\ UNCHANGED <<dir, current, calls, crashes, hist>>

\* A removal takes files of a call in progress, or of another database than it checked.
Strays(c, gone, others) ==
    LET n == call[c].name
    IN  \/ "ident" \in gone /\ \E d \in others : call[d].seal = dir[n].ident
        \/ "keys" \in gone /\ Exists(n) /\ dir[n].keys.seal # call[c].id

\* erase_wallet_state: the whole directory, under the GUI's lock if it is the GUI's.
Erase(c) ==
    LET n == call[c].name
    IN  /\ call[c].pc = "erase" /\ LockFree(c, n)
        /\ dir' = [dir EXCEPT ![n] = NoFiles]
        /\ stray' = (stray \/ Strays(c, {"ident", "keys", "wallet"}, Calls))
        /\ dropped' = IF n = DemoName /\ is_our_demo
                      THEN IF provisioned THEN "marked" ELSE "unmarked" ELSE dropped
        /\ torn' = torn \ {n} /\ late' = late \ {n}
        /\ Proceed(c)
        /\ UNCHANGED <<current, provisioned, calls, crashes, overlaps, crossed>>

\* Clear the marker if it named this database.
Unmark(c) ==
    /\ call[c].pc = "unmark"
    /\ current' = IF current = call[c].name THEN None ELSE current
    /\ End(c)
    /\ UNCHANGED <<dir, provisioned, calls, crashes, hist>>

\* A process is killed; remove_dir_all may then have taken any part of the files.
Crash(P) ==
    /\ crashes < MaxCrashes
    /\ \E c \in P : call[c].pc # "idle"
    /\ crashes' = crashes + 1
    /\ call' = [c \in Calls |-> IF c \in P THEN Idle ELSE call[c]]
    /\ \/ UNCHANGED <<dir, torn, stray>>
       \/ \E c \in P, gone \in SUBSET {"ident", "keys", "wallet"} :
              LET n == call[c].name
                  Left(f, file) == IF f \in gone THEN None ELSE file
              IN  /\ call[c].pc = "erase"
                  /\ dir' = [dir EXCEPT ![n] = [ident  |-> Left("ident", @.ident),
                                               keys   |-> Left("keys", @.keys),
                                               wallet |-> Left("wallet", @.wallet)]]
                  /\ torn' = torn \cup {n}
                  /\ stray' = (stray \/ Strays(c, gone, Calls \ P))
    /\ UNCHANGED <<current, provisioned, calls, overlaps, crossed, dropped, late>>

Step(c) ==
    \/ NetworkFails(c) \/ WriteIdentity(c) \/ CreateConfig(c) \/ FillConfig(c) \/ Wipe(c)
    \/ OpenWallet(c) \/ CheckAccount(c) \/ ImportAccount(c) \/ Promote(c) \/ Mark(c)
    \/ Erase(c) \/ Unmark(c)

Next ==
    \/ \E c \in Calls, n \in Names :
           \/ \E id \in Ids : \/ StartInit(c, n, id) \/ StartRestore(c, n, id)
                            \/ StartCreate(c, n, id) \/ StartGuiRestore(c, n, id)
                            \/ StartWatch(c, n, id) \/ StartGuiWatch(c, n, id)
           \/ StartRemove(c, n) \/ StartRebuild(c, n) \/ Use(c, n)
    \/ \E c \in Calls : StartEnsure(c) \/ Step(c)
    \/ Crash(Cli) \/ Crash(Gui)

Spec == Init /\ [][Next]_vars

-----------------------------------------------------------------------------
(* Properties.                                                             *)

Ops == {"none", "create", "watch", "reimport", "demo", "rebuild", "remove"}
Pcs == {"idle", "identity", "config", "fill", "open", "check", "import", "promote", "mark",
        "wipe", "erase", "unmark"}
KeysType  == [id : {None} \cup Ids, role : {"admin", "watch"}, seal : 1..calls]
FilesType == [ident : {None} \cup 1..calls, keys : {None} \cup KeysType,
              wallet : {None} \cup Seq(Ids)]
CallType  == [op : Ops, name : {None} \cup Names, id : {None} \cup Ids \cup Nat,
              seal : 0..calls, pc : Pcs]

\* The files, markers and calls are well formed: a wallet has no account twice, whatever is
\* sealed was sealed by a call that was made, and a call stands at one of its own steps.
TypeOK ==
    /\ calls \in Nat /\ overlaps \in Nat /\ crossed \in BOOLEAN /\ stray \in BOOLEAN
    /\ torn \subseteq Names /\ late \subseteq Names
    /\ current \in {None} \cup Names /\ provisioned \in BOOLEAN
    /\ dir \in [Names -> FilesType] /\ call \in [Calls -> CallType]
    /\ \A n \in Names : LET w == dir[n].wallet
                       IN  w # None => \A i, j \in DOMAIN w : w[i] = w[j] => i = j
    /\ \A c \in Calls : call[c].pc # "idle" =>
           /\ call[c].name \in Names /\ call[c].op # "none"
           /\ \E i \in DOMAIN Steps(call[c].op) : Steps(call[c].op)[i] = call[c].pc
           /\ call[c].op # "remove" => call[c].id \in Ids

\* "Creating a database can never clobber one that is already there": a keys.toml
\* is only ever completed by the call that created it, or removed.
KeptOrRemoved(n) ==
    LET before == dir[n].keys
        after  == dir'[n].keys
    IN  before = None \/ after = None \/ after = before
        \/ (before.id = None /\ after = [before EXCEPT !.id = after.id])
NeverClobbered == [][\A n \in Names : KeptOrRemoved(n)]_vars

\* A seed on disk can be decrypted: whatever calls raced or died, the identity file
\* beside an admin keys.toml is the one its seed is wrapped under, an interrupted
\* removal and one that hit another database than it checked apart.
SeedDecryptable ==
    ~stray => \A n \in Names \ torn :
        Exists(n) /\ dir[n].keys.role = "admin" => dir[n].ident = dir[n].keys.seal

\* Failures and crashes included, a wallet holds the account its keys.toml describes
\* and no other (an interrupted removal apart): nobody's database named like the
\* demo is given the demo's key, no account is imported twice, and the GUI's calls
\* may overlap each other.  Calls of a terminal and of the GUI must not.
WalletMatchesKeys ==
    ~crossed => \A n \in Names \ torn :
        Exists(n) /\ dir[n].keys.id # None /\ dir[n].wallet \notin {None, << >>}
            => dir[n].wallet = <<dir[n].keys.id>>

\* A database's files agree with each other: seeds can be decrypted and wallets hold the
\* account their keys.toml names.
FilesAgree == TypeOK /\ SeedDecryptable /\ WalletMatchesKeys

\* "Refuse to import the same database twice under a different name": made one
\* after another, calls never leave the same database under two names, unless one
\* of the two got its account from the demo's provisioning or from a rebuild, which
\* do not look for the other, or is the remains of an interrupted removal.
ImportedOnce ==
    sequential => \A m, n \in Names :
        m # n /\ Identity(m) = Identity(n) /\ Identity(m) # None => (late \cup torn) \cap {m, n} # {}

\* "A user who removes [the demo] does not get it silently recreated": once the
\* demo has been marked as provisioned and removed, no start-up brings it back.
Recreated == \E c \in Calls : call[c].op = "demo" /\ call[c].pc = "config" /\ call'[c].pc = "fill"
DeletedDemoStays == Recreated /\ sequential' => dropped # "marked"

\* The catalog holds nothing the user did not ask for: no database is imported a second
\* time under another name and a deleted demo stays deleted.
NothingUnasked == [][ImportedOnce' /\ DeletedDemoStays]_vars

\* Why they hold.  Every call seals what it writes with its own number, and a keys.toml
\* it has created stays empty until it fills it.
Sealed ==
    /\ \A c, d \in Calls : c # d /\ call[c].pc # "idle" => call[c].seal # call[d].seal
    /\ \A c \in Calls : call[c].pc # "idle" => call[c].seal # 0
    /\ \A c \in Calls : LET k == dir[call[c].name].keys
                       IN  call[c].pc = "fill" /\ k # None /\ k.seal = call[c].seal => k.id = None
    /\ ~stray => \A c \in Calls : call[c].pc = "config" /\ call[c].op = "create" =>
                     dir[call[c].name].ident = call[c].seal

\* Unless calls have crossed, those in progress are one, or of the GUI with its lock per
\* name; a removal that waits for its lock has not begun.
Begun(c) == call[c].pc # "idle" /\ (call[c].op = "remove" => call[c].pc # "erase")

Exclusive ==
    /\ ~crossed => \A c, d \in Calls : c # d /\ call[c].pc # "idle" /\ call[d].pc # "idle" =>
           /\ c \in Gui /\ call[c].op # "demo"
           /\ Begun(c) /\ Begun(d) => call[c].name # call[d].name
    /\ sequential => /\ ~crossed
                     /\ \A c, d \in Calls : call[c].pc # "idle" /\ call[d].pc # "idle" => c = d

\* What a call finds of its database before each of its steps.
Finds(c) ==
    LET n == call[c].name
        k == dir[n].keys
    IN  /\ call[c].pc \in {"identity", "config"} => k = None
        /\ call[c].pc = "fill" => k # None /\ k.id = None /\ k.seal = call[c].seal
        /\ call[c].pc \in {"wipe", "open", "check", "import"} => k # None /\ k.id = call[c].id
        /\ call[c].pc = "open" => dir[n].wallet = None
        /\ call[c].pc = "import" => dir[n].wallet \in {None, << >>}

Whole ==
    ~crossed =>
        /\ \A c \in Calls : call[c].name \notin torn => Finds(c)
        /\ \A n \in Names \ torn : ~Readable(n) => dir[n].wallet = None

CatalogInv == FilesAgree /\ Sealed /\ Exclusive /\ Whole

\* An import in progress has no other name; a demo in the making was not marked.
Unasked ==
    sequential =>
        /\ ImportedOnce
        /\ \A c \in Calls : call[c].pc # "idle" /\ call[c].op \in {"create", "watch", "reimport"} =>
               \A m \in Names : m # call[c].name => Identity(m) # call[c].id
        /\ \A c \in Calls : call[c].op = "demo" /\ call[c].pc = "config" => ~provisioned
        /\ dropped = "marked" => provisioned

\* As documented: a removal takes what was confirmed.
RemovalIsExact == ~stray

\* The same as documented, whether or not the first attempt reached the marker.
DemoNeverRecreated == [][Recreated => dropped = "never"]_vars

\* "Refuse to import the same database twice", without exception.
NoDuplicates == \A m, n \in Names : m # n /\ Identity(m) # None => Identity(m) # Identity(n)

\* A name nobody is using and no database has can be given to a new database.
NameReusable ==
    \A n \in Names : ~Exists(n) /\ (\A c \in Calls : call[c].name # n) => dir[n].ident = None

=============================================================================
