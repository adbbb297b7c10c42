----------------------------- MODULE CustodyRekey -----------------------------
(***************************************************************************)
(* The switch of the vault's master key: every listed file is opened under *)
(* the old key and sealed under the new one, the identity last, because    *)
(* its header tells the next start which key to resolve.                   *)
(*                                                                         *)
(* A key is a number, new with every salt and every keychain entry.  A     *)
(* passphrase key follows from the identity's header and the passphrase,   *)
(* which the user is taken to remember.  The chat client that runs during  *)
(* the switch is not told of it, and its relay pump outlives the handle.   *)
(***************************************************************************)
EXTENDS Naturals

CONSTANTS
    Conversation,   \* conversation files and fediverse actor files
    Identity,       \* identity.json.enc
    MaxPasses,      \* bound: custody switches asked for
    MaxAccidents    \* bound: process deaths and failing file or keystore operations

File == Conversation \cup {Identity}

ASSUME CustodyAssumption ==
    /\ Identity \notin Conversation
    /\ MaxPasses \in Nat /\ MaxAccidents \in Nat

VARIABLES
    sealed,     \* the key each file is sealed under; NoKey: there is no such file
    custody,    \* the kdf id in the identity's header
    keychain,   \* the one entry of the OS keychain
    minted,     \* keys made so far
    handle,     \* ChatState.client, by the key it was built with
    running,    \* the keys of the clients some task still holds
    cached,     \* the conversations in the registry of each of them
    pass,       \* the call of rekey_to under way
    torn,       \* history: files a pass moved before it ended early
    overtaken,  \* history: files a client sealed under a key the vault has left
    rotated,    \* history: a rotation of the vault's own keychain key ended early
    passes,
    accidents

custodyVars == <<sealed, custody, keychain, minted, handle, running, cached, pass, torn, overtaken,
                 rotated, passes, accidents>>

-----------------------------------------------------------------------------
NoKey == 0
NoSwitch == [at |-> "idle", todo |-> {}, old |-> NoKey, new |-> NoKey, to |-> "keychain"]
Fresh == minted + 1
Accident == accidents < MaxAccidents /\ accidents' = accidents + 1

\* resolve_master_key on an existing vault: the header decides.  A keychain without an
\* entry gets a new one.
Resolved ==
    IF custody = "passphrase" THEN sealed[Identity]
    ELSE IF keychain # NoKey THEN keychain ELSE Fresh

\* The keychain and the keys made, once it has resolved.
KeychainAfter == IF custody = "passphrase" THEN keychain ELSE Resolved
MintedAfter == IF KeychainAfter = Fresh THEN Fresh ELSE minted

\* The files a pass finds when it starts.
Listed == {f \in File : sealed[f] # NoKey}

\* rekey_store_files with the identity rewritten first.
DueIdentityFirst(f) == f \in pass.todo /\ (Identity \in pass.todo => f = Identity)

\* rekey_store_files: the listed files in the order of their names, which is left open,
\* and the identity after all of them.
Due(f) == f \in pass.todo /\ (f = Identity => pass.todo = {Identity})

-----------------------------------------------------------------------------
(* chat_rekey_vault and rekey_to. *)

\* A new passphrase: the fresh salt makes a new key.
BeginPassphrase ==
    /\ pass = NoSwitch /\ passes < MaxPasses /\ passes' = passes + 1
    /\ keychain' = KeychainAfter /\ minted' = MintedAfter + 1
    /\ pass' = [at |-> "files", to |-> "passphrase", old |-> Resolved, new |-> minted',
                todo |-> Listed]
    /\ UNCHANGED <<sealed, custody, handle, running, cached, torn, overtaken, rotated, accidents>>

\* No passphrase: rotate_keychain deletes the entry first, and ignores a failure to.
BeginKeychain ==
    /\ pass = NoSwitch /\ passes < MaxPasses /\ passes' = passes + 1
    /\ minted' = MintedAfter
    /\ \/ keychain' = NoKey /\ UNCHANGED accidents
       \/ keychain' = KeychainAfter /\ Accident
    /\ pass' = [NoSwitch EXCEPT !.at = "mint", !.old = Resolved]
    /\ UNCHANGED <<sealed, custody, handle, running, cached, torn, overtaken, rotated>>

\* Then resolve_keychain: the entry that is still there, or a new one.
MintsEntry ==
    /\ pass.at = "mint"
    /\ LET new == IF keychain # NoKey THEN keychain ELSE Fresh IN
       /\ keychain' = new /\ minted' = IF new = Fresh THEN Fresh ELSE minted
       /\ pass' = [pass EXCEPT !.at = "files", !.new = new, !.todo = Listed]
    /\ UNCHANGED <<sealed, custody, handle, running, cached, torn, overtaken, rotated, passes,
                   accidents>>

\* The conversations under the new key while the identity is not.
Moved == {f \in Conversation : sealed[f] = pass.new /\ pass.new # sealed[Identity]}

\* The pass ends before the identity: what it moved stays moved, and an entry it rotated
\* stays rotated.
EndsEarly ==
    /\ pass' = NoSwitch
    /\ torn' = IF pass.at = "files" THEN torn \cup Moved ELSE torn
    /\ rotated' = (rotated \/ (custody = "keychain" /\ keychain # sealed[Identity]))

\* rekey_fcv1_file and rekey_fedi_dir on the next file.
Reseal(f) ==
    /\ pass.at = "files" /\ Due(f)
    /\ sealed[f] \in {pass.old, pass.new}
    /\ sealed' = [sealed EXCEPT ![f] = pass.new]
    /\ overtaken' = overtaken \ {f} /\ torn' = torn \ {f}
    /\ custody' = IF f = Identity THEN pass.to ELSE custody
    /\ rotated' = (rotated /\ f # Identity)
    /\ pass' = [pass EXCEPT !.todo = @ \ {f}]
    /\ UNCHANGED <<keychain, minted, handle, running, cached, passes, accidents>>

\* A file that opens under neither key, or one that cannot be written, ends the pass; so
\* does a keystore that takes no new entry.
PassFails ==
    /\ \/ /\ pass.at = "files"
          /\ \E f \in File : Due(f) /\ sealed[f] \notin {pass.old, pass.new}
          /\ UNCHANGED accidents
       \/ pass.at = "files" /\ pass.todo # {} /\ Accident
       \/ pass.at = "mint" /\ keychain = NoKey /\ Accident
    /\ EndsEarly
    /\ UNCHANGED <<sealed, custody, keychain, minted, handle, running, cached, overtaken, passes>>

\* Success: the passphrase is stored and the client invalidated.  The tasks that hold a
\* clone of it are not stopped.
PassEnds ==
    /\ pass.at = "files" /\ pass.todo = {}
    /\ pass' = NoSwitch
    /\ handle' = NoKey
    /\ UNCHANGED <<sealed, custody, keychain, minted, running, cached, torn, overtaken, rotated,
                   passes, accidents>>

-----------------------------------------------------------------------------
(* The chat client. *)

\* ChatState.get: a client is built when there is none, and only on an identity that opens.
Build ==
    /\ handle = NoKey
    /\ keychain' = KeychainAfter /\ minted' = MintedAfter
    /\ IF Resolved = sealed[Identity]
       THEN handle' = Resolved /\ running' = running \cup {Resolved}
       ELSE UNCHANGED <<handle, running>>
    /\ UNCHANGED <<sealed, custody, cached, pass, torn, overtaken, rotated, passes, accidents>>

\* invalidate, for a reason of its own (a changed daemon, a closed stream, a setting).
Invalidate ==
    /\ handle # NoKey /\ handle' = NoKey
    /\ UNCHANGED <<sealed, custody, keychain, minted, running, cached, pass, torn, overtaken,
                   rotated, passes, accidents>>

\* The last task that holds a client lets it go.
Release(k) ==
    /\ k \in running \ {handle}
    /\ running' = running \ {k}
    /\ cached' = [cached EXCEPT ![k] = {}]
    /\ UNCHANGED <<sealed, custody, keychain, minted, handle, pass, torn, overtaken, rotated,
                   passes, accidents>>

\* A file under k will be read by the vault, or moved by the pass, as things stand.
InStep(k, f) ==
    IF pass.at # "files" THEN k = sealed[Identity]
    ELSE IF f \in pass.todo THEN k \in {pass.old, pass.new}
    ELSE k = pass.new

\* The registry of a client reads or writes a conversation: from its cache, from a file it
\* can open, or a new one.
Save(k, f) ==
    /\ k \in running
    /\ f \in cached[k] \/ sealed[f] \in {k, NoKey}
    /\ sealed' = [sealed EXCEPT ![f] = k]
    /\ cached' = [cached EXCEPT ![k] = @ \cup {f}]
    /\ overtaken' = IF InStep(k, f) THEN overtaken \ {f} ELSE overtaken \cup {f}
    /\ torn' = IF InStep(k, f) THEN torn \ {f} ELSE torn
    /\ UNCHANGED <<custody, keychain, minted, handle, running, pass, rotated, passes, accidents>>

\* The process dies.
Crash ==
    /\ Accident
    /\ handle' = NoKey /\ running' = {} /\ cached' = [k \in DOMAIN cached |-> {}]
    /\ IF pass = NoSwitch \/ (pass.at = "files" /\ pass.todo = {})
       THEN pass' = NoSwitch /\ UNCHANGED <<torn, rotated>>
       ELSE EndsEarly
    /\ UNCHANGED <<sealed, custody, keychain, minted, overtaken, passes>>

-----------------------------------------------------------------------------
MasterKey == 1..(2 * MaxPasses + 1)

\* A vault in either custody, all of it under the first key.
CustodyInit ==
    /\ \E absent \in SUBSET Conversation :
          sealed = [f \in File |-> IF f \in absent THEN NoKey ELSE 1]
    /\ custody \in {"keychain", "passphrase"}
    /\ keychain = IF custody = "keychain" THEN 1 ELSE NoKey
    /\ minted = 1
    /\ handle = NoKey /\ running = {} /\ cached = [k \in MasterKey |-> {}]
    /\ pass = NoSwitch
    /\ torn = {} /\ overtaken = {} /\ rotated = FALSE
    /\ passes = 0 /\ accidents = 0

CustodyNext ==
    \/ BeginPassphrase \/ BeginKeychain \/ MintsEntry \/ PassFails \/ PassEnds
    \/ Build \/ Invalidate \/ Crash
    \/ \E f \in File : Reseal(f)
    \/ \E k \in MasterKey : Release(k) \/ \E f \in Conversation : Save(k, f)

CustodySpec == CustodyInit /\ [][CustodyNext]_custodyVars

-----------------------------------------------------------------------------
\* Every variable holds a value of its kind.
CustodyTypeOK ==
    /\ sealed \in [File -> MasterKey \cup {NoKey}] /\ sealed[Identity] # NoKey
    /\ custody \in {"keychain", "passphrase"} /\ keychain \in MasterKey \cup {NoKey}
    /\ minted \in MasterKey /\ handle \in running \cup {NoKey} /\ running \subseteq MasterKey
    /\ cached \in [MasterKey -> SUBSET Conversation]
    /\ pass \in [at : {"idle", "mint", "files"}, to : {"keychain", "passphrase"}, todo : SUBSET File,
                old : MasterKey \cup {NoKey}, new : MasterKey \cup {NoKey}]
    /\ torn \subseteq Conversation /\ overtaken \subseteq Conversation /\ rotated \in BOOLEAN
    /\ passes \in 0..MaxPasses /\ accidents \in 0..MaxAccidents

\* Between switches the next start finds the key of the identity, and every listed file
\* opens under it, whatever died or failed, with three exceptions: a file an interrupted
\* pass had moved, a file a client sealed behind the pass (chat_rekey_vault stops no
\* client), and a keychain rotation that ended early (rekey.rs, "the old key is gone").
VaultStaysReadable ==
    pass = NoSwitch =>
        /\ custody = "keychain" => rotated \/ keychain = sealed[Identity]
        /\ \A f \in Conversation :
              sealed[f] \in {NoKey, sealed[Identity]} \/ f \in torn \cup overtaken
=============================================================================
