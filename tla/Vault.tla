-------------------------------- MODULE Vault --------------------------------
(***************************************************************************)
(* The passwords of the portal accounts: the vault (vault.py), the proxy   *)
(* that types them into the browser (secret_proxy.py), one per apply run,  *)
(* and the human's `honestapply accounts rotate' and `delete'.             *)
(*                                                                         *)
(* The secret store is the keyring of the OS, which sets one password at a *)
(* time, or an encrypted file, which is loaded, changed and written whole, *)
(* without a lock.  The index file names the sites, and is written whole   *)
(* too, from what was read before.  Writing a file empties it first: until *)
(* it is written again, the store raises and the index reads as empty.     *)
(* Any process may die between two steps, and the vault may raise.         *)
(* Passwords are numbers, each generated once.                             *)
(***************************************************************************)
EXTENDS Naturals, FiniteSets

CONSTANTS Sites,         \* portals, by normalize_site
          Clients,       \* processes that open the vault: proxies and commands
          MaxPasswords,  \* bound: passwords generated
          MaxEdits       \* bound: rotations and deletions by the human

ASSUME VaultAssumption == Sites # {} /\ {MaxPasswords, MaxEdits} \subseteq Nat

VARIABLES backend,    \* "keyring" or "file"
          stored,     \* the secret store: stored[s], 0 if there is none
          torn,       \* the store's file is emptied or garbled
          index,      \* vault_index.json: the sites named, as it reads
          account,    \* the portals: the password account[s] opens with, 0 if
                      \* there is no account yet
          generated,  \* passwords generated so far
          client,     \* client[c]: where the process c is
          edits,      \* what MaxEdits bounds, so far
          excused     \* history: the sites whose password may be lost

vaultVars == <<backend, stored, torn, index, account, generated, client, edits, excused>>

\* What the agent's placeholder is typed as when the proxy has no secret.
Placeholder == MaxPasswords + 1

Empty == [s \in Sites |-> 0]

\* What a process is there for, what it read of the index and of the store's file,
\* and the password that its proxy types.
At(place, op, site) == [at |-> place, op |-> op, site |-> site, names |-> {},
                        map |-> Empty, secret |-> 0]
Off == At("off", "ensure", CHOOSE s \in Sites : TRUE)

VaultInit ==
    /\ backend \in {"keyring", "file"}
    /\ stored = Empty /\ torn = FALSE
    /\ index = {}
    /\ account = Empty
    /\ generated = 0
    /\ client = [c \in Clients |-> Off]
    /\ edits = 0
    /\ excused = {}

\* The processes that have not stored the password yet that they are to make, or
\* that have loaded the file and not written it yet.
Ensuring == {"ensure", "look", "store", "save", "saving"}
Loaded == {"save", "saving"}

\* The proxy of a run of apply starts.  Two may be for one site, when two runs
\* overlap; a site is excused if the second starts before the first has stored
\* its password.
StartProxy(c, s) ==
    /\ client[c].at = "off"
    /\ client' = [client EXCEPT ![c] = At("ensure", "ensure", s)]
    /\ excused' = IF \E d \in Clients : client[d].site = s /\ client[d].at \in Ensuring
                  THEN excused \union {s} ELSE excused
    /\ UNCHANGED <<backend, stored, torn, index, account, generated, edits>>

\* accounts rotate and accounts delete; the account may not open any more.
Command(c, op, s) ==
    /\ client[c].at = "off" /\ edits < MaxEdits
    /\ client' = [client EXCEPT ![c] = At("look", op, s)]
    /\ edits' = edits + 1
    /\ excused' = excused \union {s}
    /\ UNCHANGED <<backend, stored, torn, index, account, generated>>

\* _read_index: ensure_password reads it first, to name the site; rotate and
\* delete last, and only if it names the site.
ReadsIndex(c) ==
    LET r == client[c] IN
    /\ \/ /\ r.at = "ensure"
          /\ client' = [client EXCEPT ![c].at = "look", ![c].names = index]
       \/ /\ r.at = "index"
          /\ client' = [client EXCEPT
                ![c] = IF r.site \notin index THEN Off
                       ELSE [r EXCEPT !.at = "name",
                                      !.names = IF r.op = "delete" THEN index \ {r.site}
                                                ELSE index]]
    /\ UNCHANGED <<backend, stored, torn, index, account, generated, edits, excused>>

\* Mutated form of Looks: a new password for every run.
Looks_Always(c) ==
    /\ client[c].at = "look" /\ ~ torn
    /\ client' = [client EXCEPT ![c].at = "store"]
    /\ UNCHANGED <<backend, stored, torn, index, account, generated, edits, excused>>

\* has_password: ensure_password makes none if there is one, rotate none if there
\* is none; delete goes on all the same.
Looks(c) ==
    LET r == client[c]
        there == stored[r.site] # 0
    IN
    /\ r.at = "look" /\ ~ torn
    /\ client' = [client EXCEPT
          ![c] = IF r.op = "rotate" /\ ~ there THEN Off
                 ELSE [r EXCEPT !.at = IF r.op = "ensure" /\ there THEN "name" ELSE "store"]]
    /\ UNCHANGED <<backend, stored, torn, index, account, generated, edits, excused>>

\* Where a process goes on with the index.
HasStored(r) == [r EXCEPT !.at = IF r.op = "ensure" THEN "name" ELSE "index", !.map = Empty]

\* The backend's set or delete, of a password that is generated first.  The keyring
\* does it at once; of the file, this is _load, and the change to what it loaded (the
\* file is not saved if there is nothing to delete).  Two processes that have loaded
\* the file undo each other's change.
Stores(c) ==
    LET r == client[c]
        changed == [stored EXCEPT ![r.site] = IF r.op = "delete" THEN 0 ELSE generated + 1]
        others == {d \in Clients : client[d].at \in Loaded}
    IN
    /\ r.at = "store" /\ ~ torn
    /\ IF r.op = "delete" THEN UNCHANGED generated
       ELSE generated < MaxPasswords /\ generated' = generated + 1
    /\ \/ /\ backend = "keyring" \/ changed = stored
          /\ stored' = changed
          /\ client' = [client EXCEPT ![c] = HasStored(r)]
          /\ UNCHANGED excused
       \/ /\ backend = "file" /\ changed # stored
          /\ client' = [client EXCEPT ![c].at = "save", ![c].map = changed]
          /\ excused' = IF others = {} THEN excused
                        ELSE excused \union {r.site} \union {client[d].site : d \in others}
          /\ UNCHANGED stored
    /\ UNCHANGED <<backend, torn, index, account, edits>>

\* _save empties the file ...
Saves(c) ==
    /\ client[c].at = "save"
    /\ torn' = TRUE
    /\ client' = [client EXCEPT ![c].at = "saving"]
    /\ UNCHANGED <<backend, stored, index, account, generated, edits, excused>>

\* ... and writes it; over what another process wrote meanwhile, it may be garbled.
Saved(c) ==
    /\ client[c].at = "saving"
    /\ stored' = client[c].map
    /\ \/ torn' = FALSE /\ UNCHANGED excused
       \/ ~ torn /\ torn' = TRUE /\ excused' = Sites
    /\ client' = [client EXCEPT ![c] = HasStored(@)]
    /\ UNCHANGED <<backend, index, account, generated, edits>>

\* _write_index empties the file ...
Names(c) ==
    /\ client[c].at = "name"
    /\ index' = {}
    /\ client' = [client EXCEPT ![c].at = "naming"]
    /\ UNCHANGED <<backend, stored, torn, account, generated, edits, excused>>

\* ... and writes what it named when it was read, with the site if it is ensured.
Named(c) ==
    LET r == client[c] IN
    /\ r.at = "naming"
    /\ \/ index' = IF r.op = "ensure" THEN r.names \union {r.site} ELSE r.names
       \/ index # {} /\ index' = {}
    /\ client' = [client EXCEPT ![c] = IF r.op = "ensure" THEN At("peek", r.op, r.site)
                                       ELSE Off]
    /\ UNCHANGED <<backend, stored, torn, account, generated, edits, excused>>

\* _load_secret: what the proxy types from now on.
Peek(c) ==
    /\ client[c].at = "peek" /\ ~ torn
    /\ client' = [client EXCEPT ![c].at = "relay", ![c].secret = stored[client[c].site]]
    /\ UNCHANGED <<backend, stored, torn, index, account, generated, edits, excused>>

\* What is emptied when a process ends in the middle of a write stays so.
Abandons(c) ==
    /\ excused' = IF client[c].at = "saving" THEN Sites ELSE excused
    /\ UNCHANGED <<backend, stored, torn, index, account, generated, edits>>

\* The vault raises: the proxy passes everything through, a command ends.
Refuses(c) ==
    /\ client[c].at \notin {"off", "relay"}
    /\ client' = [client EXCEPT ![c] = IF @.op = "ensure" THEN At("relay", @.op, @.site)
                                       ELSE Off]
    /\ Abandons(c)

\* The proxy ends with its run; a process dies at any point.
Stops(c) ==
    /\ client[c].at # "off"
    /\ client' = [client EXCEPT ![c] = Off]
    /\ Abandons(c)

\* substitute_outgoing: what the browser gets for the placeholder.
Typed(c) == IF client[c].secret = 0 THEN Placeholder ELSE client[c].secret

\* The agent signs up at a site that has no account yet.
SignUp(c) ==
    LET s == client[c].site IN
    /\ client[c].at = "relay" /\ account[s] = 0
    /\ account' = [account EXCEPT ![s] = Typed(c)]
    /\ excused' = IF client[c].secret = 0 THEN excused \union {s} ELSE excused
    /\ UNCHANGED <<backend, stored, torn, index, generated, client, edits>>

ClientStep(c) ==
    \/ \E s \in Sites : StartProxy(c, s) \/ \E op \in {"rotate", "delete"} : Command(c, op, s)
    \/ ReadsIndex(c) \/ Looks(c) \/ Stores(c) \/ Saves(c) \/ Saved(c) \/ Names(c) \/ Named(c)
    \/ Peek(c) \/ Refuses(c) \/ Stops(c) \/ SignUp(c)

VaultNext == \E c \in Clients : ClientStep(c)

VaultSpec == VaultInit /\ [][VaultNext]_vaultVars

-----------------------------------------------------------------------------
VaultTypeOK ==
    /\ backend \in {"keyring", "file"}
    /\ stored \in [Sites -> 0..MaxPasswords]
    /\ torn \in BOOLEAN
    /\ index \subseteq Sites
    /\ account \in [Sites -> 0..Placeholder]
    /\ generated \in 0..MaxPasswords
    /\ client \in [Clients ->
          [at : Ensuring \union {"off", "index", "name", "naming", "peek", "relay"},
           op : {"ensure", "rotate", "delete"}, site : Sites, names : SUBSET Sites,
           map : [Sites -> 0..MaxPasswords], secret : 0..MaxPasswords]]
    /\ edits \in 0..MaxEdits
    /\ excused \subseteq Sites

\* An account opens with the password the vault has for its site, run after run, and
\* the vault can be read or is just being written, however runs and commands about
\* other sites come in between and die: as long as the vault did not refuse, no two
\* runs made the first password of the site at once, the human left it alone, and in
\* the file no two changes overlapped and no write was cut off.
AccountsOpen ==
    \A s \in Sites : account[s] # 0 /\ s \notin excused =>
        /\ stored[s] = account[s]
        /\ torn => \E c \in Clients : client[c].at = "saving"

\* Every site the index names has a password, or its password may be lost.
NamedHavePasswords == \A s \in index : stored[s] # 0 \/ s \in excused

\* The vault is as good for a second application as for the first.
VaultHolds == AccountsOpen /\ NamedHavePasswords
=============================================================================
