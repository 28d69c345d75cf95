---------------------------- MODULE Certificates ----------------------------
(***************************************************************************)
(* TLS certificates, from their issue to where they are served.  The       *)
(* request handler and the renewal loop obtain a certificate by a DNS-01   *)
(* challenge and write it into the domain's directory, file by file and    *)
(* without a lock; a watcher of the directory debounces its events, reads  *)
(* the files back and publishes a bundle; every proxy takes the pairs that *)
(* are valid, the UI the one for its own name.                             *)
(*                                                                         *)
(* Source: certs.rs, cert_renewal.rs, cert/authority.rs,                   *)
(* http_server/certificates.rs, http_server/tls.rs, watch_certificates in  *)
(* nullnet_grpc_impl.rs and in the proxy's main.rs, the proxy's tls.rs.    *)
(* An issue has a number; its chain and its key carry it, so a pair is     *)
(* valid when the two numbers agree.  Expiry is left out: whether the      *)
(* renewal finds a certificate due is open.                                *)
(***************************************************************************)
EXTENDS Naturals, Sequences

CONSTANTS CtDomains,
          CtUiNames,      \* the names that match the UI's host, the exact one first
          CtHandlers,     \* request handlers at work at a time
          CtMaxIssues,    \* bound: certificates asked for or dropped in by hand
          CtMaxDeletes,   \* bound: deletes
          CtMaxFaults     \* bound: failed steps, dropped handlers, restarts

ASSUME CtAssumption == CtUiNames \in Seq(CtDomains)

VARIABLES
    ctDisk,      \* domain -> the files of its directory; 0 is no file
    ctTask,      \* the handlers and the renewal: step, domain, issue
    ctDelete,    \* the delete handler: its domain and the files left to unlink
    ctIssued,
    ctDeletes,
    ctTxt,       \* issues whose TXT record stands at the DNS provider
    ctWatch,     \* the watcher: step, domains left to read, pairs read, domain in hand
    ctPending,   \* file events the watcher has not received
    ctBundle,    \* the published bundle: domain -> pair
    ctUnseen,    \* the receivers of the watch channel have not taken it
    ctProxy,     \* the proxy's CertStore: domain -> pair
    ctUi,        \* the pair the UI serves; NoPair is the self-signed one
    ctFaults,
    ctTorn,      \* history: domains whose write was interrupted or overlapped
    ctHit,       \* history: domains whose delete overlapped with a write or was cut short
    ctLeak,      \* history: issues whose cleanup was never reached or failed
    ctMissed     \* history: an event of a change not yet read was debounced away

ctVars == <<ctDisk, ctTask, ctDelete, ctIssued, ctDeletes, ctTxt, ctWatch, ctPending, ctBundle, ctUnseen,
            ctProxy, ctUi, ctFaults, ctTorn, ctHit, ctLeak, ctMissed>>
filesVars == <<ctDisk, ctPending>>
issueVars == <<ctTask, ctIssued, ctTxt, ctLeak>>
feedVars == <<ctWatch, ctBundle, ctUnseen, ctMissed>>
servedVars == <<ctProxy, ctUi, ctDeletes>>
blameVars == <<ctTorn, ctHit>>

Renewal == "renewal"
CtTasks == CtHandlers \cup {Renewal}
NoPair == [chain |-> 0, key |-> 0]
NoFiles == [dir |-> FALSE, chain |-> 0, key |-> 0, plain |-> 0, creds |-> FALSE]
CtIdle == [pc |-> "idle", d |-> CHOOSE d \in CtDomains : TRUE, n |-> 0]
NoDelete == [d |-> CHOOSE d \in CtDomains : TRUE, left |-> {}, on |-> FALSE]

Writing(d) == {t \in CtTasks : ctTask[t].pc = "key" /\ ctTask[t].d = d}
Deleting(d) == ctDelete.on /\ ctDelete.d = d

\* load_or_migrate_key prefers the encrypted key.
KeyOf(files) == IF files.key # 0 THEN files.key ELSE files.plain

\* load_certificates, on a directory that stands still.
LoadCertificates(disk) ==
    [d \in CtDomains |->
        IF disk[d].chain = 0 \/ KeyOf(disk[d]) = 0 THEN NoPair
        ELSE [chain |-> disk[d].chain, key |-> KeyOf(disk[d])]]

\* Certificate::new: the key matches the leaf.
ValidPair(pair) == pair.chain # 0 /\ pair.chain = pair.key

\* CertStore::from_bundle: the pairs that are valid; the others are reported.
AllOrNothingStore(bundle) ==
    IF \A d \in CtDomains : bundle[d] = NoPair \/ ValidPair(bundle[d]) THEN bundle ELSE ctProxy

StoreFromBundle(bundle) ==
    [d \in CtDomains |-> IF ValidPair(bundle[d]) THEN bundle[d] ELSE NoPair]

\* select: the exact name, or else the wildcard, whatever its pair is worth.
SelectForUi(bundle) ==
    LET held == {i \in DOMAIN CtUiNames : bundle[CtUiNames[i]] # NoPair}
    IN  IF held = {} THEN NoPair ELSE bundle[CtUiNames[CHOOSE i \in held : \A j \in held : i <= j]]

\* ManagedTls::update: without a usable pair the one in memory stays.
UiAfter(bundle, active) ==
    LET pair == SelectForUi(bundle) IN IF ValidPair(pair) THEN pair ELSE active

CtFault == ctFaults < CtMaxFaults /\ ctFaults' = ctFaults + 1
ChangeFiles(disk) == ctDisk' = disk /\ ctPending' = TRUE
Step(t, pc) == ctTask' = [ctTask EXCEPT ![t].pc = pc]
EndTask(t) == ctTask' = [ctTask EXCEPT ![t] = CtIdle]

CertificatesInit ==
    /\ ctDisk = [d \in CtDomains |-> NoFiles]
    /\ ctTask = [t \in CtTasks |-> CtIdle]
    /\ ctDelete = NoDelete
    /\ ctIssued = 0
    /\ ctDeletes = 0
    /\ ctTxt = {}
    /\ ctWatch = [pc |-> "ready", todo |-> {}, got |-> [d \in CtDomains |-> NoPair],
                  d |-> CHOOSE d \in CtDomains : TRUE, chain |-> 0, files |-> NoFiles]
    /\ ctPending = FALSE
    /\ ctBundle = [d \in CtDomains |-> NoPair]
    /\ ctUnseen = FALSE
    /\ ctProxy = [d \in CtDomains |-> NoPair]
    /\ ctUi = NoPair
    /\ ctFaults = 0
    /\ ctTorn = {}
    /\ ctHit = {}
    /\ ctLeak = {}
    /\ ctMissed = FALSE

-----------------------------------------------------------------------------
(* Issuing: request_certificate, for a request or for the renewal *)

\* acme_account, acme_order, and in dns_challenge the TXT record; where one of
\* them fails nothing is left behind.  Then the record is given time to spread.
StartIssue(t, d) ==
    /\ ctTask[t].pc = "idle"
    /\ ctIssued < CtMaxIssues
    /\ ctIssued' = ctIssued + 1
    /\ ctTask' = [ctTask EXCEPT ![t] = [pc |-> "txt", d |-> d, n |-> ctIssued + 1]]
    /\ ctTxt' = ctTxt \cup {ctIssued + 1}
    /\ UNCHANGED <<filesVars, ctDelete, ctLeak, feedVars, servedVars, ctFaults, blameVars>>

\* request_handler: the domain is well formed and the provider known.
RequestCertificate(t, d) == t # Renewal /\ StartIssue(t, d)

\* cert_domains, load_dns_credentials, read_expiry: the domain has a directory,
\* stored credentials and a readable certificate.
Renewable(d) == ctDisk[d].dir /\ ctDisk[d].creds /\ ctDisk[d].chain # 0

\* run_pass: one domain after the other; one that is not due is skipped.
RenewalScan(d) == Renewable(d) /\ StartIssue(Renewal, d)

\* set_ready fails, and the error returns past the cleanup.
SetReadyFails(t) ==
    /\ ctTask[t].pc = "txt"
    /\ CtFault
    /\ EndTask(t)
    /\ ctLeak' = ctLeak \cup {ctTask[t].n}
    /\ UNCHANGED <<filesVars, ctDelete, ctIssued, ctTxt, feedVars, servedVars, blameVars>>

\* set_ready, finalize_order, then cleanup_records, which is best effort; the
\* result of the order is looked at after the cleanup.
FinalizeReturnsEarly(t) ==
    /\ ctTask[t].pc = "txt"
    /\ \/ ctTxt' = ctTxt \ {ctTask[t].n} /\ Step(t, "chain") /\ UNCHANGED ctFaults
       \/ EndTask(t) /\ CtFault /\ UNCHANGED ctTxt
    /\ UNCHANGED <<filesVars, ctDelete, ctIssued, ctLeak, feedVars, servedVars, blameVars>>

FinalizeOrder(t) ==
    /\ ctTask[t].pc = "txt"
    /\ \/ /\ ctTxt' = ctTxt \ {ctTask[t].n}
          /\ \/ Step(t, "chain") /\ UNCHANGED ctFaults
             \/ EndTask(t) /\ CtFault
          /\ UNCHANGED ctLeak
       \/ /\ ctLeak' = ctLeak \cup {ctTask[t].n}
          /\ Step(t, "chain") \/ EndTask(t)
          /\ CtFault /\ UNCHANGED ctTxt
    /\ UNCHANGED <<filesVars, ctDelete, ctIssued, feedVars, servedVars, blameVars>>

-----------------------------------------------------------------------------
(* Writing: write_cert, store_dns_credentials *)

\* write_cert: create_dir_all, then the chain.
WriteChain(t) ==
    LET d == ctTask[t].d
        clean == Writing(d) = {} /\ ~(ctWatch.pc = "migrate" /\ ctWatch.d = d)
    IN  /\ ctTask[t].pc = "chain"
        /\ ChangeFiles([ctDisk EXCEPT ![d].dir = TRUE, ![d].chain = ctTask[t].n])
        /\ Step(t, "key")
        /\ ctTorn' = IF clean THEN ctTorn \ {d} ELSE ctTorn \cup {d}
        /\ ctHit' = IF Deleting(d) THEN ctHit \cup {d} ELSE ctHit \ {d}
        /\ UNCHANGED <<ctDelete, ctIssued, ctTxt, ctLeak, feedVars, servedVars, ctFaults>>

\* write_cert: the key, and no stale plaintext key.  The request goes on to
\* the credentials, the renewal is done.
WriteKeyOnce(t) ==
    LET d == ctTask[t].d
    IN  /\ ctTask[t].pc = "key" /\ ctDisk[d].dir
        /\ ChangeFiles([ctDisk EXCEPT ![d].key = IF @ = 0 THEN ctTask[t].n ELSE @, ![d].plain = 0])
        /\ IF t = Renewal THEN EndTask(t) ELSE Step(t, "creds")
        /\ UNCHANGED <<ctDelete, ctIssued, ctTxt, ctLeak, feedVars, servedVars, ctFaults, blameVars>>

WriteKey(t) ==
    LET d == ctTask[t].d
    IN  /\ ctTask[t].pc = "key" /\ ctDisk[d].dir
        /\ ChangeFiles([ctDisk EXCEPT ![d].key = ctTask[t].n, ![d].plain = 0])
        /\ IF t = Renewal THEN EndTask(t) ELSE Step(t, "creds")
        /\ UNCHANGED <<ctDelete, ctIssued, ctTxt, ctLeak, feedVars, servedVars, ctFaults, blameVars>>

\* A write fails: the disk, or the directory is gone.  persist_cert answers
\* an error and the credentials are not stored.
StoreAnyway(t) ==
    /\ ctTask[t].pc \in {"chain", "key"}
    /\ IF ctTask[t].pc = "key" /\ ~ctDisk[ctTask[t].d].dir THEN UNCHANGED ctFaults ELSE CtFault
    /\ IF t = Renewal THEN EndTask(t) ELSE Step(t, "creds")
    /\ ctTorn' = IF ctTask[t].pc = "key" THEN ctTorn \cup {ctTask[t].d} ELSE ctTorn
    /\ UNCHANGED <<filesVars, ctDelete, ctIssued, ctTxt, ctLeak, feedVars, servedVars, ctHit>>

WriteFails(t) ==
    /\ ctTask[t].pc \in {"chain", "key"}
    /\ IF ctTask[t].pc = "key" /\ ~ctDisk[ctTask[t].d].dir THEN UNCHANGED ctFaults ELSE CtFault
    /\ EndTask(t)
    /\ ctTorn' = IF ctTask[t].pc = "key" THEN ctTorn \cup {ctTask[t].d} ELSE ctTorn
    /\ UNCHANGED <<filesVars, ctDelete, ctIssued, ctTxt, ctLeak, feedVars, servedVars, ctHit>>

\* store_dns_credentials makes the directory if it has to; its failure is only
\* an event.
StoreDnsCredentials(t) ==
    LET d == ctTask[t].d
    IN  /\ ctTask[t].pc = "creds"
        /\ EndTask(t)
        /\ \/ /\ ChangeFiles([ctDisk EXCEPT ![d].dir = TRUE, ![d].creds = TRUE])
              /\ ctHit' = IF Deleting(d) THEN ctHit \cup {d} ELSE ctHit
              /\ UNCHANGED ctFaults
           \/ CtFault /\ UNCHANGED <<filesVars, ctHit>>
        /\ UNCHANGED <<ctDelete, ctIssued, ctTxt, ctLeak, feedVars, servedVars, ctTorn>>

\* The operator's connection closes and the handler is dropped where it waits.
HandlerDropped(t) ==
    /\ t # Renewal /\ ctTask[t].pc # "idle"
    /\ CtFault
    /\ EndTask(t)
    /\ ctTorn' = IF ctTask[t].pc = "key" THEN ctTorn \cup {ctTask[t].d} ELSE ctTorn
    /\ ctLeak' = ctLeak \cup (ctTxt \cap {ctTask[t].n})
    /\ UNCHANGED <<filesVars, ctDelete, ctIssued, ctTxt, feedVars, servedVars, ctHit>>

\* A chain and a plaintext key put into the directory by hand.
FileDrop(d) ==
    /\ ctIssued < CtMaxIssues
    /\ ctIssued' = ctIssued + 1
    /\ ctDisk[d].key = 0
    /\ ChangeFiles([ctDisk EXCEPT ![d].dir = TRUE, ![d].chain = ctIssued + 1,
                                  ![d].plain = ctIssued + 1])
    /\ ctTorn' = IF Writing(d) = {} THEN ctTorn ELSE ctTorn \cup {d}
    /\ UNCHANGED <<ctTask, ctDelete, ctTxt, ctLeak, feedVars, servedVars, ctFaults, ctHit>>

\* delete_handler: remove_dir_all lists the directory, unlinks file by file
\* and removes the directory, which fails when a file is back.
DeleteCertificate(d) ==
    /\ ~ctDelete.on /\ ctDisk[d].dir
    /\ ctDeletes < CtMaxDeletes /\ ctDeletes' = ctDeletes + 1
    /\ ctDelete' = [d |-> d, on |-> TRUE,
                    left |-> {f \in {"chain", "key", "plain"} : ctDisk[d][f] # 0}
                             \cup {f \in {"creds"} : ctDisk[d][f]}]
    /\ ctHit' = IF \E t \in CtTasks : ctTask[t].pc \in {"key", "creds"} /\ ctTask[t].d = d
                THEN ctHit \cup {d} ELSE ctHit
    /\ UNCHANGED <<filesVars, issueVars, feedVars, ctProxy, ctUi, ctFaults, ctTorn>>

UnlinkFile ==
    /\ ctDelete.on
    /\ \E f \in ctDelete.left :
          /\ ctDelete' = [ctDelete EXCEPT !.left = @ \ {f}]
          /\ ChangeFiles([ctDisk EXCEPT ![ctDelete.d][f] = IF f = "creds" THEN FALSE ELSE 0])
    /\ UNCHANGED <<issueVars, feedVars, servedVars, ctFaults, blameVars>>

RemoveDir ==
    LET d == ctDelete.d
    IN  /\ ctDelete.on /\ ctDelete.left = {}
        /\ ctDelete' = NoDelete
        /\ IF [ctDisk[d] EXCEPT !.dir = FALSE] = NoFiles
           THEN ChangeFiles([ctDisk EXCEPT ![d] = NoFiles]) ELSE UNCHANGED filesVars
        /\ UNCHANGED <<issueVars, feedVars, servedVars, ctFaults, blameVars>>

-----------------------------------------------------------------------------
(* The watcher *)

\* An event outside the debounce window, and 100 ms later load_certificates lists
\* the directories.  A write raises several events and more writes may come in
\* the meantime, so others may be queued.
ReceiveEvent ==
    /\ ctWatch.pc = "ready" /\ ctPending
    /\ ctPending' \in BOOLEAN
    /\ ctWatch' = [ctWatch EXCEPT !.pc = "load", !.todo = {d \in CtDomains : ctDisk[d].dir}]
    /\ UNCHANGED <<ctDisk, ctDelete, issueVars, ctBundle, ctUnseen, ctMissed, servedVars, ctFaults, blameVars>>

\* The chain of the next directory; without one the directory is skipped.
ReadChain(d) ==
    /\ ctWatch.pc = "load" /\ d \in ctWatch.todo
    /\ ctWatch' = [ctWatch EXCEPT !.pc = IF ctDisk[d].chain = 0 THEN "load" ELSE "read_key",
                                  !.todo = @ \ {d}, !.d = d, !.chain = ctDisk[d].chain]
    /\ UNCHANGED <<filesVars, ctDelete, issueVars, ctBundle, ctUnseen, ctMissed, servedVars, ctFaults, blameVars>>

\* load_or_migrate_key: the encrypted key, else the plaintext one, else the
\* directory is skipped.
ReadKey ==
    LET d == ctWatch.d
        pair == [chain |-> ctWatch.chain, key |-> ctDisk[d].key]
    IN  /\ ctWatch.pc = "read_key"
        /\ ctWatch' = IF ctDisk[d].key # 0
                      THEN [ctWatch EXCEPT !.pc = "load", !.got[d] = pair]
                      ELSE IF ctDisk[d].plain # 0
                      THEN [ctWatch EXCEPT !.pc = "migrate", !.files = ctDisk[d]]
                      ELSE [ctWatch EXCEPT !.pc = "load"]
        /\ UNCHANGED <<filesVars, ctDelete, issueVars, ctBundle, ctUnseen, ctMissed, servedVars, ctFaults, blameVars>>

\* load_or_migrate_key: the key is written encrypted and the plaintext removed;
\* without the directory the key is still returned.
MigrateKey ==
    LET d == ctWatch.d
        key == ctWatch.files.plain
    IN  /\ ctWatch.pc = "migrate"
        /\ ctWatch' = [ctWatch EXCEPT !.pc = "load", !.files = NoFiles,
                                      !.got[d] = [chain |-> ctWatch.chain, key |-> key]]
        /\ IF ctDisk[d].dir
           THEN ChangeFiles([ctDisk EXCEPT ![d].key = key, ![d].plain = 0]) ELSE UNCHANGED filesVars
        /\ ctTorn' = IF ctDisk[d] = ctWatch.files THEN ctTorn ELSE ctTorn \cup {d}
        /\ UNCHANGED <<ctDelete, issueVars, ctBundle, ctUnseen, ctMissed, servedVars, ctFaults, ctHit>>

\* certs_tx.send; the debounce window opens.
PublishAndDrain ==
    /\ ctWatch.pc = "load" /\ ctWatch.todo = {}
    /\ ctBundle' = ctWatch.got
    /\ ctUnseen' = TRUE
    /\ ctWatch' = [ctWatch EXCEPT !.pc = "quiet", !.got = [d \in CtDomains |-> NoPair]]
    /\ ctMissed' = FALSE
    /\ ctPending' = FALSE
    /\ UNCHANGED <<ctDisk, ctDelete, issueVars, servedVars, ctFaults, blameVars>>

Publish ==
    /\ ctWatch.pc = "load" /\ ctWatch.todo = {}
    /\ ctBundle' = ctWatch.got
    /\ ctUnseen' = TRUE
    /\ ctWatch' = [ctWatch EXCEPT !.pc = "quiet", !.got = [d \in CtDomains |-> NoPair]]
    /\ ctMissed' = FALSE
    /\ UNCHANGED <<filesVars, ctDelete, issueVars, servedVars, ctFaults, blameVars>>

\* Events received within the window are ignored.
DebounceEvents ==
    /\ ctWatch.pc = "quiet" /\ ctPending
    /\ ctPending' = FALSE
    /\ ctMissed' = (ctMissed \/ ctBundle # LoadCertificates(ctDisk))
    /\ UNCHANGED <<ctDisk, ctDelete, issueVars, ctWatch, ctBundle, ctUnseen, servedVars, ctFaults, blameVars>>

WindowEnds ==
    /\ ctWatch.pc = "quiet"
    /\ ctWatch' = [ctWatch EXCEPT !.pc = "ready"]
    /\ UNCHANGED <<filesVars, ctDelete, issueVars, ctBundle, ctUnseen, ctMissed, servedVars, ctFaults, blameVars>>

-----------------------------------------------------------------------------
(* Serving *)

\* watch_certificates of the server sends a snapshot per change, that of the
\* proxy swaps its store as a whole; the UI has a task of its own.  Neither
\* touches what the other does and snapshots arrive in order, so one step
\* stands for both and for the latest.
ReceiversTake ==
    /\ ctUnseen
    /\ ctUnseen' = FALSE
    /\ ctProxy' = StoreFromBundle(ctBundle)
    /\ ctUi' = UiAfter(ctBundle, ctUi)
    /\ UNCHANGED <<filesVars, ctDelete, ctDeletes, issueVars, ctWatch, ctBundle, ctMissed, ctFaults, blameVars>>

\* The stream breaks: the proxy exits, is started again and subscribes anew.
ProxyRestarts ==
    /\ CtFault
    /\ ctProxy' = [d \in CtDomains |-> NoPair]
    /\ ctUnseen' = TRUE
    /\ UNCHANGED <<filesVars, ctDelete, ctDeletes, issueVars, ctWatch, ctBundle, ctMissed, ctUi, blameVars>>

\* The server stops, with everything that was under way, and starts: it loads
\* and migrates what it finds before it watches; proxies exit with its stream.
CertServerRestarts ==
    LET disk == [d \in CtDomains |->
                    IF ctDisk[d].chain # 0 /\ ctDisk[d].key = 0
                    THEN [ctDisk[d] EXCEPT !.key = ctDisk[d].plain, !.plain = 0] ELSE ctDisk[d]]
    IN  /\ CtFault
        /\ ctDisk' = disk
        /\ ctPending' = FALSE
        /\ ctTask' = [t \in CtTasks |-> CtIdle]
        /\ ctDelete' = NoDelete
        /\ ctLeak' = ctLeak \cup ctTxt
        /\ ctTorn' = ctTorn \cup {d \in CtDomains : Writing(d) # {}}
        /\ ctWatch' = [ctWatch EXCEPT !.pc = "ready", !.todo = {}, !.files = NoFiles,
                                      !.got = [d \in CtDomains |-> NoPair]]
        /\ ctBundle' = LoadCertificates(disk)
        /\ ctUi' = UiAfter(ctBundle', NoPair)
        /\ ctProxy' = [d \in CtDomains |-> NoPair]
        /\ ctUnseen' = TRUE
        /\ ctMissed' = FALSE
        /\ ctHit' = ctHit \cup {d \in CtDomains : Deleting(d)}
        /\ UNCHANGED <<ctIssued, ctDeletes, ctTxt>>

CertificatesNext ==
    \/ \E t \in CtTasks, d \in CtDomains : RequestCertificate(t, d)
    \/ \E d \in CtDomains : RenewalScan(d) \/ FileDrop(d) \/ DeleteCertificate(d) \/ ReadChain(d)
    \/ \E t \in CtTasks :
          \/ SetReadyFails(t) \/ FinalizeOrder(t)
          \/ WriteChain(t) \/ WriteKey(t) \/ WriteFails(t)
          \/ StoreDnsCredentials(t) \/ HandlerDropped(t)
    \/ UnlinkFile \/ RemoveDir
    \/ ReceiveEvent \/ ReadKey \/ MigrateKey \/ Publish \/ DebounceEvents \/ WindowEnds
    \/ ReceiversTake \/ ProxyRestarts \/ CertServerRestarts

CertificatesSpec == CertificatesInit /\ [][CertificatesNext]_ctVars

-----------------------------------------------------------------------------
(* What makes it correct *)

\* Once the watcher has nothing left to do, the published bundle is what the
\* directory holds, unless the event of a change it had not read fell into the
\* debounce window (certs.rs, watch): a change while it reads is read later.
PublishedUnlessMissed ==
    ctWatch.pc \in {"ready", "quiet"} /\ ~ctPending =>
        ctMissed \/ ctBundle = LoadCertificates(ctDisk)

\* With no write under way the chain and the key of a directory belong together,
\* unless a write of it was interrupted or two overlapped (write_cert,
\* load_or_migrate_key): deleting and migrating tear no pair.
PairOnDisk ==
    \A d \in CtDomains :
        LET files == ctDisk[d]
        IN  files.chain # 0 /\ KeyOf(files) # 0 /\ Writing(d) = {} =>
                files.chain = KeyOf(files) \/ d \in ctTorn

\* request_handler stores credentials only with a certificate beside them, so
\* the renewal never meets a directory it cannot read; a delete that overlaps
\* with the request's writes, or that a restart cuts short, is the exception.
CredsHaveCert ==
    \A d \in CtDomains :
        ctDisk[d].creds /\ ~Deleting(d) => ctDisk[d].chain # 0 \/ d \in ctHit

\* When every change has come through, the proxy serves exactly the valid pairs
\* of the directory and the UI the valid pair for its name, whatever other
\* domains hold (from_bundle, ManagedTls::update, the two watch_certificates).
ServedWhenSettled ==
    /\ \A t \in CtTasks : ctTask[t].pc \notin {"key", "creds"}
    /\ ctWatch.pc = "ready" /\ ~ctPending /\ ~ctMissed
    /\ ~ctUnseen
    => LET stored == LoadCertificates(ctDisk)
       IN  /\ \A d \in CtDomains : ctProxy[d] = IF ValidPair(stored[d]) THEN stored[d] ELSE NoPair
           /\ ValidPair(SelectForUi(stored)) => ctUi = SelectForUi(stored)

\* A TXT record stands only while its challenge is under way, unless its cleanup
\* failed or was never reached (request_certificate): a failed order is cleaned up.
TxtRecordsGone ==
    \A n \in ctTxt \ ctLeak :
        \E t \in CtTasks : ctTask[t].n = n /\ ctTask[t].pc = "txt"

\* What is stored, published and served belongs together, and an issue leaves
\* no record behind (certs.rs, certificates.rs, authority.rs).
CertificatesAgree ==
    /\ PublishedUnlessMissed
    /\ PairOnDisk
    /\ CredsHaveCert
    /\ ServedWhenSettled
    /\ TxtRecordsGone
=============================================================================
