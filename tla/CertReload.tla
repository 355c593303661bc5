------------------------------ MODULE CertReload ------------------------------
(***************************************************************************)
(* TLS material of the MQTT listener and its reload while connections      *)
(* arrive: pkg/tls/cert/filesource/filesource.go, pkg/tls/cert/source      *)
(* (watch.go, pems.go, store.go) and pkg/tls/server.go.                    *)
(*                                                                         *)
(* An operator replaces the four files one after the other; the watcher    *)
(* reads them one after the other, so that a load may see a mixture, and a *)
(* file that is rewritten in place may be read while it is empty. What the *)
(* parsers tell apart is all that is kept of a file: the PEM block in it,  *)
(* if any, which is the generation of a certificate, a key or a client CA, *)
(* and for a CRL the generation of the CA that signed it and whether it    *)
(* revokes the client's certificate. The code cannot tell an empty CA or   *)
(* CRL file from one that is not configured: {} stands for both.           *)
(***************************************************************************)
EXTENDS Naturals, FiniteSets

CONSTANTS
    MaxGen,      \* bound on the generations an operator writes
    Replaced,    \* the files an operator replaces
    Refresh,     \* the refresh interval is positive
    Handshakes   \* TLS handshakes of clients

ASSUME CertAssumption ==
    /\ MaxGen \in Nat
    /\ Replaced \subseteq {"cert", "key", "ca", "crl"}
    /\ Refresh \in BOOLEAN

Files == <<"cert", "key", "ca", "crl">>  \* in the order Load reads them
Gens == 0..MaxGen
CRLs == [issuer : Gens, revoked : BOOLEAN]
Blocks(S) == {{}} \cup {{x} : x \in S}
Sets == [cert : Blocks(Gens), key : Blocks(Gens), ca : Blocks(Gens),
         crl : Blocks(CRLs)]
NoCerts == [gen |-> "none"]
NoPEMs == [cert |-> {}, key |-> {}, ca |-> {}, crl |-> {}]

VARIABLES
    disk,       \* the files; of one that is being written, what it held before
    writing,    \* the files that are truncated and not written again yet
    wPc, next,  \* control of New, then of Watch; the file Load reads next
    pems,       \* the PEM blocks of the load under way, as far as they are read
    last,       \* Watch: the last certificates sent
    ch,         \* the channel of ServerCerts, capacity 1
    mPc,        \* control of NewServerConfig
    store,      \* Store.cs
    hPc,        \* control of a handshake
    hCA,        \* ClientCAs of the configuration a handshake was given
    hRevoked,   \* history: store revoked the client when the handshake began
    hStale,     \* history: store had another client CA at the verification
    hNoCRL,     \* history: store had no CRL at the verification
    blank       \* history: the CA and CRL files that were read while truncated

diskVars  == <<disk, writing>>
watchVars == <<wPc, next, pems, last>>
hsVars    == <<hPc, hCA, hRevoked, hStale, hNoCRL>>
vars == <<diskVars, watchVars, ch, mPc, store, hsVars, blank>>

TypeOK ==
    /\ disk \in Sets
    /\ writing \subseteq Replaced
    /\ wPc \in {"read", "parse", "send", "sleep", "closed", "failed"}
    /\ next \in 1..4
    /\ pems \in Sets
    /\ last \in Sets \cup {NoCerts}
    /\ ch \in Sets \cup {NoCerts}
    /\ mPc \in {"load", "take", "serving"}
    /\ store \in Sets \cup {NoCerts}
    /\ hPc \in [Handshakes -> {"none", "hello", "accepted"}]
    /\ hCA \in [Handshakes -> Blocks(Gens)]
    /\ hRevoked \in [Handshakes -> BOOLEAN]
    /\ hStale \in [Handshakes -> BOOLEAN]
    /\ hNoCRL \in [Handshakes -> BOOLEAN]
    /\ blank \subseteq {"ca", "crl"}

\* A client CA and a CRL are configured or not.
Init ==
    /\ disk \in [cert : {{0}}, key : {{0}}, ca : {{}, {0}},
                 crl : {{}, {[issuer |-> 0, revoked |-> FALSE]}}]
    /\ writing = {} /\ blank = {}
    /\ wPc = "read" /\ next = 1 /\ pems = NoPEMs
    /\ last = NoCerts /\ ch = NoCerts
    /\ mPc = "load" /\ store = NoCerts
    /\ hPc = [h \in Handshakes |-> "none"]
    /\ hCA = [h \in Handshakes |-> {}]
    /\ hRevoked = [h \in Handshakes |-> FALSE]
    /\ hStale = [h \in Handshakes |-> FALSE]
    /\ hNoCRL = [h \in Handshakes |-> FALSE]

(***************************************************************************)
(* The operator, outside the program. Replacing a file by renaming another *)
(* is a truncation with no read before the new content is there.           *)
(***************************************************************************)

\* A CRL is the same as another or was written before it: a CA does not
\* withdraw a revocation.
NoNewer(c, d) ==
    \/ c.issuer < d.issuer
    \/ c.issuer = d.issuer /\ (c.revoked => d.revoked)

\* What may replace the content of a file: a later generation.
Later(f) ==
    IF f = "crl"
    THEN {d \in CRLs : \E c \in disk.crl : c # d /\ NoNewer(c, d)}
    ELSE {g \in Gens : \E c \in disk[f] : c < g}

TruncateFile(f) ==
    /\ writing = {} /\ Later(f) # {}
    /\ writing' = {f}
    /\ UNCHANGED <<disk, watchVars, ch, mPc, store, hsVars, blank>>

ReplaceFile(f) ==
    /\ f \in writing
    /\ \E new \in Later(f) : disk' = [disk EXCEPT ![f] = {new}]
    /\ writing' = {}
    /\ UNCHANGED <<watchVars, ch, mPc, store, hsVars, blank>>

(***************************************************************************)
(* Load, and the parsing of getServerCerts.                                *)
(***************************************************************************)

\* Load refuses a CRL file without a client CA file.
OptionsValid == disk.crl # {} => disk.ca # {}

\* What os.ReadFile returns.
Content(f) == IF f \in writing THEN {} ELSE disk[f]

\* Mutant: the position is not reset after the last file.
ReadFileNoReset ==
    /\ wPc = "read" /\ OptionsValid
    /\ pems' = [pems EXCEPT ![Files[next]] = Content(Files[next])]
    /\ blank' = blank \cup ({"ca", "crl"} \cap writing \cap {Files[next]})
    /\ next' = next + 1
    /\ wPc' = IF next = 4 THEN "parse" ELSE "read"
    /\ UNCHANGED <<diskVars, last, ch, mPc, store, hsVars>>

\* One readFile of Load.
ReadFile ==
    /\ wPc = "read" /\ OptionsValid
    /\ pems' = [pems EXCEPT ![Files[next]] = Content(Files[next])]
    /\ blank' = blank \cup ({"ca", "crl"} \cap writing \cap {Files[next]})
    /\ \/ next < 4 /\ next' = next + 1 /\ UNCHANGED wPc
       \/ next = 4 /\ next' = 1 /\ wPc' = "parse"
    /\ UNCHANGED <<diskVars, last, ch, mPc, store, hsVars>>

\* Where a failed load ends: New returns the error, Watch tries again later.
Failed == IF mPc = "load" THEN "failed" ELSE "sleep"

\* The options are refused, a file cannot be read, or what was read of it is
\* neither empty nor parsable.
ReadFails ==
    /\ wPc = "read"
    /\ wPc' = Failed /\ next' = 1 /\ pems' = NoPEMs
    /\ UNCHANGED <<diskVars, last, ch, mPc, store, hsVars, blank>>

\* X509KeyPair, ClientCAs, ClientCRLs and ValidateCRLs: without a CA no CRL is
\* checked.
Valid(s) ==
    /\ s.cert # {} /\ s.cert = s.key
    /\ s.ca # {} => \A c \in s.crl : c.issuer \in s.ca

\* Mutant: the checksum leaves the CRL out.
ChecksumNoCRL(s) == [digest |-> <<s.cert, s.key, s.ca>>]

\* ServerPEMs.Checksum: the CRL block followed by the SHA-256 digest of the
\* other three, which is assumed to have no collisions.
Checksum(s) == [crl |-> s.crl, digest |-> <<s.cert, s.key, s.ca>>]

ParseFails ==
    /\ wPc = "parse" /\ ~Valid(pems)
    /\ wPc' = Failed /\ pems' = NoPEMs
    /\ UNCHANGED <<diskVars, next, last, ch, mPc, store, hsVars, blank>>

\* New: the first certificates; ServerCerts puts them into the channel, then
\* starts Watch or closes the channel.
LoadFirst ==
    /\ wPc = "parse" /\ mPc = "load" /\ Valid(pems)
    /\ last' = pems /\ ch' = pems /\ mPc' = "take"
    /\ wPc' = IF Refresh THEN "read" ELSE "closed"
    /\ pems' = NoPEMs
    /\ UNCHANGED <<diskVars, next, store, hsVars, blank>>

\* Mutant: a reload does not validate what it read.
CompareUnchecked ==
    /\ wPc = "parse" /\ mPc # "load"
    /\ \/ Checksum(pems) = Checksum(last) /\ wPc' = "sleep" /\ pems' = NoPEMs
       \/ Checksum(pems) # Checksum(last) /\ wPc' = "send" /\ UNCHANGED pems
    /\ UNCHANGED <<diskVars, next, last, ch, mPc, store, hsVars, blank>>

\* Watch: nothing changed since the last certificates sent, or they are sent.
Compare ==
    /\ wPc = "parse" /\ mPc # "load" /\ Valid(pems)
    /\ \/ Checksum(pems) = Checksum(last) /\ wPc' = "sleep" /\ pems' = NoPEMs
       \/ Checksum(pems) # Checksum(last) /\ wPc' = "send" /\ UNCHANGED pems
    /\ UNCHANGED <<diskVars, next, last, ch, mPc, store, hsVars, blank>>

\* The send blocks while the channel is full.
SendCerts ==
    /\ wPc = "send" /\ ch = NoCerts
    /\ ch' = pems /\ last' = pems
    /\ wPc' = "sleep" /\ pems' = NoPEMs
    /\ UNCHANGED <<diskVars, next, mPc, store, hsVars, blank>>

WakeUp ==
    /\ wPc = "sleep"
    /\ wPc' = "read"
    /\ UNCHANGED <<diskVars, next, pems, last, ch, mPc, store, hsVars, blank>>

(***************************************************************************)
(* NewServerConfig and the goroutine it leaves behind.                     *)
(***************************************************************************)

\* The first certificates are taken and the listener may start; later ones
\* are taken by the goroutine.
SetServerCerts ==
    /\ mPc \in {"take", "serving"} /\ ch # NoCerts
    /\ store' = ch /\ ch' = NoCerts
    /\ mPc' = "serving"
    /\ UNCHANGED <<diskVars, watchVars, hsVars, blank>>

(***************************************************************************)
(* A handshake of a client whose certificate the CA of generation 0 signed.*)
(***************************************************************************)

\* GetConfigForClient: a copy of the store. Without a client CA the client is
\* not asked for a certificate.
GetConfigForClient(h) ==
    /\ mPc = "serving" /\ hPc[h] = "none"
    /\ hPc' = [hPc EXCEPT ![h] = "hello"]
    /\ hCA' = [hCA EXCEPT ![h] = store.ca]
    /\ hRevoked' = [hRevoked EXCEPT ![h] = \E c \in store.crl : c.revoked]
    /\ UNCHANGED <<hStale, hNoCRL, diskVars, watchVars, ch, mPc, store, blank>>

AcceptAnyone(h) ==
    /\ hPc[h] = "hello" /\ hCA[h] = {}
    /\ hPc' = [hPc EXCEPT ![h] = "accepted"]
    /\ UNCHANGED <<hCA, hRevoked, hStale, hNoCRL, diskVars, watchVars, ch, mPc,
                   store, blank>>

\* Mutant: the CRL is never consulted.
VerifiedNoCRL(h) == 0 \in hCA[h]

\* The chain is verified with the CA of the configuration, then
\* verifyClientCertificate looks at the store again; without a CRL there it
\* has nothing against the certificate.
Verified(h) == 0 \in hCA[h] /\ \A c \in store.crl : ~c.revoked

Accept(h) ==
    /\ hPc[h] = "hello" /\ hCA[h] # {} /\ Verified(h)
    /\ hPc' = [hPc EXCEPT ![h] = "accepted"]
    /\ hStale' = [hStale EXCEPT ![h] = store.ca # hCA[h]]
    /\ hNoCRL' = [hNoCRL EXCEPT ![h] = store.crl = {}]
    /\ UNCHANGED <<hCA, hRevoked, diskVars, watchVars, ch, mPc, store, blank>>

\* The connection ends; the client may come again.
Refuse(h) ==
    /\ hPc[h] = "hello" /\ hCA[h] # {} /\ ~Verified(h)
    /\ hPc' = [hPc EXCEPT ![h] = "none"]
    /\ hCA' = [hCA EXCEPT ![h] = {}]
    /\ hRevoked' = [hRevoked EXCEPT ![h] = FALSE]
    /\ UNCHANGED <<hStale, hNoCRL, diskVars, watchVars, ch, mPc, store, blank>>

(***************************************************************************)
(* The specification.                                                      *)
(***************************************************************************)

WatchNext ==
    \/ ReadFile \/ ReadFails \/ ParseFails
    \/ LoadFirst \/ Compare \/ SendCerts \/ WakeUp

Next ==
    \/ \E f \in Replaced : TruncateFile(f) \/ ReplaceFile(f)
    \/ WatchNext
    \/ SetServerCerts
    \/ \E h \in Handshakes :
          \/ GetConfigForClient(h)
          \/ AcceptAnyone(h) \/ Accept(h) \/ Refuse(h)

Spec == Init /\ [][Next]_vars

\* The watcher and the goroutine run, and a file is not unreadable for ever.
FairSpec ==
    /\ Spec
    /\ WF_vars(WatchNext)
    /\ \A i \in 1..4 : SF_vars(next = i /\ ReadFile)
    /\ WF_vars(SetServerCerts)

(***************************************************************************)
(* Properties.                                                             *)
(***************************************************************************)

\* A block that is missing was not configured, or was read while its file was
\* truncated.
Explained(s) ==
    /\ s.ca = {} => disk.ca = {} \/ "ca" \in blank
    /\ s.crl = {} => disk.crl = {} \/ "crl" \in blank

\* Whatever the watcher read while the files were being replaced, what is
\* served has a key that belongs to its certificate and, with a client CA, no
\* CRL that another CA signed; the CA and the CRL are only missing when they
\* were not configured, or their file was read at a moment when it was empty
\* (filesource.go:59-94, 113-145, pems.go:30-85).
ServedIsValid ==
    /\ store # NoCerts => Valid(store) /\ Explained(store)
    /\ ch # NoCerts => Valid(ch) /\ Explained(ch)

\* A client that the CRL in use revokes when its handshake begins is refused,
\* however many reloads happen before its certificate is verified, except
\*   - when a reload changed the client CA: the chain is verified with the old
\*     CA, and the CRL that came with the new one is consulted;
\*   - when the CA file was read while it was truncated: the configuration does
\*     not ask for a certificate;
\*   - when the CRL file was: at the verification there is no CRL
\* (tls/server.go:48-62, 65-84).
RevokedRefused ==
    \A h \in Handshakes : hPc[h] = "accepted" /\ hRevoked[h] =>
        \/ hStale[h]
        \/ hCA[h] = {} /\ "ca" \in blank
        \/ hNoCRL[h] /\ "crl" \in blank

\* Certificates pass through Watch and the channel into the store one set at a
\* time: the channel holds the last set, or else the store does.
OneSetUnderWay ==
    /\ last = NoCerts <=> mPc = "load"
    /\ ch # NoCerts => ch = last
    /\ mPc = "take" => ch # NoCerts
    /\ mPc = "serving" <=> store # NoCerts
    /\ mPc = "serving" /\ ch = NoCerts => store = last
    /\ \A h \in Handshakes : hPc[h] # "none" => mPc = "serving"
    /\ wPc \in {"sleep", "send"} => mPc # "load"
    /\ wPc = "parse" \/ mPc # "load" => OptionsValid

\* No CRL of C is newer than one of D.
InOrder(C, D) == \A c \in C, d \in D : NoNewer(c, d)

\* Sets read from the disk: blocks are missing for a reason, a CRL only comes
\* from the file, and is not newer than what the file holds now.
FromDisk(s) ==
    /\ Explained(s)
    /\ s.crl # {} => disk.crl # {}
    /\ InOrder(s.crl, disk.crl)

\* Only what was validated is sent, and a CRL is never followed by an older one
\* anywhere between the disk and the store, a missing one in between included.
CRLsInOrder ==
    /\ wPc = "send" => Valid(pems)
    /\ wPc \in {"parse", "send"} => FromDisk(pems)
    /\ wPc \notin {"parse", "send"} => pems.crl = {}
    /\ wPc # "read" => next = 1
    /\ wPc = "read" /\ next = 4 /\ pems.ca = {} => disk.ca = {} \/ "ca" \in blank
    /\ last # NoCerts => FromDisk(last) /\ InOrder(last.crl, pems.crl)
    /\ store # NoCerts =>
          /\ FromDisk(store)
          /\ InOrder(store.crl, last.crl)
          /\ InOrder(store.crl, pems.crl)

\* What revoked the client at the beginning of its handshake is not replaced by
\* an older CRL, nor was the client asked for no certificate without a reason.
RevocationKept ==
    \A h \in Handshakes : hPc[h] = "hello" /\ hRevoked[h] =>
        /\ hCA[h] = {} => "ca" \in blank
        /\ \A i \in hCA[h] : LET revocation == {[issuer |-> i, revoked |-> TRUE]}
           IN /\ InOrder(revocation, store.crl)
              /\ InOrder(revocation, last.crl)
              /\ InOrder(revocation, pems.crl)
              /\ disk.crl # {} /\ InOrder(revocation, disk.crl)

\* The inductive invariant: whatever mixture of files the watcher reads, sets
\* are served in the order of their CRLs, and only valid ones
\* (filesource.go:59-94, watch.go:10-50, tls/server.go:24-84).
CertInv ==
    /\ TypeOK
    /\ OneSetUnderWay
    /\ CRLsInOrder
    /\ ServedIsValid
    /\ RevocationKept
    /\ RevokedRefused

\* Once the operator is done and has left files that fit together, they are
\* what is served in the end: no replacement is missed, neither because it
\* came during a load nor because a load failed, and a client CA or CRL that
\* was read while its file was truncated is back (watch.go:10-50).
ReloadConverges ==
    (<>[](Valid(disk) /\ writing = {}) /\ <>(mPc = "serving"))
        => <>[](store = disk)
=============================================================================
