---------------------------- MODULE CertReloadProofs --------------------------
(***************************************************************************)
(* Proofs about CertReload, for any number of handshakes and generations,  *)
(* and with and without a refresh.                                         *)
(***************************************************************************)
EXTENDS CertReload, TLAPS

\* A set of certificates is not the absence of one.
LEMMA NoCertsIsNoSet == NoCerts \notin Sets
<1> SUFFICES ASSUME NoCerts \in Sets PROVE FALSE
  OBVIOUS
<1>1. DOMAIN NoCerts = {"cert", "key", "ca", "crl"}
  BY DEF Sets
<1>2. DOMAIN NoCerts = {"gen"}
  BY DEF NoCerts
<1> QED
  BY <1>1, <1>2

\* The order of CRLs is transitive.
LEMMA NoNewerTransitive ==
    ASSUME NEW c \in CRLs, NEW d \in CRLs, NEW e \in CRLs,
           NoNewer(c, d), NoNewer(d, e)
    PROVE  NoNewer(c, e)
BY CertAssumption DEF NoNewer, CRLs, Gens

\* A block is in order with itself, and with a missing one.
LEMMA InOrderReflexive ==
    ASSUME NEW C \in Blocks(CRLs)
    PROVE  InOrder(C, C) /\ InOrder({}, C) /\ InOrder(C, {})
BY DEF InOrder, Blocks, NoNewer

\* The order passes through a block that is not missing.
LEMMA InOrderTransitive ==
    ASSUME NEW C \in Blocks(CRLs), NEW D \in Blocks(CRLs), NEW E \in Blocks(CRLs),
           InOrder(C, D), InOrder(D, E), D # {}
    PROVE  InOrder(C, E)
<1> SUFFICES ASSUME NEW c \in C, NEW e \in E PROVE NoNewer(c, e)
  BY DEF InOrder
<1>1. PICK d \in D : TRUE
  OBVIOUS
<1>2. c \in CRLs /\ d \in CRLs /\ e \in CRLs
  BY <1>1 DEF Blocks
<1> QED
  BY <1>1, <1>2, NoNewerTransitive DEF InOrder

\* Load reads the file at its position, and nothing else.
LEMMA FileRead ==
    ASSUME TypeOK, ReadFile
    PROVE  /\ pems' \in Sets
           /\ next = 3 => pems'.ca = Content("ca")
           /\ next = 4 => pems'.ca = pems.ca
           /\ next = 4 => pems'.crl = Content("crl")
           /\ next # 4 => pems'.crl = pems.crl
<1> USE DEF TypeOK, ReadFile, Sets
<1>1. \A f \in {"cert", "key", "ca", "crl"} : Content(f) \in {{}, disk[f]}
  BY DEF Content
<1>2. {} \in Blocks(Gens) /\ {} \in Blocks(CRLs)
  BY DEF Blocks
<1>3. /\ Content("cert") \in Blocks(Gens) /\ Content("key") \in Blocks(Gens)
      /\ Content("ca") \in Blocks(Gens) /\ Content("crl") \in Blocks(CRLs)
  BY <1>1, <1>2
<1>4. CASE next = 1
  BY <1>3, <1>4 DEF Files
<1>5. CASE next = 2
  BY <1>3, <1>5 DEF Files
<1>6. CASE next = 3
  BY <1>3, <1>6 DEF Files
<1>7. CASE next = 4
  BY <1>3, <1>7 DEF Files
<1> QED
  BY <1>4, <1>5, <1>6, <1>7

\* A replaced file holds something later than before, and the others stay.
LEMMA FileReplaced ==
    ASSUME TypeOK, NEW f \in Replaced, ReplaceFile(f)
    PROVE  /\ disk' \in Sets
           /\ disk'.ca = {} <=> disk.ca = {}
           /\ disk'.crl = {} <=> disk.crl = {}
           /\ InOrder(disk.crl, disk'.crl)
<1> USE CertAssumption DEF TypeOK
<1>1. PICK new \in Later(f) : disk' = [disk EXCEPT ![f] = {new}]
  BY DEF ReplaceFile
<1>2. disk.crl \in Blocks(CRLs)
  BY DEF Sets
<1>3. CASE f = "crl"
  <2>1. new \in CRLs /\ \E c \in disk.crl : NoNewer(c, new)
    BY <1>1, <1>3 DEF Later
  <2>2. disk'.crl = {new} /\ disk.crl # {}
    BY <1>1, <1>3, <2>1 DEF Sets
  <2>3. \A c \in disk.crl : NoNewer(c, new)
    BY <1>2, <2>1 DEF Blocks
  <2>4. {new} \in Blocks(CRLs)
    BY <2>1 DEF Blocks
  <2> QED
    BY <1>1, <1>3, <2>2, <2>3, <2>4 DEF Sets, InOrder
<1>4. CASE f # "crl"
  <2>1. new \in Gens /\ disk[f] # {}
    BY <1>1, <1>4 DEF Later
  <2>2. {new} \in Blocks(Gens)
    BY <2>1 DEF Blocks
  <2>3. f \in {"cert", "key", "ca"}
    BY <1>4
  <2>4. disk' \in Sets /\ disk'.crl = disk.crl
    BY <1>1, <2>2, <2>3 DEF Sets
  <2>5. disk'.ca = {} <=> disk.ca = {}
    BY <1>1, <2>1, <2>3 DEF Sets
  <2> QED
    BY <1>2, <2>4, <2>5, InOrderReflexive
<1> QED
  BY <1>3, <1>4

\* What was read stays explained when a file is replaced.
LEMMA FromDiskKept ==
    ASSUME TypeOK, NEW f \in Replaced, ReplaceFile(f), NEW s \in Sets,
           UNCHANGED blank
    PROVE  /\ Explained(s) => Explained(s)'
           /\ FromDisk(s) => FromDisk(s)'
<1>1. /\ disk' \in Sets
      /\ disk'.ca = {} <=> disk.ca = {}
      /\ disk'.crl = {} <=> disk.crl = {}
      /\ InOrder(disk.crl, disk'.crl)
  BY FileReplaced
<1>2. Explained(s) => Explained(s)'
  BY <1>1 DEF Explained
<1>3. ASSUME s.crl # {} => disk.crl # {}, InOrder(s.crl, disk.crl)
      PROVE  InOrder(s.crl, disk'.crl)
  <2>1. s.crl \in Blocks(CRLs) /\ disk.crl \in Blocks(CRLs) /\ disk'.crl \in Blocks(CRLs)
    BY <1>1 DEF TypeOK, Sets
  <2>2. CASE s.crl = {}
    BY <2>1, <2>2, InOrderReflexive
  <2>3. CASE s.crl # {}
    BY <1>1, <1>3, <2>1, <2>3, InOrderTransitive
  <2> QED
    BY <2>2, <2>3
<1> QED
  BY <1>1, <1>2, <1>3 DEF FromDisk

LEMMA NoPEMsIsSet == NoPEMs \in Sets /\ NoPEMs.crl = {}
BY DEF NoPEMs, Sets, Blocks

\* The initial state satisfies the inductive invariant.
LEMMA InitCertInv == Init => CertInv
<1> SUFFICES ASSUME Init PROVE CertInv
  OBVIOUS
<1> USE CertAssumption, NoCertsIsNoSet, NoPEMsIsSet DEF Init
<1>1. disk \in Sets /\ {} \in Blocks(Gens)
  <2>1. 0 \in Gens /\ [issuer |-> 0, revoked |-> FALSE] \in CRLs
    BY DEF CRLs, Gens
  <2>2. /\ {} \in Blocks(Gens) /\ {0} \in Blocks(Gens) /\ {} \in Blocks(CRLs)
        /\ {[issuer |-> 0, revoked |-> FALSE]} \in Blocks(CRLs)
    BY <2>1 DEF Blocks
  <2> QED
    BY <2>2 DEF Sets
<1>2. TypeOK
  BY <1>1 DEF TypeOK
<1>3. OneSetUnderWay
  BY DEF OneSetUnderWay
<1>4. CRLsInOrder
  BY DEF CRLsInOrder
<1>5. ServedIsValid /\ RevocationKept /\ RevokedRefused
  BY DEF ServedIsValid, RevocationKept, RevokedRefused
<1> QED
  BY <1>2, <1>3, <1>4, <1>5 DEF CertInv

LEMMA NextKeepsCertInv == CertInv /\ [Next]_vars => CertInv'
<1> SUFFICES ASSUME CertInv, [Next]_vars PROVE CertInv'
  OBVIOUS
<1> USE CertAssumption, NoCertsIsNoSet, NoPEMsIsSet DEF CertInv
<1> USE DEF diskVars, watchVars, hsVars
<1>1. ASSUME NEW f \in Replaced, TruncateFile(f) PROVE CertInv'
  <2> USE <1>1 DEF TruncateFile
  <2>1. TypeOK'
    BY DEF TypeOK
  <2>2. OneSetUnderWay'
    BY DEF OneSetUnderWay, OptionsValid
  <2>3. CRLsInOrder' /\ ServedIsValid'
    BY DEF CRLsInOrder, ServedIsValid, FromDisk, Explained
  <2>4. RevocationKept' /\ RevokedRefused'
    BY DEF RevocationKept, RevokedRefused
  <2> QED
    BY <2>1, <2>2, <2>3, <2>4
<1>2. ASSUME NEW f \in Replaced, ReplaceFile(f) PROVE CertInv'
  <2> USE <1>2 DEF ReplaceFile
  <2>1. /\ disk' \in Sets
        /\ disk'.ca = {} <=> disk.ca = {}
        /\ disk'.crl = {} <=> disk.crl = {}
        /\ InOrder(disk.crl, disk'.crl)
    BY FileReplaced
  <2>2. \A s \in Sets : /\ Explained(s) => Explained(s)'
                        /\ FromDisk(s) => FromDisk(s)'
    BY FromDiskKept
  <2>3. TypeOK'
    BY <2>1 DEF TypeOK
  <2>4. OneSetUnderWay'
    BY <2>1 DEF OneSetUnderWay, OptionsValid
  <2>5. CRLsInOrder'
    BY <2>1, <2>2 DEF CRLsInOrder, TypeOK
  <2>6. ServedIsValid'
    BY <2>2 DEF ServedIsValid, TypeOK
  <2>7. ASSUME NEW h \in Handshakes, hPc[h] = "hello", hRevoked[h],
               NEW i \in hCA[h]
        PROVE  InOrder({[issuer |-> i, revoked |-> TRUE]}, disk'.crl)
    <3>1. hCA[h] \in Blocks(Gens)
      BY DEF TypeOK
    <3>2. i \in Gens
      BY <2>7, <3>1 DEF Blocks
    <3>3. [issuer |-> i, revoked |-> TRUE] \in CRLs
      BY <3>2 DEF CRLs
    <3>4. {[issuer |-> i, revoked |-> TRUE]} \in Blocks(CRLs)
      BY <3>3 DEF Blocks
    <3> QED
      BY <2>1, <2>7, <3>4, InOrderTransitive DEF RevocationKept, TypeOK, Sets
  <2>8. RevocationKept' /\ RevokedRefused'
    BY <2>1, <2>7 DEF RevocationKept, RevokedRefused
  <2> QED
    BY <2>3, <2>4, <2>5, <2>6, <2>8
<1>3. ASSUME ReadFile PROVE CertInv'
  <2> USE <1>3 DEF ReadFile
  <2>1. TypeOK'
    <3>1. pems' \in Sets
      BY FileRead
    <3>2. blank' \subseteq {"ca", "crl"}
      BY DEF TypeOK
    <3>3. next' \in 1..4 /\ wPc' \in {"read", "parse"}
      BY DEF TypeOK
    <3> QED
      BY <3>1, <3>2, <3>3 DEF TypeOK
  <2>2. OneSetUnderWay'
    BY DEF OneSetUnderWay, OptionsValid
  <2>3. \A s \in Sets : /\ Explained(s) => Explained(s)'
                        /\ FromDisk(s) => FromDisk(s)'
    BY DEF Explained, FromDisk
  <2>4. ServedIsValid'
    BY <2>3 DEF ServedIsValid, TypeOK
  <2>5. pems.crl = {}
    BY DEF CRLsInOrder
  <2>6. CASE next # 4
    <3>1. pems'.crl = {} /\ wPc' = "read" /\ next' = next + 1
      BY <2>5, <2>6, FileRead DEF TypeOK
    <3>2. next' = 4 /\ pems'.ca = {} => disk'.ca = {} \/ "ca" \in blank'
      <4> SUFFICES ASSUME next' = 4, pems'.ca = {}, disk.ca # {}
                   PROVE  "ca" \in blank'
        OBVIOUS
      <4>1. next = 3 /\ Content("ca") = {}
        BY <3>1, FileRead DEF TypeOK
      <4>2. "ca" \in writing /\ Files[next] = "ca"
        BY <4>1 DEF Content, Files
      <4> QED
        BY <4>2
    <3>3. CRLsInOrder'
      BY <2>3, <3>1, <3>2 DEF CRLsInOrder, InOrder, TypeOK
    <3>4. RevocationKept' /\ RevokedRefused'
      BY <3>1 DEF RevocationKept, RevokedRefused, InOrder
    <3> QED
      BY <2>1, <2>2, <2>4, <3>3, <3>4
  <2>7. CASE next = 4
    <3>1. /\ pems'.ca = pems.ca /\ pems'.crl \in {{}, disk.crl}
          /\ pems'.crl = {} => disk.crl = {} \/ "crl" \in blank'
          /\ wPc' = "parse"
      <4>1. pems'.ca = pems.ca /\ pems'.crl = Content("crl")
        BY <2>7, FileRead
      <4>2. "crl" \in writing => "crl" \in blank'
        BY <2>7 DEF Files
      <4> QED
        BY <2>7, <4>1, <4>2 DEF Content
    <3>2. FromDisk(pems)'
      <4>1. Explained(pems)'
        BY <2>7, <3>1 DEF Explained, CRLsInOrder
      <4>2. InOrder(pems'.crl, disk.crl)
        BY <3>1, InOrderReflexive DEF TypeOK, Sets
      <4> QED
        BY <3>1, <4>1, <4>2 DEF FromDisk
    <3>3. \A C : InOrder(C, disk.crl) => InOrder(C, pems'.crl)
      BY <3>1 DEF InOrder
    <3>4. CRLsInOrder'
      BY <2>3, <3>1, <3>2, <3>3 DEF CRLsInOrder, FromDisk, TypeOK
    <3>5. RevocationKept' /\ RevokedRefused'
      BY <3>3 DEF RevocationKept, RevokedRefused
    <3> QED
      BY <2>1, <2>2, <2>4, <3>4, <3>5
  <2> QED
    BY <2>6, <2>7
<1>4. ASSUME ReadFails PROVE CertInv'
  <2> USE <1>4 DEF ReadFails
  <2>1. TypeOK'
    BY DEF TypeOK, Failed
  <2>2. OneSetUnderWay'
    BY DEF OneSetUnderWay, OptionsValid, Failed
  <2>3. CRLsInOrder'
    BY DEF CRLsInOrder, FromDisk, Explained, InOrder, Failed
  <2>4. ServedIsValid'
    BY DEF ServedIsValid, CRLsInOrder, FromDisk, Explained
  <2>5. RevocationKept' /\ RevokedRefused'
    BY DEF RevocationKept, RevokedRefused, OneSetUnderWay, InOrder
  <2> QED
    BY <2>1, <2>2, <2>3, <2>4, <2>5
<1>5. ASSUME ParseFails PROVE CertInv'
  <2> USE <1>5 DEF ParseFails
  <2>1. TypeOK'
    BY DEF TypeOK, Failed
  <2>2. OneSetUnderWay'
    BY DEF OneSetUnderWay, OptionsValid, Failed
  <2>3. CRLsInOrder'
    BY DEF CRLsInOrder, FromDisk, Explained, InOrder, Failed
  <2>4. ServedIsValid'
    BY DEF ServedIsValid, CRLsInOrder, FromDisk, Explained
  <2>5. RevocationKept' /\ RevokedRefused'
    BY DEF RevocationKept, RevokedRefused, OneSetUnderWay, InOrder
  <2> QED
    BY <2>1, <2>2, <2>3, <2>4, <2>5
<1>6. ASSUME LoadFirst PROVE CertInv'
  <2> USE <1>6 DEF LoadFirst
  <2>1. TypeOK'
    BY DEF TypeOK
  <2>2. OneSetUnderWay'
    BY DEF TypeOK, OneSetUnderWay, OptionsValid
  <2>3. CRLsInOrder'
    BY DEF CRLsInOrder, FromDisk, Explained, InOrder, OneSetUnderWay
  <2>4. ServedIsValid'
    BY DEF ServedIsValid, CRLsInOrder, FromDisk, Explained
  <2>5. RevocationKept' /\ RevokedRefused'
    BY DEF RevocationKept, RevokedRefused, OneSetUnderWay, InOrder
  <2> QED
    BY <2>1, <2>2, <2>3, <2>4, <2>5
<1>7. ASSUME Compare PROVE CertInv'
  <2> USE <1>7 DEF Compare
  <2>1. TypeOK'
    BY DEF TypeOK
  <2>2. OneSetUnderWay'
    BY DEF TypeOK, OneSetUnderWay, OptionsValid
  <2>3. CRLsInOrder'
    BY DEF CRLsInOrder, FromDisk, Explained, InOrder
  <2>4. ServedIsValid'
    BY DEF ServedIsValid, CRLsInOrder, FromDisk, Explained
  <2>5. RevocationKept' /\ RevokedRefused'
    BY DEF RevocationKept, RevokedRefused, OneSetUnderWay, InOrder
  <2> QED
    BY <2>1, <2>2, <2>3, <2>4, <2>5
<1>8. ASSUME SendCerts PROVE CertInv'
  <2> USE <1>8 DEF SendCerts
  <2>1. TypeOK'
    BY DEF TypeOK
  <2>2. OneSetUnderWay'
    BY DEF TypeOK, OneSetUnderWay, OptionsValid
  <2>3. CRLsInOrder'
    BY DEF CRLsInOrder, FromDisk, Explained, InOrder, OneSetUnderWay
  <2>4. ServedIsValid'
    BY DEF ServedIsValid, CRLsInOrder, FromDisk, Explained
  <2>5. RevocationKept' /\ RevokedRefused'
    BY DEF RevocationKept, RevokedRefused, OneSetUnderWay, InOrder
  <2> QED
    BY <2>1, <2>2, <2>3, <2>4, <2>5
<1>9. ASSUME WakeUp PROVE CertInv'
  <2> USE <1>9 DEF WakeUp
  <2>1. TypeOK'
    BY DEF TypeOK
  <2>2. OneSetUnderWay'
    BY DEF TypeOK, OneSetUnderWay, OptionsValid
  <2>3. CRLsInOrder'
    BY DEF CRLsInOrder, FromDisk, Explained, InOrder
  <2>4. ServedIsValid'
    BY DEF ServedIsValid, CRLsInOrder, FromDisk, Explained
  <2>5. RevocationKept' /\ RevokedRefused'
    BY DEF RevocationKept, RevokedRefused, OneSetUnderWay, InOrder
  <2> QED
    BY <2>1, <2>2, <2>3, <2>4, <2>5
<1>10. ASSUME SetServerCerts PROVE CertInv'
  <2> USE <1>10 DEF SetServerCerts
  <2>1. store' = last /\ last \in Sets
    BY DEF TypeOK, OneSetUnderWay
  <2>2. TypeOK'
    BY DEF TypeOK
  <2>3. OneSetUnderWay'
    BY DEF TypeOK, OneSetUnderWay, OptionsValid
  <2>4. CRLsInOrder'
    BY <2>1, InOrderReflexive DEF CRLsInOrder, FromDisk, Explained, Sets
  <2>5. ServedIsValid'
    BY DEF ServedIsValid, Explained
  <2>6. RevocationKept' /\ RevokedRefused'
    BY <2>1 DEF RevocationKept, RevokedRefused
  <2> QED
    BY <2>2, <2>3, <2>4, <2>5, <2>6
<1>11. ASSUME NEW h \in Handshakes, GetConfigForClient(h) PROVE CertInv'
  <2> USE <1>11 DEF GetConfigForClient
  <2>1. /\ store \in Sets /\ last \in Sets /\ pems \in Sets /\ disk \in Sets
        /\ Valid(store) /\ FromDisk(store) /\ OptionsValid
        /\ InOrder(store.crl, last.crl) /\ InOrder(store.crl, pems.crl)
    BY DEF TypeOK, OneSetUnderWay, ServedIsValid, CRLsInOrder
  <2>2. TypeOK'
    BY <2>1 DEF TypeOK, Sets
  <2>3. OneSetUnderWay'
    BY DEF OneSetUnderWay, OptionsValid
  <2>4. CRLsInOrder' /\ ServedIsValid'
    BY DEF CRLsInOrder, FromDisk, Explained, ServedIsValid
  <2>5. ASSUME hRevoked'[h], store.ca = {} PROVE "ca" \in blank
    BY <2>1, <2>5 DEF TypeOK, FromDisk, Explained, OptionsValid
  <2>6. ASSUME hRevoked'[h], NEW i \in store.ca
        PROVE  /\ store.crl = {[issuer |-> i, revoked |-> TRUE]}
               /\ disk.crl # {}
    <3>1. PICK c \in store.crl : c.revoked
      BY <2>6 DEF TypeOK
    <3>2. store.crl = {c} /\ c \in CRLs /\ store.ca = {i}
      BY <2>1, <2>6, <3>1 DEF Sets, Blocks
    <3>3. c.issuer = i
      BY <2>1, <2>6, <3>2 DEF Valid
    <3>4. c = [issuer |-> i, revoked |-> TRUE]
      BY <3>1, <3>2, <3>3 DEF CRLs
    <3> QED
      BY <2>1, <3>2, <3>4 DEF FromDisk
  <2>7. InOrder(store.crl, store.crl) /\ InOrder(store.crl, disk.crl)
    BY <2>1, InOrderReflexive DEF Sets, FromDisk
  <2>8. RevocationKept'
    BY <2>1, <2>5, <2>6, <2>7 DEF TypeOK, RevocationKept
  <2>9. RevokedRefused'
    BY DEF TypeOK, RevokedRefused
  <2> QED
    BY <2>2, <2>3, <2>4, <2>8, <2>9
<1>12. ASSUME NEW h \in Handshakes, AcceptAnyone(h) PROVE CertInv'
  <2> USE <1>12 DEF AcceptAnyone
  <2>1. TypeOK'
    BY DEF TypeOK
  <2>2. OneSetUnderWay'
    BY DEF TypeOK, OneSetUnderWay, OptionsValid
  <2>3. CRLsInOrder' /\ ServedIsValid'
    BY DEF CRLsInOrder, FromDisk, Explained, ServedIsValid
  <2>4. RevocationKept'
    BY DEF TypeOK, RevocationKept
  <2>5. RevokedRefused'
    BY DEF TypeOK, RevocationKept, RevokedRefused
  <2> QED
    BY <2>1, <2>2, <2>3, <2>4, <2>5
<1>13. ASSUME NEW h \in Handshakes, Accept(h) PROVE CertInv'
  <2> USE <1>13 DEF Accept
  <2>1. store \in Sets /\ Valid(store) /\ FromDisk(store)
    BY DEF TypeOK, OneSetUnderWay, ServedIsValid, CRLsInOrder
  <2>2. TypeOK'
    BY DEF TypeOK
  <2>3. OneSetUnderWay'
    BY DEF TypeOK, OneSetUnderWay, OptionsValid
  <2>4. CRLsInOrder' /\ ServedIsValid'
    BY DEF CRLsInOrder, FromDisk, Explained, ServedIsValid
  <2>5. RevocationKept'
    BY DEF TypeOK, RevocationKept
  <2>6. ASSUME hRevoked[h], store.ca = hCA[h], store.crl # {} PROVE FALSE
    <3>1. 0 \in hCA[h] /\ hCA[h] = {0}
      BY DEF Verified, TypeOK, Blocks
    <3>2. PICK c \in store.crl : ~c.revoked
      BY <2>6 DEF Verified
    <3>3. c \in CRLs /\ c.issuer = 0
      BY <2>1, <2>6, <3>1, <3>2 DEF Valid, Sets, Blocks
    <3>4. InOrder({[issuer |-> 0, revoked |-> TRUE]}, store.crl)
      BY <2>6, <3>1 DEF RevocationKept
    <3> QED
      BY <3>2, <3>3, <3>4 DEF InOrder, NoNewer
  <2>7. ASSUME hRevoked[h], store.crl = {} PROVE "crl" \in blank
    BY <2>1, <2>7 DEF FromDisk, Explained, RevocationKept, Verified
  <2>8. RevokedRefused'
    BY <2>6, <2>7 DEF TypeOK, RevokedRefused
  <2> QED
    BY <2>2, <2>3, <2>4, <2>5, <2>8
<1>14. ASSUME NEW h \in Handshakes, Refuse(h) PROVE CertInv'
  <2> USE <1>14 DEF Refuse
  <2>1. TypeOK'
    BY DEF TypeOK, Blocks
  <2>2. OneSetUnderWay'
    BY DEF TypeOK, OneSetUnderWay, OptionsValid
  <2>3. CRLsInOrder' /\ ServedIsValid'
    BY DEF CRLsInOrder, FromDisk, Explained, ServedIsValid
  <2>4. RevocationKept' /\ RevokedRefused'
    BY DEF TypeOK, RevocationKept, RevokedRefused
  <2> QED
    BY <2>1, <2>2, <2>3, <2>4
<1>15. CASE UNCHANGED vars
  BY <1>15 DEF vars, TypeOK, OneSetUnderWay, OptionsValid, CRLsInOrder,
               FromDisk, Explained, ServedIsValid, RevocationKept, RevokedRefused
<1> QED
  BY <1>1, <1>2, <1>3, <1>4, <1>5, <1>6, <1>7, <1>8, <1>9, <1>10, <1>11,
     <1>12, <1>13, <1>14, <1>15 DEF Next, WatchNext

\* The inductive invariant holds in every behaviour, for any number of handshakes
\* and of reloads (filesource.go:59-94, watch.go:10-50, tls/server.go:24-84).
THEOREM CertInvariant == Spec => []CertInv
<1> QED
  BY InitCertInv, NextKeepsCertInv, PTL DEF Spec

\* Whatever mixture of old, new and truncated files is read, what is served has
\* a key that belongs to its certificate and no CRL that another CA signed, and
\* its client CA or its CRL is only missing when none is configured or the file
\* was read while it was truncated (filesource.go:59-94, 113-145, pems.go:30-85).
THEOREM ServedCertsValid == Spec => []ServedIsValid
<1>1. CertInv => ServedIsValid
  BY DEF CertInv
<1> QED
  BY <1>1, CertInvariant, PTL

\* A client revoked when its handshake begins is refused, however many reloads
\* come before the verification, unless one changed the client CA, or the CA or
\* the CRL it is verified with is missing because its file was read while it
\* was truncated (tls/server.go:48-62, 65-84).
THEOREM RevocationHolds == Spec => []RevokedRefused
<1>1. CertInv => RevokedRefused
  BY DEF CertInv
<1> QED
  BY <1>1, CertInvariant, PTL
=============================================================================
