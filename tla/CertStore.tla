----------------------------- MODULE CertStore -----------------------------
(***************************************************************************)
(* The certificate store (internal/modules/cert/store.go): the two files of *)
(* each certificate, the index the TLS handshakes read, and the rebuild of *)
(* that index by Reload.                                                   *)
(*                                                                         *)
(* A key pair is its serial number: <id>.crt and <id>.key hold serials,    *)
(* 0 when the file is missing, and load together when they are equal.      *)
(* Every certificate covers the one name the handshakes ask for, some only *)
(* through their CommonName; of two pairs the one saved later expires      *)
(* later, or on the same day.                                              *)
(***************************************************************************)
EXTENDS Naturals

CONSTANTS
    CertIds,        \* certificates, numbered as their ids are ordered
    CertByCN,       \* those that cover the name only by their CommonName
    CertMaxSerial,  \* bound: pairs written
    CertMaxTroubles \* bound: renames and removals that fail, crashes, deletions

ASSUME CertIdsAssumption ==
    CertIds \subseteq Nat \ {0} /\ 1 \in CertIds /\ CertByCN \subseteq CertIds
ASSUME CertBoundAssumption == CertMaxSerial \in Nat \ {0} /\ CertMaxTroubles \in Nat

VARIABLES
    certListed,   \* the certificates of the configuration
    certFiles,    \* certs/<id>.crt and <id>.key
    certSave,     \* the Save that holds fileMu: its step, its pair, its backups
    certIndex,    \* Store.byID and Store.byName
    certSwap,     \* Reload's rebuild: whether it runs, Store.staging, ids left
    certSerial,   \* pairs written so far
    certTroubles

certVars == <<certListed, certFiles, certSave, certIndex, certSwap, certSerial,
              certTroubles>>

CertSerials == 0..CertMaxSerial
CertNoSave == [pc |-> "free", cert |-> 0, serial |-> 0, bakCrt |-> 0, bakKey |-> 0]
CertEmpty == [byID |-> [c \in CertIds |-> 0], owner |-> 0]
CertNoSwap == [on |-> FALSE, staging |-> CertEmpty, todo |-> {}]

CertTrouble(n) ==
    certTroubles + n <= CertMaxTroubles /\ certTroubles' = certTroubles + n

CertAt(pc) == certSave.pc = pc
CertGoto(pc) == certSave' = [certSave EXCEPT !.pc = pc]
CertPut(crt, key) ==
    certFiles' = [certFiles EXCEPT ![certSave.cert] = [crt |-> crt, key |-> key]]
CertFile == certFiles[certSave.cert]

-----------------------------------------------------------------------------
(* The index.  claimWins: a SAN beats a CommonName, then the later expiry, *)
(* then the smaller id; comparing the expiries also puts the pairs that    *)
(* are still valid first.                                                  *)

CertExpiry(serial) == (serial + 1) \div 2

\* Mutant of CertClaimWins: the certificate indexed last wins.
CertClaimLast(index, cur, next) == TRUE

CertClaimWins(index, cur, next) ==
    LET a == CertExpiry(index.byID[cur])
        b == CertExpiry(index.byID[next])
    IN \/ cur \in CertByCN /\ next \notin CertByCN
       \/ /\ cur \in CertByCN <=> next \in CertByCN
          /\ b > a \/ (b = a /\ next < cur)

\* setIndexed: the older claim of the id goes first, and no loser takes it over.
CertIndexed(index, c, serial) ==
    LET cur == IF index.owner = c THEN 0 ELSE index.owner
        new == [index EXCEPT !.byID[c] = serial]
    IN [new EXCEPT !.owner = IF cur = 0 \/ CertClaimWins(new, cur, c) THEN c
                             ELSE cur]

\* Mutant of CertSetIndexed: into the index in use, which the rebuild replaces.
CertSetIndexedLive(c, serial) ==
    /\ certIndex' = CertIndexed(certIndex, c, serial)
    /\ UNCHANGED certSwap

\* While Reload rebuilds the index, every new pair goes into the new one.
CertSetIndexed(c, serial) ==
    IF certSwap.on
    THEN /\ certSwap' = [certSwap EXCEPT !.staging =
                              CertIndexed(certSwap.staging, c, serial)]
         /\ UNCHANGED certIndex
    ELSE /\ certIndex' = CertIndexed(certIndex, c, serial)
         /\ UNCHANGED certSwap

-----------------------------------------------------------------------------
(* Save: both files are set aside, then both new ones take their place;    *)
(* when a step fails what was set aside comes back.                        *)

\* fileMu is taken; the temporary files were read back and load as a pair.
CertSaveBegins(c) ==
    /\ CertAt("free") /\ certSerial < CertMaxSerial
    /\ certSerial' = certSerial + 1
    /\ certSave' = [CertNoSave EXCEPT !.pc = "backupCrt", !.cert = c,
                                      !.serial = certSerial + 1]
    /\ UNCHANGED <<certListed, certFiles, certIndex, certSwap, certTroubles>>

CertOnlyFiles ==
    UNCHANGED <<certListed, certIndex, certSwap, certSerial>>

CertBackupCrt ==
    /\ CertAt("backupCrt")
    /\ CertPut(0, CertFile.key)
    /\ certSave' = [certSave EXCEPT !.pc = "backupKey", !.bakCrt = CertFile.crt]
    /\ UNCHANGED certTroubles /\ CertOnlyFiles

\* Mutant of CertBackupKey: the old key stays until the new one replaces it.
CertBackupKeyNot ==
    /\ CertAt("backupKey")
    /\ CertGoto("putCrt")
    /\ UNCHANGED <<certFiles, certTroubles>> /\ CertOnlyFiles

CertBackupKey ==
    /\ CertAt("backupKey")
    /\ CertPut(CertFile.crt, 0)
    /\ certSave' = [certSave EXCEPT !.pc = "putCrt", !.bakKey = CertFile.key]
    /\ UNCHANGED certTroubles /\ CertOnlyFiles

CertPutCrt ==
    /\ CertAt("putCrt")
    /\ CertPut(certSave.serial, CertFile.key)
    /\ CertGoto("putKey")
    /\ UNCHANGED certTroubles /\ CertOnlyFiles

CertPutKey ==
    /\ CertAt("putKey")
    /\ CertPut(CertFile.crt, certSave.serial)
    /\ CertGoto("setIndexed")
    /\ UNCHANGED certTroubles /\ CertOnlyFiles

CertSaveReturns ==
    /\ CertAt("setIndexed")
    /\ CertSetIndexed(certSave.cert, certSave.serial)
    /\ certSave' = CertNoSave
    /\ UNCHANGED <<certListed, certFiles, certSerial, certTroubles>>

\* Setting a file aside fails: a certificate set aside before comes back.
CertBackupFails ==
    /\ CertTrouble(1)
    /\ \/ CertAt("backupCrt") /\ CertFile.crt # 0 /\ certSave' = CertNoSave
       \/ CertAt("backupKey") /\ CertFile.key # 0 /\ CertGoto("undo")
    /\ UNCHANGED certFiles /\ CertOnlyFiles

\* Putting a new file in place fails; a new certificate that is already in
\* place is removed first, and that may fail as well.
CertPutFails ==
    /\ \/ CertAt("putCrt") /\ CertTrouble(1) /\ UNCHANGED certFiles
       \/ CertAt("putKey") /\ CertTrouble(1) /\ CertPut(0, CertFile.key)
       \/ CertAt("putKey") /\ CertTrouble(2) /\ UNCHANGED certFiles
    /\ CertGoto("undo")
    /\ CertOnlyFiles

\* restoreFiles: both come back; or only the key does; or only the
\* certificate could, and it is set aside again; or neither does.
CertUndo ==
    LET crt == IF certSave.bakCrt = 0 THEN CertFile.crt ELSE certSave.bakCrt
        key == IF certSave.bakKey = 0 THEN CertFile.key ELSE certSave.bakKey
    IN
    /\ CertAt("undo")
    /\ \/ CertPut(crt, key) /\ UNCHANGED certTroubles
       \/ certSave.bakCrt # 0 /\ CertTrouble(1) /\ CertPut(CertFile.crt, key)
       \/ /\ certSave.bakKey # 0 /\ CertTrouble(1)
          /\ CertPut(IF certSave.bakCrt = 0 THEN CertFile.crt ELSE 0, CertFile.key)
       \/ /\ certSave.bakCrt # 0 /\ certSave.bakKey # 0 /\ CertTrouble(2)
          /\ UNCHANGED certFiles
    /\ certSave' = CertNoSave
    /\ CertOnlyFiles

-----------------------------------------------------------------------------
(* Reload rebuilds the index beside the one in use.                        *)

CertOnlySwap ==
    UNCHANGED <<certListed, certFiles, certSave, certSerial, certTroubles>>

CertBeginIndexSwap ==
    /\ ~certSwap.on
    /\ certSwap' = [on |-> TRUE, staging |-> CertEmpty, todo |-> certListed]
    /\ UNCHANGED certIndex /\ CertOnlySwap

\* LoadAll in whatever order the configuration lists them, once no Save holds
\* fileMu; a pair that does not load is left out.
CertLoad(c) ==
    LET pair == certFiles[c] IN
    /\ certSwap.on /\ c \in certSwap.todo /\ CertAt("free")
    /\ certSwap' = [certSwap EXCEPT !.todo = @ \ {c}, !.staging =
            IF pair.crt # 0 /\ pair.crt = pair.key
            THEN CertIndexed(certSwap.staging, c, pair.crt) ELSE certSwap.staging]
    /\ UNCHANGED certIndex /\ CertOnlySwap

CertCommitIndex ==
    /\ certSwap.on /\ certSwap.todo = {}
    /\ certIndex' = certSwap.staging
    /\ certSwap' = CertNoSwap
    /\ CertOnlySwap

\* A save of the configuration that deletes a certificate: its files stay.
CertDelete(c) ==
    /\ c \in certListed /\ CertTrouble(1)
    /\ certListed' = certListed \ {c}
    /\ UNCHANGED <<certFiles, certSave, certIndex, certSwap, certSerial>>

\* The process ends; the next one loads the modules before it serves.
CertCrash ==
    /\ CertTrouble(1)
    /\ certSave' = CertNoSave /\ certIndex' = CertEmpty
    /\ certSwap' = [on |-> TRUE, staging |-> CertEmpty, todo |-> certListed]
    /\ UNCHANGED <<certListed, certFiles, certSerial>>

-----------------------------------------------------------------------------
\* Certificate 1 has been issued before.
CertInit ==
    /\ certListed = CertIds
    /\ certFiles = [c \in CertIds |-> IF c = 1 THEN [crt |-> 1, key |-> 1]
                                      ELSE [crt |-> 0, key |-> 0]]
    /\ certSave = CertNoSave
    /\ certIndex = CertIndexed(CertEmpty, 1, 1)
    /\ certSwap = CertNoSwap
    /\ certSerial = 1
    /\ certTroubles = 0

CertNext ==
    \/ \E c \in CertIds : CertSaveBegins(c) \/ CertLoad(c) \/ CertDelete(c)
    \/ CertBackupCrt \/ CertBackupKey \/ CertPutCrt \/ CertPutKey
    \/ CertSaveReturns \/ CertBackupFails \/ CertPutFails \/ CertUndo
    \/ CertBeginIndexSwap \/ CertCommitIndex \/ CertCrash

CertSpec == CertInit /\ [][CertNext]_certVars

-----------------------------------------------------------------------------
(* Properties. *)

CertTypeOK ==
    /\ certListed \subseteq CertIds
    /\ certFiles \in [CertIds -> [crt : CertSerials, key : CertSerials]]
    /\ certSave \in [pc : {"free", "backupCrt", "backupKey", "putCrt", "putKey",
                           "setIndexed", "undo"},
                     cert : CertIds \union {0}, serial : CertSerials,
                     bakCrt : CertSerials, bakKey : CertSerials]
    /\ certIndex \in [byID : [CertIds -> CertSerials], owner : CertIds \union {0}]
    /\ certSwap \in [on : BOOLEAN, todo : SUBSET CertIds,
                     staging : [byID : [CertIds -> CertSerials], owner : CertIds \union {0}]]
    /\ certSerial \in CertSerials /\ certTroubles \in 0..CertMaxTroubles

\* A certificate and a key of different pairs are never on disk together, unless
\* three things went wrong: a rename fails, the new file cannot be removed, and
\* the old one does not come back, or its other half was lost before.
CertPairsMatch ==
    certTroubles <= 2 =>
        \A c \in CertIds : LET f == certFiles[c]
                           IN f.crt # 0 /\ f.key # 0 => f.crt = f.key

\* Outside a Save and a rebuild the index holds the pair on disk.
CertIndexIsFresh ==
    \A c \in certListed : LET f == certFiles[c] IN
        ~certSwap.on /\ CertAt("free") /\ f.crt # 0 /\ f.crt = f.key
            => certIndex.byID[c] = f.crt

\* The rank of an indexed pair for the name, the SAN first, then the expiry.
CertRank(index, c) ==
    (IF c \in CertByCN THEN 0 ELSE CertMaxSerial + 1) + CertExpiry(index.byID[c])

CertByMerit(index) ==
    LET known == {c \in CertIds : index.byID[c] # 0} IN
    /\ index.owner # 0 <=> known # {}
    /\ \A c \in known : LET o == index.owner IN
          \/ CertRank(index, o) > CertRank(index, c)
          \/ CertRank(index, o) = CertRank(index, c) /\ o <= c

\* A pair that is replaced while the index is rebuilt, or whose replacement
\* fails half-way or is cut by a crash, never leaves a mixed pair on disk nor
\* an older one in the index; and the name is answered by the best pair
\* indexed in whatever order they came (store.go:138-269, 405-501).
CertStoreConsistent ==
    /\ CertPairsMatch
    /\ CertIndexIsFresh
    /\ CertByMerit(certIndex) /\ CertByMerit(certSwap.staging)
=============================================================================
