----------------------------- MODULE CertReloader -----------------------------
(***************************************************************************)
(* certReloader of internal/auth/tls.go: the server's keypair, re-read by  *)
(* handshakes when the certificate's mtime has advanced.                   *)
(*                                                                         *)
(* Handshakes run concurrently and each takes several system calls.        *)
(* Somebody else (cert-manager) renews the two files meanwhile.  If        *)
(* swapped, both change at once, as in a mounted Secret; otherwise they    *)
(* are written one after the other, the certificate truncated first.  The  *)
(* n-th certificate goes with the n-th key only.                           *)
(***************************************************************************)
EXTENDS Integers

CONSTANTS
  Handshake,     \* the calls of getCertificate, numbered
  Preload,       \* newCertReloader's call of load, at startup
  MaxPair,       \* bound: keypairs the writer produces, one less in several steps
  Partial,       \* the contents of a certificate being written
  NoPair         \* no keypair: nothing cached, nothing answered

ASSUME CertAssumption ==
  /\ Handshake \subseteq Nat /\ Preload \notin Nat
  /\ MaxPair \in Nat \ {0}
  /\ Partial \notin Int /\ NoPair \notin Int /\ Partial # NoPair

VARIABLES
  swapped,   \* TRUE: both files are replaced in one step; never changes
  certFile,  \* [pair, mtime]: the certificate on disk
  keyFile,   \* the keypair whose key is on disk
  renewals,  \* the number of the last keypair begun
  writes,    \* steps of the writer so far, which is also the clock of mtimes
  kept,      \* [pair, mtime]: reloaderState, mtime 0 and NoPair if nil
  hs         \* by handshake: [at, mtime, pair, begun]

filesVars == <<certFile, keyFile, renewals, writes>>
certVars == <<swapped, filesVars, kept, hs>>

Loader == Handshake \cup {Preload}

Waiting == [at |-> "waiting", mtime |-> 0, pair |-> NoPair, begun |-> 0]

CertInit ==
  /\ swapped \in BOOLEAN
  /\ certFile = [pair |-> 1, mtime |-> 1]
  /\ keyFile = 1
  /\ renewals = 1
  /\ writes = 1
  /\ kept = [pair |-> NoPair, mtime |-> 0]
  /\ hs = [h \in Loader |-> Waiting]
-----------------------------------------------------------------------------
Renewing == certFile.pair # renewals \/ keyFile # renewals

\* A renewal begins: a mounted Secret is swapped ...
SwapPair ==
  /\ swapped /\ renewals < MaxPair
  /\ renewals' = renewals + 1
  /\ writes' = writes + 1
  /\ certFile' = [pair |-> renewals', mtime |-> writes']
  /\ keyFile' = renewals'
  /\ UNCHANGED <<swapped, kept, hs>>

\* ... or the certificate is truncated.
TruncateCert ==
  /\ ~swapped /\ renewals < MaxPair - 1 /\ ~Renewing
  /\ renewals' = renewals + 1
  /\ writes' = writes + 1
  /\ certFile' = [pair |-> Partial, mtime |-> writes']
  /\ UNCHANGED <<swapped, keyFile, kept, hs>>

WriteCert ==
  /\ certFile.pair = Partial
  /\ writes' = writes + 1
  /\ certFile' = [pair |-> renewals, mtime |-> writes']
  /\ UNCHANGED <<swapped, keyFile, renewals, kept, hs>>

WriteKey ==
  /\ keyFile # renewals
  /\ writes' = writes + 1
  /\ keyFile' = renewals
  /\ UNCHANGED <<swapped, certFile, renewals, kept, hs>>
-----------------------------------------------------------------------------
Goes(h, to) == hs' = [hs EXCEPT ![h].at = to]

\* getCertificate or load answers with pair p.
Answers(h, p) ==
  hs' = [hs EXCEPT ![h] = [at |-> "answered", mtime |-> 0, pair |-> p, begun |-> 0]]

\* getCertificate begins: Stat.
StatCert(h) ==
  /\ hs[h].at = "waiting"
  /\ hs' = [hs EXCEPT ![h] = [@ EXCEPT !.at = "compare", !.mtime = certFile.mtime,
                                       !.begun = writes]]
  /\ UNCHANGED <<swapped, filesVars, kept>>

\* getCertificate: Stat fails, "fall back to cached cert".
StatFails(h) ==
  /\ hs[h].at = "waiting"
  /\ Goes(h, "fell back")
  /\ UNCHANGED <<swapped, filesVars, kept>>

\* getCertificate: the cached pair answers, unless the mtime is after it.
Compare(h) ==
  /\ hs[h].at = "compare"
  /\ IF hs[h].mtime <= kept.mtime THEN Answers(h, kept.pair) ELSE Goes(h, "load")
  /\ UNCHANGED <<swapped, filesVars, kept>>

\* load: Stat, again.
LoadStats(h) ==
  /\ hs[h].at = "load"
  /\ hs' = [hs EXCEPT ![h].at = "cert", ![h].mtime = certFile.mtime]
  /\ UNCHANGED <<swapped, filesVars, kept>>

\* load: this Stat fails, and there is no falling back.
LoadStatFails(h) ==
  /\ hs[h].at = "load"
  /\ hs' = [hs EXCEPT ![h] = [Waiting EXCEPT !.at = "refused"]]
  /\ UNCHANGED <<swapped, filesVars, kept>>

\* LoadX509KeyPair reads the certificate ...
ReadCert(h) ==
  /\ hs[h].at = "cert"
  /\ hs' = [hs EXCEPT ![h].at = "key", ![h].pair = certFile.pair]
  /\ UNCHANGED <<swapped, filesVars, kept>>

\* ... and the key, which goes with it.
ReadKey(h) ==
  /\ hs[h].at = "key"
  /\ hs[h].pair = keyFile
  /\ Goes(h, "store")
  /\ UNCHANGED <<swapped, filesVars, kept>>

\* load: LoadX509KeyPair fails; the cached pair answers, if there is one.
LoadFails(h) ==
  /\ hs[h].at = "key"
  /\ hs[h].pair # keyFile
  /\ IF kept.pair = NoPair THEN Goes(h, "refused") ELSE Answers(h, kept.pair)
  /\ UNCHANGED <<swapped, filesVars, kept>>

\* Mutation: the mtime stored is the one at the time of storing.
StorePair_StatsLate(h) ==
  /\ hs[h].at = "store"
  /\ kept' = [pair |-> hs[h].pair, mtime |-> certFile.mtime]
  /\ Answers(h, hs[h].pair)
  /\ UNCHANGED <<swapped, filesVars>>

\* load: the pair and the mtime statted before are stored, over whatever
\* another handshake has stored since.
StorePair(h) ==
  /\ hs[h].at = "store"
  /\ kept' = [pair |-> hs[h].pair, mtime |-> hs[h].mtime]
  /\ Answers(h, hs[h].pair)
  /\ UNCHANGED <<swapped, filesVars>>

\* newCertReloader preloads.
PreloadBegins ==
  /\ hs[Preload].at = "waiting"
  /\ Goes(Preload, "load")
  /\ UNCHANGED <<swapped, filesVars, kept>>

Load(h) == LoadStats(h) \/ LoadStatFails(h) \/ ReadCert(h) \/ ReadKey(h) \/ LoadFails(h) \/ StorePair(h)

getCertificate(h) == StatCert(h) \/ StatFails(h) \/ Compare(h) \/ Load(h)
-----------------------------------------------------------------------------
\* "New handshakes retry the load on every connection until the file settles"
\* (tls.go:106-107): a handshake during which the files stay one matching pair is
\* answered with that pair, whatever was renewed before and whatever handshakes
\* that began earlier store meanwhile, an older pair included.
SettledPairIsServed ==
  [][\A h \in Handshake :
       /\ hs[h].at # "answered" /\ hs'[h].at = "answered"
       /\ hs[h].begun = writes /\ certFile.pair = keyFile
       => hs'[h].pair = keyFile]_certVars
=============================================================================
