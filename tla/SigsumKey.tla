------------------------------ MODULE SigsumKey ------------------------------
(***************************************************************************)
(* The sigsum-key tool (src/cmd/sigsum-key/main.go) run again and again by *)
(* a user on one directory: each action is one whole run of a sub command *)
(* (main, lines 37-138), from flag parsing to its exit code, over the     *)
(* files it reads and writes.  Key parsing is that of pkg/key              *)
(* (ParsePublicKey and ParsePrivateKey, src/pkg/requests/requests.go      *)
(* 299-325).                                                               *)
(*                                                                          *)
(* A file is absent (None), partly written (Junk), a private key,       *)
(* a public key in OpenSSH form, or a signature in raw hex or in an SSH    *)
(* signature file.  Signatures are exact: a signature is the record of its *)
(* signer, namespace and message, and crypto.Verify checks all three.     *)
(* Every write may fail at the open or at the write (disk full, no        *)
(* permission); the user may pass an unknown flag.                         *)
(***************************************************************************)
EXTENDS Naturals

CONSTANTS
  Keys,     \* the key pairs crypto.NewKeyPair may generate
  Msgs      \* the messages a user pipes in on stdin

VARIABLES
  files,    \* file name -> contents
  used,     \* the key pairs generated so far
  status,   \* the exit status of the last run (0 before the first)
  checked   \* the arguments of the last run if it was verify, else NoCheck

vars == <<files, used, status, checked>>

FileNames == {"K", "K.pub", "S"}
\* The empty string: the default of a string flag that was not given.
Unset == "(unset)"
NoKey == "nokey"
None == [kind |-> "none"]
Junk == [kind |-> "junk"]
Bad == [kind |-> "bad"]
\* A generated key is never the "no key" result of the parsers.
ASSUME KeyAssumption == NoKey \notin Keys

NoCheck == [ran |-> FALSE, kf |-> Unset, sf |-> Unset, arg |-> Unset, msg |-> Unset, readOK |-> FALSE]
\* Outcomes of withOutput: written, open failed, write failed.
Results == {"ok", "open", "write"}
\* The -n option: absent, or one of the two namespaces the usage names.
NsArgs == {Unset, "tree-leaf", "signed-tree-head"}

\* The contents of a named file; an empty name reads nothing.
Content(f) == IF f \in FileNames THEN files[f] ELSE None

Priv(k) == [kind |-> "priv", key |-> k]
Pub(k) == [kind |-> "pub", key |-> k]
\* The signature writeSignatureFile (lines 231-240) writes: an SSH
\* signature file, or the raw signature in hex.
Sig(fmt, k, ns, m) == [kind |-> "sig", fmt |-> fmt, by |-> k, ns |-> ns, msg |-> m]

\* ParsePublicKey (lines 299-302 of requests.go): an OpenSSH public key.
ParsePublicKey(c) == IF c.kind = "pub" THEN c.key ELSE NoKey

\* ParsePrivateKey (lines 308-325): an OpenSSH public key is used through
\* ssh-agent, which may be missing or not hold the key; anything else must
\* be a hex private key.
ParsePrivateKey(c, agentOK) ==
  CASE c.kind = "pub"             -> IF agentOK THEN c.key ELSE NoKey
    [] c.kind = "priv"            -> c.key
    [] OTHER                      -> NoKey

\* withOutput (lines 199-214): the file after writing c to name; an empty
\* name is stdout.  O_TRUNC empties the file at the open.
Written(name, c, r) ==
  IF name = Unset \/ r = "open" THEN files
  ELSE [files EXCEPT ![name] = IF r = "ok" THEN c ELSE Junk]

\* The -n default of SignSettings.parse (line 174).
SignNs(arg) == IF arg = Unset THEN "tree-leaf" ELSE arg

\* SignSettings.parse (lines 170-182): -k is required.
SignSettings(kf, arg) == [ok |-> kf # Unset, ns |-> SignNs(arg)]

\* Mutant: verify given the default namespace of sign.
VerifyNsOfSign(arg) == IF arg = Unset THEN "tree-leaf" ELSE arg

\* The -n default of VerifySettings.parse (line 156).
VerifyNs(arg) == IF arg = Unset THEN "signed-tree-head" ELSE arg

\* VerifySettings.parse (lines 152-168): -k and -s are required.
VerifySettings(kf, sf, arg) == [ok |-> kf # Unset /\ sf # Unset, ns |-> VerifyNs(arg)]

\* Mutant: an SSH signature file read as raw hex only.
ReadSignatureNoSSH(c, pub, ns) ==
  IF c.kind = "sig" /\ c.fmt = "hex" THEN c ELSE Bad

\* readSignatureFile (lines 242-256): an SSH signature file must name the
\* key and the namespace (ssh.ParseSignatureFile); a file that is not PEM
\* is read as a hex signature.
ReadSignature(c, pub, ns) ==
  IF c.kind = "sig" /\ c.fmt = "ssh" THEN (IF c.by = pub /\ c.ns = ns THEN c ELSE Bad)
  ELSE IF c.kind = "sig" THEN c
  ELSE Bad

\* crypto.Verify over ssh.SignedDataFromHash(namespace, H(stdin)).
Valid(sig, pub, ns, m) == sig.by = pub /\ sig.ns = ns /\ sig.msg = m

Init ==
  /\ files = [f \in FileNames |-> None]
  /\ used = {}
  /\ status = 0
  /\ checked = NoCheck

\* Any sub command given an unknown flag: flag.ExitOnError makes
\* flags.Parse (lines 144, 158, 177, 188) exit with status 2.
BadFlag ==
  /\ status' = 2
  /\ checked' = NoCheck /\ UNCHANGED <<files, used>>

\* Lines 65-75: no sub command, an unknown one, or help.
Usage ==
  /\ \E cmd \in {Unset, "help", "other"} : status' = IF cmd = "help" THEN 0 ELSE 1
  /\ checked' = NoCheck /\ UNCHANGED <<files, used>>

\* writeKeyFiles (lines 216-229): the private key file first, then the
\* ".pub" file, each through withOutput.
writeKeyFiles(k, r1, r2) ==
  LET f1 == Written("K", Priv(k), r1)
  IN  IF r1 # "ok" THEN f1
      ELSE [f1 EXCEPT !["K.pub"] = Written("K.pub", Pub(k), r2)["K.pub"]]

\* Lines 76-83 with GenSettings.parse (lines 140-150): no -o exits 1.
Gen ==
  \/ status' = 1 /\ checked' = NoCheck /\ UNCHANGED <<files, used>>  \* no -o
  \/ \E k \in Keys \ used, r1, r2 \in Results :
       /\ used' = used \cup {k}
       /\ files' = writeKeyFiles(k, r1, r2)
       /\ status' = IF r1 = "ok" /\ r2 = "ok" THEN 0 ELSE 1
       /\ checked' = NoCheck

\* Lines 103-120 with SignSettings.parse and writeSignatureFile (lines
\* 170-182, 231-240): sign stdin with the key of -k, write to -o.
SignWith(kf, o, arg, ssh, readOK, agentOK, m, r) ==
  LET st == SignSettings(kf, arg)
      k  == ParsePrivateKey(Content(kf), agentOK)
      s  == Sig(IF ssh THEN "ssh" ELSE "hex", k, st.ns, m)
  IN  \/ /\ ~st.ok \/ k = NoKey \/ ~readOK
         /\ status' = 1
         /\ checked' = NoCheck /\ UNCHANGED <<files, used>>
      \/ /\ st.ok /\ k # NoKey /\ readOK
         /\ files' = Written(o, s, r)
         /\ status' = IF r = "ok" THEN 0 ELSE 1
         /\ checked' = NoCheck
         /\ UNCHANGED used

Sign ==
  \E kf \in {Unset, "K", "K.pub"}, o \in {Unset, "S"}, arg \in NsArgs, ssh, readOK, agentOK \in BOOLEAN,
     m \in Msgs, r \in Results : SignWith(kf, o, arg, ssh, readOK, agentOK, m, r)

\* Lines 84-102 with VerifySettings.parse (lines 152-168): verify stdin
\* against the signature file -s and the public key file -k.
VerifyWith(kf, sf, arg, readOK, m) ==
  LET st  == VerifySettings(kf, sf, arg)
      pub == ParsePublicKey(Content(kf))
      sig == ReadSignature(Content(sf), pub, st.ns)
      ok  == st.ok /\ pub # NoKey /\ sig.kind = "sig" /\ readOK
               /\ Valid(sig, pub, st.ns, m)
  IN  /\ status' = IF ok THEN 0 ELSE 1
      /\ checked' = [ran |-> TRUE, kf |-> kf, sf |-> sf, arg |-> arg, msg |-> m, readOK |-> readOK]
      /\ UNCHANGED <<files, used>>

Verify ==
  \E kf \in {Unset, "K", "K.pub"}, sf \in {Unset, "S"}, arg \in NsArgs, readOK \in BOOLEAN, m \in Msgs :
    VerifyWith(kf, sf, arg, readOK, m)

\* Lines 121-137 with ExportSettings.parse (lines 184-194): print the key
\* hash or the raw key of the public key file -k.
Export ==
  \E cmd \in {"hash", "hex"}, kf \in {Unset, "K", "K.pub"} :
    LET pub == ParsePublicKey(Content(kf))
    IN  /\ status' = IF pub # NoKey THEN 0 ELSE 1
        /\ checked' = NoCheck /\ UNCHANGED <<files, used>>

Next == Usage \/ BadFlag \/ Gen \/ Sign \/ Verify \/ Export

Spec == Init /\ [][Next]_vars

-----------------------------------------------------------------------------

Namespaces == {"tree-leaf", "signed-tree-head"}
Contents ==
  {None, Junk} \cup [kind : {"priv", "pub"}, key : Keys]
    \cup [kind : {"sig"}, fmt : {"ssh", "hex"}, by : Keys, ns : Namespaces, msg : Msgs]
Checks ==
  {NoCheck} \cup [ran : {TRUE}, kf : {Unset, "K", "K.pub"}, sf : {Unset, "S"}, arg : NsArgs,
                  msg : Msgs, readOK : BOOLEAN]

TypeOK ==
  /\ files \in [FileNames -> Contents]
  /\ used \subseteq Keys
  /\ status \in {0, 1, 2}
  /\ checked \in Checks

\* The namespace the usage text (lines 48-56) documents for verify.
UsageVerifyNs(arg) == IF arg = Unset THEN "signed-tree-head" ELSE arg
IsKey(c, kind) == c.kind = kind

(***************************************************************************)
(* verify (lines 84-102) exits 0 exactly when the signature file holds a  *)
(* signature, raw hex or SSH, by the key of the public key file, over the *)
(* message on stdin, in the namespace of -n or the documented default:    *)
(* whatever sign, gen and failed writes left in the files before.          *)
(***************************************************************************)
VerifyExact ==
  LET key == Content(checked.kf)
      sig == Content(checked.sf)
  IN  checked.ran /\ checked.kf # Unset /\ checked.sf # Unset /\ checked.readOK =>
        (status = 0 <=>
           /\ IsKey(key, "pub")
           /\ IsKey(sig, "sig")
           /\ Valid(sig, key.key, UsageVerifyNs(checked.arg), checked.msg))

=============================================================================
