-------------------------- MODULE SigsumKeyProofs --------------------------
(***************************************************************************)
(* Proofs about the sigsum-key tool (module SigsumKey) for every set of    *)
(* keys and messages that KeyAssumption allows.                            *)
(***************************************************************************)
EXTENDS SigsumKey, TLAPS

\* The inductive invariant: the type invariant and VerifyExact.
IInv == TypeOK /\ VerifyExact

\* The contents of a named file, or of no file, are file contents.
LEMMA ContentType ==
  ASSUME TypeOK, NEW f \in {Unset, "K", "K.pub", "S"}
  PROVE  Content(f) \in Contents
BY DEF TypeOK, Content, FileNames, Contents

\* withOutput leaves a well typed directory when it writes file contents.
LEMMA WrittenType ==
  ASSUME TypeOK, NEW name \in {Unset, "K", "K.pub", "S"}, NEW c \in Contents, NEW r \in Results
  PROVE  Written(name, c, r) \in [FileNames -> Contents]
BY DEF TypeOK, Written, Contents, FileNames

\* ParsePrivateKey yields a generated key or no key.
LEMMA PrivateKeyType ==
  ASSUME NEW c \in Contents, NEW agentOK \in BOOLEAN
  PROVE  ParsePrivateKey(c, agentOK) \in Keys \cup {NoKey}
BY DEF ParsePrivateKey, Contents, None, Junk, Priv, Pub, Sig

\* ParsePublicKey finds a key exactly in an OpenSSH public key file.
LEMMA PublicKeyParse ==
  ASSUME NEW c \in Contents
  PROVE  /\ c.kind = "pub" => ParsePublicKey(c) = c.key /\ c.key \in Keys
         /\ c.kind # "pub" => ParsePublicKey(c) = NoKey
BY DEF ParsePublicKey, Contents, None, Junk, Priv, Pub, Sig

(***************************************************************************)
(* Reading a signature file for a parsed key (readSignatureFile) and      *)
(* checking it (crypto.Verify) accepts exactly a signature, raw hex or    *)
(* SSH, by that key over the message in that namespace: the key and       *)
(* namespace an SSH file carries are checked by ssh.ParseSignatureFile,   *)
(* and crypto.Verify checks them again.                                    *)
(***************************************************************************)
LEMMA ReadThenVerify ==
  ASSUME NEW c \in Contents, NEW pub \in Keys, NEW ns, NEW m
  PROVE  LET sig == ReadSignature(c, pub, ns)
         IN  (sig.kind = "sig" /\ Valid(sig, pub, ns, m)) <=> (c.kind = "sig" /\ Valid(c, pub, ns, m))
BY DEF ReadSignature, Valid, Bad, Contents, None, Junk, Priv, Pub, Sig

\* Every step keeps the files, the keys, the exit status and the record of
\* the last verify well typed.
LEMMA TypeStep == TypeOK /\ [Next]_vars => TypeOK'
<1> SUFFICES ASSUME TypeOK, [Next]_vars PROVE TypeOK'
  OBVIOUS
<1>1. CASE Usage
  BY <1>1 DEF Usage, TypeOK, Checks
<1>2. CASE BadFlag
  BY <1>2 DEF BadFlag, TypeOK, Checks
<1>3. CASE Gen
  <2>1. CASE status' = 1 /\ checked' = NoCheck /\ UNCHANGED <<files, used>>
    BY <2>1 DEF TypeOK, Checks
  <2>2. CASE \E k \in Keys \ used, r1, r2 \in Results :
               /\ used' = used \cup {k}
               /\ files' = writeKeyFiles(k, r1, r2)
               /\ status' = IF r1 = "ok" /\ r2 = "ok" THEN 0 ELSE 1
               /\ checked' = NoCheck
    <3>1. PICK k \in Keys \ used, r1, r2 \in Results :
               /\ used' = used \cup {k}
               /\ files' = writeKeyFiles(k, r1, r2)
               /\ status' = IF r1 = "ok" /\ r2 = "ok" THEN 0 ELSE 1
               /\ checked' = NoCheck
      BY <2>2
    <3>2. Priv(k) \in Contents /\ Pub(k) \in Contents
      BY DEF Contents, Priv, Pub
    <3>3. /\ Written("K", Priv(k), r1) \in [FileNames -> Contents]
          /\ Written("K.pub", Pub(k), r2) \in [FileNames -> Contents]
      BY <3>2, WrittenType
    <3>4. files' \in [FileNames -> Contents]
      BY <3>1, <3>3 DEF writeKeyFiles, FileNames
    <3>5. QED
      BY <3>1, <3>4 DEF TypeOK, Checks
  <2>3. QED
    BY <1>3, <2>1, <2>2 DEF Gen
<1>4. CASE Sign
  <2>1. PICK kf \in {Unset, "K", "K.pub"}, o \in {Unset, "S"}, arg \in NsArgs,
             ssh \in BOOLEAN, readOK \in BOOLEAN, agentOK \in BOOLEAN,
             m \in Msgs, r \in Results : SignWith(kf, o, arg, ssh, readOK, agentOK, m, r)
    BY <1>4 DEF Sign
  <2> DEFINE k == ParsePrivateKey(Content(kf), agentOK)
             s == Sig(IF ssh THEN "ssh" ELSE "hex", k, SignSettings(kf, arg).ns, m)
  <2>2. k \in Keys \cup {NoKey}
    BY ContentType, PrivateKeyType
  <2>3. k # NoKey => s \in Contents
    BY <2>2 DEF Contents, SignSettings, SignNs, NsArgs, Namespaces, Sig
  <2>4. k # NoKey => Written(o, s, r) \in [FileNames -> Contents]
    BY <2>3, WrittenType
  <2>5. QED
    BY <2>1, <2>4 DEF SignWith, TypeOK, Checks
<1>5. CASE Verify
  <2>1. PICK kf \in {Unset, "K", "K.pub"}, sf \in {Unset, "S"}, arg \in NsArgs,
             readOK \in BOOLEAN, m \in Msgs : VerifyWith(kf, sf, arg, readOK, m)
    BY <1>5 DEF Verify
  <2>2. QED
    BY <2>1 DEF VerifyWith, TypeOK, Checks
<1>6. CASE Export
  BY <1>6 DEF Export, TypeOK, Checks
<1>7. CASE UNCHANGED vars
  BY <1>7 DEF vars, TypeOK
<1>8. QED
  BY <1>1, <1>2, <1>3, <1>4, <1>5, <1>6, <1>7 DEF Next

(***************************************************************************)
(* Whatever gen, sign and failed writes left in the files, verify (main,  *)
(* lines 84-102) exits 0 exactly when the signature file holds a          *)
(* signature by the key of the public key file over the message on stdin, *)
(* in the namespace of -n or the documented default (VerifyExact, checked *)
(* by run sigsum_key), for every set of keys and messages.  The step of   *)
(* Verify needs the type invariant for the files it reads; every other    *)
(* step clears the record of the last verify.                              *)
(***************************************************************************)
THEOREM VerifyExactHolds == Spec => []VerifyExact
<1>1. Init => IInv
  BY DEF Init, IInv, TypeOK, VerifyExact, FileNames, Contents, Checks, NoCheck
<1>2. IInv /\ [Next]_vars => IInv'
  <2> SUFFICES ASSUME IInv, [Next]_vars PROVE IInv'
    OBVIOUS
  <2>1. TypeOK'
    BY TypeStep DEF IInv
  <2>2. CASE Verify
    <3>1. PICK kf \in {Unset, "K", "K.pub"}, sf \in {Unset, "S"}, arg \in NsArgs,
               readOK \in BOOLEAN, m \in Msgs : VerifyWith(kf, sf, arg, readOK, m)
      BY <2>2 DEF Verify
    <3> DEFINE key == Content(kf)
               sf0 == Content(sf)
               ns  == VerifyNs(arg)
    <3>2. key \in Contents /\ sf0 \in Contents
      BY ContentType DEF IInv
    <3>3. ns = UsageVerifyNs(arg)
      BY DEF VerifyNs, UsageVerifyNs
    <3>4. checked' = [ran |-> TRUE, kf |-> kf, sf |-> sf, arg |-> arg, msg |-> m, readOK |-> readOK]
          /\ files' = files
      BY <3>1 DEF VerifyWith
    <3>5. VerifyExact'
      <4>1. SUFFICES ASSUME kf # Unset, sf # Unset, readOK
                     PROVE  status' = 0 <=> /\ IsKey(key, "pub")
                                          /\ IsKey(sf0, "sig")
                                          /\ Valid(sf0, key.key, ns, m)
        BY <3>3, <3>4 DEF VerifyExact, Content
      <4> DEFINE pub == ParsePublicKey(key)
                 sig == ReadSignature(sf0, pub, ns)
      <4>0. status' = IF pub # NoKey /\ sig.kind = "sig" /\ Valid(sig, pub, ns, m) THEN 0 ELSE 1
        BY <3>1, <4>1 DEF VerifyWith, VerifySettings
      <4>2. CASE key.kind = "pub"
        <5>1. ParsePublicKey(key) = key.key /\ key.key \in Keys
          BY <3>2, <4>2, PublicKeyParse
        <5>2. key.key # NoKey
          BY <5>1, KeyAssumption
        <5>3. (ReadSignature(sf0, key.key, ns).kind = "sig" /\ Valid(ReadSignature(sf0, key.key, ns), key.key, ns, m))
              <=> (sf0.kind = "sig" /\ Valid(sf0, key.key, ns, m))
          BY <3>2, <5>1, ReadThenVerify
        <5>4. QED
          BY <4>0, <4>2, <5>1, <5>2, <5>3 DEF IsKey
      <4>3. CASE key.kind # "pub"
        <5>1. ParsePublicKey(key) = NoKey
          BY <3>2, <4>3, PublicKeyParse
        <5>2. QED
          BY <4>0, <4>3, <5>1 DEF IsKey
      <4>4. QED
        BY <4>2, <4>3
    <3>6. QED
      BY <2>1, <3>5 DEF IInv
  <2>3. CASE ~Verify
    <3>1. checked' = NoCheck \/ UNCHANGED vars
      BY <2>3 DEF Next, Usage, BadFlag, Gen, Sign, SignWith, Export
    <3>2. VerifyExact'
      <4>1. CASE checked' = NoCheck
        BY <4>1 DEF VerifyExact, NoCheck
      <4>2. CASE UNCHANGED vars
        BY <4>2 DEF IInv, VerifyExact, Content, vars
      <4>3. QED
        BY <3>1, <4>1, <4>2
    <3>3. QED
      BY <2>1, <3>2 DEF IInv
  <2>4. QED
    BY <2>1, <2>2, <2>3 DEF IInv
<1>3. QED
  BY <1>1, <1>2, PTL DEF Spec, IInv
=============================================================================
