---------------------------- MODULE SealedDataProofs -----------------------------
(***************************************************************************)
(* Proofs about SealedData, for every width of the lengths, every size of  *)
(* the header, every set of texts and of lies, and any number of seals and *)
(* of writes of the host that satisfy SealAssumption and CallAssumption.   *)
(*                                                                         *)
(* None of the properties is inductive as it stands: what opens depends on *)
(* what the object holds, and what it holds on what was read of the buffer *)
(* in five earlier steps.  IInv says so step by step.  Typed bounds every  *)
(* length a call has kept, which is all that CopyInBounds needs, whatever  *)
(* the host wrote.  Intact says that the object, the copy that a seal      *)
(* makes, the buffer, and what a read has so far taken from it are what    *)
(* the library gave a tag to, as long as nobody else has written them.     *)
(* Results are the three properties of the answers.                        *)
(***************************************************************************)
EXTENDS SealedData, FiniteSetTheorems, SequenceTheorems, TLAPS

\* Texts that a buffer has room for.
Payload == UNION {[1 .. n -> Byte] : n \in 0 .. Room}

\* What the library gives a tag to.
Entry == [tag : 1 .. MaxSeal, op : {"seal", "mac"}, text : Seq(Byte), additional : Seq(Byte)]

\* Buffers, for sgx_sealed_data_t.
Raw ==
  [key_request : Tag, plain_text_offset : U32, payload_size : U32, payload_tag : Tag,
   bytes : [1 .. Room -> Byte], outside : BOOLEAN, whole : BOOLEAN]

\* The steps of a seal.
Sealing == {"key", "encrypt", "copy"}

\* What has been given a tag fits a buffer, and it has a secret if a secret was sealed.
SealedFits ==
  /\ sealed \subseteq Entry /\ IsFiniteSet(sealed) /\ Cardinality(sealed) <= MaxSeal
  /\ \A e \in sealed : /\ e.tag <= Cardinality(sealed)
                       /\ Len(e.text) + Len(e.additional) <= Room
                       /\ e.op = "seal" <=> e.text # << >>

\* So does what is being sealed, and there is a tag left for it.
SealingFits ==
  pc \in Sealing =>
    /\ local.op \in {"seal", "mac"} /\ local.text \in Seq(Byte) /\ outer \in Seq(Byte)
    /\ Len(local.text) + Len(outer) <= Room
    /\ local.op = "seal" <=> local.text # << >>
    /\ pc # "copy" => Cardinality(sealed) < MaxSeal

\* What a call that reads a buffer has read so far.
ReadingFits ==
  /\ pc \in {"lengths", "encrypt_len", "payload", "encrypt_txt", "additional_txt"} =>
       local.len \in U32
  /\ pc \in {"encrypt_len", "payload", "encrypt_txt", "additional_txt"} => local.add \in U32
  /\ pc \in {"payload", "encrypt_txt", "additional_txt"} => local.enc \in U32
  /\ pc \in {"encrypt_txt", "additional_txt"} =>
       /\ Header + local.enc + local.add <= local.len
       /\ local.enc + local.add <= Room
  /\ pc \in {"additional_txt", "fields"} => local.encrypt \in Payload
  /\ pc = "fields" => local.additional \in Payload

\* The shape of the state.
Typed ==
  /\ pc \in {"idle", "key", "encrypt", "copy", "lengths", "encrypt_len", "payload",
             "encrypt_txt", "additional_txt", "fields"}
  /\ object \in Object /\ raw \in Raw /\ writes \in 0 .. MaxWrite
  /\ SealedFits /\ SealingFits /\ ReadingFits

--------------------------------------------------------------------------------
\* The object is what the library gave a tag to.
SealOf(o, e) ==
  /\ o.key_request = e.tag /\ o.payload_tag = e.tag
  /\ o.payload_size = Len(e.text) + Len(e.additional)
  /\ o.encrypt = Encrypted(e.tag, e.text) /\ o.additional = e.additional

ObjectIntact == object.whole => \E e \in sealed : SealOf(object, e)

\* The copy of additional text nobody else writes is what the library read.
CopyIntact ==
  pc = "copy" =>
    \E e \in sealed :
      /\ e.tag = Cardinality(sealed) /\ e.text = local.text
      /\ outer = << >> \/ local.place = "inside" => e.additional = outer

\* The buffer is what to_raw makes of such an object.
RawOf(b, e) ==
  /\ b.key_request = e.tag /\ b.payload_tag = e.tag
  /\ b.plain_text_offset = Len(e.text)
  /\ b.payload_size = Len(e.text) + Len(e.additional)
  /\ \A i \in 1 .. Len(e.text) : b.bytes[i] = Encrypted(e.tag, e.text)[i]
  /\ \A i \in 1 .. Len(e.additional) : b.bytes[Len(e.text) + i] = e.additional[i]

RawIntact == raw.whole => \E e \in sealed : RawOf(raw, e)

\* While nobody writes the buffer, what has been read of it is what it holds.
ReadingIntact ==
  raw.whole =>
    /\ pc \in {"encrypt_len", "payload", "encrypt_txt", "additional_txt"} =>
         local.add = raw.payload_size - raw.plain_text_offset
    /\ pc \in {"payload", "encrypt_txt", "additional_txt"} => local.enc = raw.plain_text_offset
    /\ pc \in {"additional_txt", "fields"} =>
         local.encrypt = SubSeq(raw.bytes, 1, raw.plain_text_offset)
    /\ pc = "fields" =>
         local.additional = SubSeq(raw.bytes, raw.plain_text_offset + 1, raw.payload_size)

\* Nothing is other than it was sealed unless somebody else wrote it.
Intact == ObjectIntact /\ CopyIntact /\ RawIntact /\ ReadingIntact

--------------------------------------------------------------------------------
(* The calls of the cryptographic library                                      *)

\* A length that is checked is not changed by the cast.
LEMMA CastsFit ==
  /\ \A n \in Nat : n <= MaxU32 => AsU32(n) = n
  /\ \A n \in Nat : n <= MaxI32 => AsI32(n) = n
<1>1. MaxU32 \in Nat /\ MaxI32 \in Nat /\ MaxI32 <= MaxU32
  BY CallAssumption
<1>2. ASSUME NEW n \in Nat, n <= MaxU32 PROVE n % (MaxU32 + 1) = n
  BY <1>1, <1>2
<1>3. ASSUME NEW n \in Nat, n <= MaxI32 PROVE n <= MaxU32
  BY <1>1, <1>3
<1> QED BY <1>1, <1>2, <1>3 DEF AsU32, AsI32

\* A message whose length is checked against u32::MAX is passed with its length.
LEMMA MessageFaithful ==
  ASSUME NEW fn, NEW n \in Nat
  PROVE  Faithful(Message(fn, n))
<1> DEFINE b == Buffer(n, AsU32(n))
<1>1. n <= MaxU32 => b.told = b.has
  BY CastsFit DEF Buffer
<1>2. DOMAIN <<b>> = {1} /\ <<b>>[1] = b /\ DOMAIN << >> = {}
  OBVIOUS
<1> HIDE DEF b
<1> QED BY <1>1, <1>2 DEF Message, Made, Faithful, b

\* So is one to verify, and "valid" is said only where the library says so.
LEMMA VerifyFaithful ==
  ASSUME NEW n \in Nat, NEW status, NEW byte
  PROVE  /\ Faithful(rsgx_ecdsa_verify(n, status, byte))
         /\ Faithful(rsgx_rsa3072_verify(n, status, byte))
<1> DEFINE b == Buffer(n, AsU32(n))
<1>1. n <= MaxU32 => b.told = b.has
  BY CastsFit DEF Buffer
<1>2. DOMAIN <<b>> = {1} /\ <<b>>[1] = b /\ DOMAIN << >> = {}
  OBVIOUS
<1> HIDE DEF b
<1>3. ASSUME status = "success", ecdsa_result(status, byte) = "valid" PROVE byte = "valid"
  BY <1>3 DEF ecdsa_result
<1> QED BY <1>1, <1>2, <1>3
        DEF rsgx_ecdsa_verify, rsgx_rsa3072_verify, Message, Made, Faithful, b

\* A cipher, with or without a vector and additional data.
LEMMA CipherFaithful ==
  ASSUME NEW fn, NEW least, NEW src \in Nat, NEW dst \in Nat
  PROVE  Faithful(Cipher(fn, least, src, dst))
<1> DEFINE b == Buffer(src, AsU32(src))
           d == Buffer(dst, AsU32(src))
<1>1. src <= MaxU32 /\ dst >= src => b.told = b.has /\ d.told \in 0 .. d.has
  BY CastsFit DEF Buffer
<1>2. /\ DOMAIN <<b>> = {1} /\ <<b>>[1] = b
      /\ DOMAIN <<d>> = {1} /\ <<d>>[1] = d
  OBVIOUS
<1> HIDE DEF b, d
<1> QED BY <1>1, <1>2 DEF Cipher, Made, Faithful, b, d

\* Additional data, checked the same way, leaves a faithful cipher faithful.
LEMMA AuthenticatedFaithful ==
  ASSUME NEW c, c = Made(c.fn, c.accepted, c.reads, c.writes), NEW iv_ok \in BOOLEAN, NEW aad \in Nat,
         c.accepted \in BOOLEAN, Faithful(c), NEW S, c.reads \in Seq(S)
  PROVE  Faithful(Authenticated(c, iv_ok, aad))
<1> DEFINE b == Buffer(aad, AsU32(aad))
           r == Append(c.reads, b)
           a == Authenticated(c, iv_ok, aad)
<1>1. aad <= MaxU32 => b.told = b.has
  BY CastsFit DEF Buffer
<1> HIDE DEF b
<1>2. ASSUME NEW i \in DOMAIN r PROVE (i \in DOMAIN c.reads /\ r[i] = c.reads[i]) \/ r[i] = b
  <2> DEFINE s == c.reads
  <2> HIDE DEF s
  <2>1. s \in Seq(S \cup {b}) /\ b \in S \cup {b} /\ r = Append(s, b) /\ i \in DOMAIN r
    BY DEF s
  <2>2. /\ Len(s) \in Nat /\ DOMAIN s = 1 .. Len(s)
        /\ Append(s, b) \in Seq(S \cup {b}) /\ Len(Append(s, b)) = Len(s) + 1
        /\ \A j \in 1 .. Len(s) : Append(s, b)[j] = s[j]
        /\ Append(s, b)[Len(s) + 1] = b
    BY <2>1, AppendProperties, LenProperties
  <2>3. DOMAIN r = 1 .. Len(s) + 1
    BY <2>1, <2>2, LenProperties
  <2> QED BY <2>1, <2>2, <2>3 DEF s
<1>3. a.reads = r /\ a.writes = c.writes /\ ~a.answer /\ (a.accepted => c.accepted /\ aad <= MaxU32)
  <2>1. a = [c EXCEPT !.accepted = c.accepted /\ iv_ok /\ aad <= MaxU32, !.reads = r]
    BY DEF Authenticated, b
  <2>2. DOMAIN c = {"fn", "accepted", "reads", "writes", "said", "answer"} /\ ~c.answer
    BY DEF Made
  <2> HIDE DEF r, a
  <2>3. a.reads = r /\ a.writes = c.writes /\ ~a.answer
    BY <2>1, <2>2
  <2>4. a.accepted = (c.accepted /\ iv_ok /\ aad <= MaxU32)
    BY <2>1, <2>2
  <2> QED BY <2>3, <2>4
<1> HIDE DEF r, a
<1>4. Faithful(a)
  BY <1>1, <1>2, <1>3 DEF Faithful
<1> QED BY <1>4 DEF a

\* The authenticated ciphers are: one of a text with additional data, and the start of
\* a stream.
LEMMA GcmFaithful ==
  ASSUME NEW src \in Nat, NEW dst \in Nat, NEW aad \in Nat, NEW iv_ok \in BOOLEAN
  PROVE  /\ Faithful(rsgx_rijndael128GCM_encrypt(src, iv_ok, aad, dst))
         /\ Faithful(rsgx_rijndael128GCM_decrypt(src, iv_ok, aad, dst))
         /\ Faithful(rsgx_aes_gcm128_enc_init(iv_ok, aad))
<1>1. ASSUME NEW fn PROVE Faithful(Authenticated(Cipher(fn, 0, src, dst), iv_ok, aad))
  <2> DEFINE c == Cipher(fn, 0, src, dst)
             b == Buffer(src, AsU32(src))
  <2>1. c.reads = <<b>> /\ <<b>> \in Seq({b})
    BY DEF Cipher, Made
  <2>2. c = Made(c.fn, c.accepted, c.reads, c.writes) /\ Faithful(c) /\ c.accepted \in BOOLEAN
    BY CipherFaithful DEF Cipher, Made
  <2> HIDE DEF c, b
  <2>3. Faithful(Authenticated(c, iv_ok, aad))
    BY <2>1, <2>2, AuthenticatedFaithful
  <2> QED BY <2>3 DEF c
<1>2. Faithful(rsgx_aes_gcm128_enc_init(iv_ok, aad))
  <2> DEFINE c == Made("gcm_init", TRUE, << >>, << >>)
  <2>1. c.reads = << >> /\ << >> \in Seq({}) /\ c = Made(c.fn, c.accepted, c.reads, c.writes)
    BY DEF Made
  <2>2. Faithful(c) /\ c.accepted \in BOOLEAN
    BY DEF Made, Faithful
  <2> HIDE DEF c
  <2>3. Faithful(Authenticated(c, iv_ok, aad))
    BY <2>1, <2>2, AuthenticatedFaithful
  <2> QED BY <2>3 DEF c, rsgx_aes_gcm128_enc_init
<1> QED BY <1>1, <1>2 DEF rsgx_rijndael128GCM_encrypt, rsgx_rijndael128GCM_decrypt

\* Slices whose lengths are passed as i32.
LEMMA PrivateKeyFaithful ==
  ASSUME NEW x \in Nat, NEW y \in Nat, NEW z \in Nat
  PROVE  /\ Faithful(rsgx_calculate_ecdsa_priv_key(x, y, z))
         /\ Faithful(rsgx_ecc256_priv_key(x, y))
<1> DEFINE b == Buffer(x, AsI32(x))
           c == Buffer(y, AsI32(y))
           d == Buffer(z, AsI32(z))
<1>1. /\ Short(x) => b.told = b.has
      /\ Short(y) => c.told = c.has
      /\ Short(z) => d.told \in 0 .. d.has
  BY CastsFit, CallAssumption DEF Buffer, Short
<1>2. /\ DOMAIN <<b, c>> = {1, 2} /\ <<b, c>>[1] = b /\ <<b, c>>[2] = c
      /\ DOMAIN <<d>> = {1} /\ <<d>>[1] = d /\ DOMAIN << >> = {}
  OBVIOUS
<1> HIDE DEF b, c, d
<1> QED BY <1>1, <1>2 DEF rsgx_calculate_ecdsa_priv_key, rsgx_ecc256_priv_key, Made, Faithful, b, c, d

\* RSA of a message passes lengths as they are.
LEMMA RsaFaithful ==
  ASSUME NEW fn, NEW n \in Nat, NEW out \in Nat, NEW out_len \in Nat
  PROVE  Faithful(Rsa(fn, n, out, out_len))
<1> DEFINE b == Buffer(n, n)
           d == Buffer(out, out_len)
<1>1. b.told = b.has /\ (out = out_len => d.told \in 0 .. d.has)
  BY DEF Buffer
<1>2. /\ DOMAIN <<b>> = {1} /\ <<b>>[1] = b
      /\ DOMAIN <<d>> = {1} /\ <<d>>[1] = d /\ DOMAIN << >> = {}
  OBVIOUS
<1> HIDE DEF b, d
<1> QED BY <1>1, <1>2 DEF Rsa, Made, Faithful, b, d

\* Every call tells the truth but those whose length has another type than the check,
\* and those whose size is not that of the slice.
LEMMA CallsFaithful ==
  \A k \in Calls : k.fn \notin {"hmac", "rsa_key_pair", "rsa_key"} => Faithful(k)
<1> SUFFICES ASSUME NEW k \in Calls, k.fn \notin {"hmac", "rsa_key_pair", "rsa_key"}
             PROVE  Faithful(k)
  OBVIOUS
<1>0. Length \subseteq Nat
  BY CallAssumption
<1>1. CASE k \in MessageCalls
  <2>1. PICK n \in Length :
          k \in {rsgx_sha256(n), rsgx_sha384(n), rsgx_sha1(n), rsgx_rijndael128_cmac(n),
                rsgx_ecdsa_sign(n), rsgx_rsa3072_sign(n), rsgx_rsa3072_sign_ex(n),
                rsgx_hmac_sha256(n)}
    BY <1>1 DEF MessageCalls
  <2>2. rsgx_hmac_sha256(n).fn = "hmac"
    BY DEF rsgx_hmac_sha256, Message, Made
  <2> QED BY <1>0, <2>1, <2>2, MessageFaithful
          DEF rsgx_sha256, rsgx_sha384, rsgx_sha1, rsgx_rijndael128_cmac, rsgx_ecdsa_sign,
              rsgx_rsa3072_sign, rsgx_rsa3072_sign_ex
<1>2. CASE k \in VerifyCalls
  <2>1. PICK n \in Length, status \in Status, byte \in ResultByte :
          k \in {rsgx_ecdsa_verify(n, status, byte), rsgx_rsa3072_verify(n, status, byte)}
    BY <1>2 DEF VerifyCalls
  <2> QED BY <1>0, <2>1, VerifyFaithful
<1>3. CASE k \in CipherCalls
  <2>1. PICK src \in Length, aad \in Length, dst \in Length, iv_ok \in BOOLEAN :
          k \in {rsgx_rijndael128GCM_encrypt(src, iv_ok, aad, dst),
                rsgx_rijndael128GCM_decrypt(src, iv_ok, aad, dst),
                rsgx_aes_gcm128_enc_init(iv_ok, aad),
                rsgx_aes_ctr_encrypt(src, dst), rsgx_aes_ctr_decrypt(src, dst),
                rsgx_aes_gcm128_enc_update(src, dst)}
    BY <1>3 DEF CipherCalls
  <2> QED BY <1>0, <2>1, GcmFaithful, CipherFaithful
          DEF rsgx_aes_ctr_encrypt, rsgx_aes_ctr_decrypt, rsgx_aes_gcm128_enc_update
<1>4. CASE k \in SliceCalls
  <2>1. PICK a \in Length, b \in Length, c \in Length :
          k \in {rsgx_calculate_ecdsa_priv_key(a, b, c), rsgx_ecc256_priv_key(a, b),
                rsgx_rsa_priv_decrypt_sha256(a, b, c), rsgx_rsa_pub_encrypt_sha256(a, b, c)}
    BY <1>4 DEF SliceCalls
  <2> QED BY <1>0, <2>1, PrivateKeyFaithful, RsaFaithful
          DEF rsgx_rsa_priv_decrypt_sha256, rsgx_rsa_pub_encrypt_sha256
<1>5. CASE k \in RsaKeyCalls
  BY <1>5 DEF RsaKeyCalls, rsgx_create_rsa_key_pair, rsgx_create_rsa_key, Made
<1> QED BY <1>1, <1>2, <1>3, <1>4, <1>5 DEF Calls

--------------------------------------------------------------------------------
(* Lengths, buffers and objects                                                *)

\* Lengths are numbers, and a buffer has room for a payload.
LEMMA RoomIsNat == MaxU32 \in Nat /\ Header \in Nat /\ Header >= 1 /\ Room \in Nat /\ MaxU32 = Room + Header + 1
BY CallAssumption, SealAssumption DEF Room

\* A sum or a cast that fits is not changed.
LEMMA ModFits ==
  ASSUME NEW n \in Nat, n <= MaxU32
  PROVE  n % (MaxU32 + 1) = n
BY RoomIsNat

\* Payloads are the sequences of bytes a buffer has room for.
LEMMA PayloadForm == ASSUME NEW s PROVE s \in Payload <=> s \in Seq(Byte) /\ Len(s) <= Room
<1>1. ASSUME s \in Payload PROVE s \in Seq(Byte) /\ Len(s) <= Room
  <2>1. PICK n \in 0 .. Room : s \in [1 .. n -> Byte]
    BY <1>1 DEF Payload
  <2>2. n \in Nat
    BY RoomIsNat
  <2> HIDE DEF Byte
  <2> QED BY <2>1, <2>2, RoomIsNat
<1>2. ASSUME s \in Seq(Byte), Len(s) <= Room PROVE s \in Payload
  <2>1. Len(s) \in 0 .. Room /\ s \in [1 .. Len(s) -> Byte]
    BY <1>2, RoomIsNat
  <2> QED BY <2>1 DEF Payload
<1> QED BY <1>1, <1>2

\* k bytes of a buffer from byte m + 1 on.
LEMMA SliceForm ==
  ASSUME NEW b \in [1 .. Room -> Byte], NEW m \in Nat, NEW k \in Nat, m + k <= Room
  PROVE  /\ SubSeq(b, m + 1, m + k) \in Seq(Byte)
         /\ Len(SubSeq(b, m + 1, m + k)) = k
         /\ \A i \in 1 .. k : SubSeq(b, m + 1, m + k)[i] = b[m + i]
<1> DEFINE s == SubSeq(b, m + 1, m + k)
           first == m + 1
           last == m + k
<1>1. first \in Int /\ last \in Int /\ \A i \in first .. last : b[i] \in Byte
  BY RoomIsNat
<1>2. s = SubSeq(b, first, last)
  OBVIOUS
<1> HIDE DEF s, first, last
<1>3. /\ s \in Seq(Byte)
      /\ Len(s) = IF first <= last THEN last - first + 1 ELSE 0
      /\ \A i \in 1 .. last - first + 1 : s[i] = b[first + i - 1]
  BY <1>1, <1>2, SubSeqProperties
<1> USE DEF first, last
<1>4. Len(s) = k /\ \A i \in 1 .. k : s[i] = b[m + i]
  <2>1. last - first + 1 = k /\ (first <= last <=> k # 0)
    OBVIOUS
  <2>2. Len(s) = k
    BY <1>3, <2>1
  <2>3. ASSUME NEW i \in 1 .. k PROVE s[i] = b[m + i]
    <3>1. first + i - 1 = m + i
      OBVIOUS
    <3> HIDE DEF first, last
    <3> QED BY <1>3, <2>1, <3>1
  <2> QED BY <2>2, <2>3
<1> QED BY <1>3, <1>4 DEF s

\* The cipher keeps the length, and undoes itself under the same key.
LEMMA EncryptedForm ==
  ASSUME NEW t \in Nat, NEW s \in Seq(Byte)
  PROVE  /\ Encrypted(t, s) \in Seq(Byte)
         /\ Len(Encrypted(t, s)) = Len(s)
         /\ Encrypted(t, Encrypted(t, s)) = s
<1> DEFINE n == Len(s)
<1>1. n \in Nat /\ s \in [1 .. n -> Byte]
  OBVIOUS
<1>2. DOMAIN s = 1 .. n
  BY <1>1
<1>3. \A i \in 1 .. n : (s[i] + t) % 2 \in Byte /\ (((s[i] + t) % 2) + t) % 2 = s[i]
  BY <1>1 DEF Byte
<1>4. Encrypted(t, s) = [i \in 1 .. n |-> (s[i] + t) % 2]
  BY <1>2 DEF Encrypted
<1>5. Encrypted(t, s) \in [1 .. n -> Byte]
  BY <1>3, <1>4
<1>6. Encrypted(t, s) \in Seq(Byte) /\ Len(Encrypted(t, s)) = n
  BY <1>1, <1>5
<1>7. Encrypted(t, Encrypted(t, s)) = [i \in 1 .. n |-> (Encrypted(t, s)[i] + t) % 2]
  BY <1>4 DEF Encrypted
<1>8. \A i \in 1 .. n : Encrypted(t, Encrypted(t, s))[i] = s[i]
  BY <1>3, <1>4, <1>7
<1>9. Encrypted(t, Encrypted(t, s)) = s
  BY <1>1, <1>7, <1>8
<1> QED BY <1>6, <1>9

\* A size that is not the error value is that of the two texts and the header.
LEMMA SizeFits ==
  ASSUME NEW a \in U32, NEW b \in U32
  PROVE  /\ sgx_calc_sealed_data_size(a, b) # MaxU32 <=> a + b <= Room
         /\ calc_raw_sealed_data_size(a, b) # MaxU32 <=> a + b <= Room
         /\ a + b <= Room => /\ sgx_calc_sealed_data_size(a, b) = Header + a + b
                             /\ Plus(a, b) = a + b
<1>1. a + b <= Room => Plus(a, b) = a + b
  BY ModFits, RoomIsNat DEF U32, Plus
<1> QED BY <1>1, RoomIsNat DEF U32, sgx_calc_sealed_data_size, calc_raw_sealed_data_size

\* The bytes of a view are as many as its elements have.
LEMMA ElementsForm ==
  ASSUME NEW view \in Views, NEW size \in Nat, NEW n \in Nat, Elements(view, size, n) # 0
  PROVE  n >= 1 /\ size * Elements(view, size, n) = n
<1>1. size # 0
  BY DEF Elements, ValueOfBytes, SliceOfBytes
<1>2. CASE view = "T"
  <2>1. n = size /\ Elements(view, size, n) = 1
    BY <1>2 DEF Elements, ValueOfBytes
  <2> QED BY <1>1, <2>1
<1>3. CASE view # "T"
  <2>1. n % size = 0 /\ Elements(view, size, n) = n \div size
    BY <1>3 DEF Elements, SliceOfBytes
  <2>2. \E k \in Nat : n = size * k /\ n \div size = k
    BY <1>1, <2>1, SMTT(30)
  <2>3. n # 0
    BY <1>1, <2>1
  <2> QED BY <2>1, <2>2, <2>3
<1> QED BY <1>2, <1>3

--------------------------------------------------------------------------------
\* What a tag was given to, encrypted, is an object.
LEMMA EntryForm ==
  ASSUME SealedFits, NEW e \in sealed
  PROVE  /\ e.tag \in Tag /\ e.tag \in Nat /\ e.op \in {"seal", "mac"}
         /\ e.op = "seal" <=> e.text # << >>
         /\ e.text \in Seq(Byte) /\ e.additional \in Seq(Byte)
         /\ Len(e.text) \in U32 /\ Len(e.additional) \in U32
         /\ Len(e.text) + Len(e.additional) <= Room
         /\ Len(e.text) + Len(e.additional) \in U32
         /\ Encrypted(e.tag, e.text) \in Payload /\ e.additional \in Payload
         /\ Encrypted(e.tag, e.text) \in Seq(Byte)
         /\ Len(Encrypted(e.tag, e.text)) = Len(e.text)
<1>1. e \in Entry /\ Len(e.text) + Len(e.additional) <= Room /\ (e.op = "seal" <=> e.text # << >>)
  BY DEF SealedFits
<1>2. /\ e.tag \in 1 .. MaxSeal /\ e.op \in {"seal", "mac"}
      /\ e.text \in Seq(Byte) /\ e.additional \in Seq(Byte)
  BY <1>1 DEF Entry
<1>3. e.tag \in Tag /\ e.tag \in Nat
  BY <1>2, SealAssumption DEF Tag
<1> DEFINE a == Len(e.text)
           b == Len(e.additional)
           c == Encrypted(e.tag, e.text)
<1>4. a \in Nat /\ b \in Nat
  BY <1>2
<1>5. c \in Seq(Byte) /\ Len(c) = a
  BY <1>2, <1>3, EncryptedForm
<1>6. a + b <= Room
  BY <1>1
<1> HIDE DEF a, b, c
<1>7. a \in U32 /\ b \in U32 /\ a + b \in U32 /\ a <= Room /\ b <= Room
  BY <1>4, <1>6, RoomIsNat DEF U32
<1>8. c \in Payload
  BY <1>5, <1>7, PayloadForm
<1>9. e.additional \in Payload
  BY <1>2, <1>7, PayloadForm DEF b
<1> QED BY <1>1, <1>2, <1>3, <1>5, <1>6, <1>7, <1>8, <1>9 DEF a, b, c

\* An object is typed by its fields.
LEMMA ObjectForm ==
  Object = [key_request : Tag, payload_size : U32, payload_tag : Tag,
            encrypt : Payload, additional : Payload, whole : BOOLEAN]
BY DEF Object, Payload

\* The default object is one.
LEMMA DefaultFits == Default \in Object
<1>1. << >> \in Payload
  <2>1. << >> \in [1 .. 0 -> Byte] /\ 0 \in 0 .. Room
    BY RoomIsNat
  <2> QED BY <2>1 DEF Payload
<1>2. 0 \in Tag /\ 0 \in U32
  BY RoomIsNat, SealAssumption DEF Tag, U32
<1> QED BY <1>1, <1>2, ObjectForm DEF Default

\* What to_raw leaves in a buffer is typed.
LEMMA WrittenFits ==
  ASSUME raw \in Raw, NEW o, o.key_request \in Tag, o.payload_tag \in Tag, o.payload_size \in U32,
         o.encrypt \in Payload, o.additional \in Payload,
         NEW outside \in BOOLEAN, NEW whole \in BOOLEAN
  PROVE  InBuffer(Written(o), outside, whole) \in Raw
<1> DEFINE t == o.encrypt \o o.additional
<1>1. o.encrypt \in Seq(Byte) /\ Len(o.encrypt) <= Room /\ o.additional \in Seq(Byte)
  BY PayloadForm
<1>2. t \in Seq(Byte)
  BY <1>1
<1>3. \A i \in 1 .. Room : (IF i <= Len(t) THEN t[i] ELSE raw.bytes[i]) \in Byte
  <2> HIDE DEF t
  <2>1. Len(t) \in Nat /\ \A i \in 1 .. Len(t) : t[i] \in Byte
    BY <1>2
  <2>2. \A i \in 1 .. Room : raw.bytes[i] \in Byte
    BY DEF Raw
  <2>3. ASSUME NEW i \in 1 .. Room PROVE (IF i <= Len(t) THEN t[i] ELSE raw.bytes[i]) \in Byte
    <3>1. CASE i <= Len(t)
      <4>1. i \in 1 .. Len(t)
        BY <2>1, <3>1, RoomIsNat
      <4> QED BY <2>1, <3>1, <4>1
    <3>2. CASE ~(i <= Len(t))
      BY <2>2, <3>2
    <3> QED BY <3>1, <3>2
  <2> QED BY <2>3
<1>4. [i \in 1 .. Room |-> IF i <= Len(t) THEN t[i] ELSE raw.bytes[i]] \in [1 .. Room -> Byte]
  BY <1>3
<1>5. Len(o.encrypt) \in U32
  BY <1>1, RoomIsNat DEF U32
<1>6. Written(o).bytes = [i \in 1 .. Room |-> IF i <= Len(t) THEN t[i] ELSE raw.bytes[i]]
  BY DEF Written
<1> HIDE DEF t
<1>7. Written(o).bytes \in [1 .. Room -> Byte]
  BY <1>4, <1>6
<1> QED BY <1>5, <1>7 DEF InBuffer, Written, Raw

\* The shape of the state includes the type invariant of SealedData.
LEMMA TypedIsTyped == Typed => TypeOK
<1>1. raw \in Raw => /\ raw.plain_text_offset \in U32 /\ raw.payload_size \in U32
                     /\ raw.payload_tag \in Tag /\ raw.key_request \in Tag
                     /\ raw.bytes \in [1 .. Room -> Byte]
                     /\ raw.outside \in BOOLEAN /\ raw.whole \in BOOLEAN
  BY DEF Raw
<1>2. SealedFits => /\ Cardinality(sealed) <= MaxSeal
                    /\ \A e \in sealed : /\ e.tag \in 1 .. MaxSeal
                                          /\ Len(e.text) + Len(e.additional) <= Room
  BY DEF SealedFits, Entry
<1> QED BY <1>1, <1>2, Zenon DEF Typed, TypeOK

\* The initial state has the shape.
LEMMA InitTyped == Init => Typed
<1> SUFFICES ASSUME Init PROVE Typed
  OBVIOUS
<1>1. raw \in Raw
  BY RoomIsNat, SealAssumption DEF Init, Raw, Tag, U32, Byte
<1>2. sealed = {} /\ IsFiniteSet({}) /\ Cardinality({}) = 0
  BY FS_EmptySet DEF Init
<1>3. SealedFits
  BY <1>2, SealAssumption DEF SealedFits
<1>4. SealingFits /\ ReadingFits /\ writes \in 0 .. MaxWrite
  BY SealAssumption DEF Init, SealingFits, ReadingFits, Sealing
<1> QED BY <1>1, <1>3, <1>4, DefaultFits DEF Init, Typed

\* A step that returns leaves no call behind.
LEMMA IdleFits ==
  ASSUME Typed, pc' = "idle", UNCHANGED <<raw, sealed, writes>>, object' \in Object
  PROVE  Typed'
BY DEF Typed, SealedFits, SealingFits, ReadingFits, Sealing

\* A seal starts with arguments that a buffer has room for, or not at all.
LEMMA SealTyped ==
  ASSUME Typed, NEW op \in {"seal", "mac"}, NEW view, NEW size, NEW text \in Seq(Byte),
         NEW add \in Seq(Byte), NEW policy_ok, NEW place,
         op = "seal" \/ text = << >>,
         Seal(op, view, size, text, add, policy_ok, place)
  PROVE  Typed'
<1>1. CASE SealArguments(op, view, size, text, add, policy_ok, place)
  <2>1. Len(text) \in U32 /\ Len(add) \in U32
    BY <1>1, RoomIsNat DEF SealArguments, U32
  <2>2. Len(text) + Len(add) <= Room /\ (op = "seal" => text # << >>)
    <3>1. Len(add) + Len(text) <= Room
      BY <1>1, <2>1, SizeFits DEF SealArguments
    <3>2. Len(<< >>) = 0
      OBVIOUS
    <3> QED BY <1>1, <2>1, <3>1, <3>2 DEF SealArguments, U32
  <2>3. pc' = "key" /\ local' = [op |-> op, text |-> text, place |-> place] /\ outer' = add
        /\ object' = Default /\ UNCHANGED <<raw, sealed, writes>> /\ Cardinality(sealed) < MaxSeal
    BY <1>1 DEF Seal
  <2>4. local'.op = op /\ local'.text = text
    BY <2>3
  <2>5. SealingFits'
    BY <2>2, <2>3, <2>4 DEF SealingFits, Sealing
  <2> QED BY <2>3, <2>5, DefaultFits DEF Typed, SealedFits, ReadingFits
<1>2. CASE ~SealArguments(op, view, size, text, add, policy_ok, place)
  BY <1>2, IdleFits DEF Seal, Returns, Typed
<1> QED BY <1>1, <1>2

\* The tag is a new one, and what the library read is what there is to copy.
LEMMA SealEncryptTyped == ASSUME Typed, seal_encrypt PROVE Typed' /\ CopyIntact'
<1> DEFINE e == [tag |-> Cardinality(sealed) + 1, op |-> local.op, text |-> local.text,
                 additional |-> outer]
<1>1. pc = "encrypt" /\ pc' = "copy" /\ sealed' = sealed \cup {e}
      /\ UNCHANGED <<local, object, raw, outer, writes>>
  BY DEF seal_encrypt
<1>2. /\ local.op \in {"seal", "mac"} /\ local.text \in Seq(Byte) /\ outer \in Seq(Byte)
      /\ Len(local.text) + Len(outer) <= Room
      /\ local.op = "seal" <=> local.text # << >>
      /\ Cardinality(sealed) < MaxSeal /\ Cardinality(sealed) \in Nat
      /\ IsFiniteSet(sealed)
  BY <1>1, FS_CardinalityType DEF Typed, SealingFits, SealedFits, Sealing
<1>3. e \in Entry
  BY <1>2, SealAssumption DEF Entry
<1>4. Len(e.text) + Len(e.additional) <= Room /\ (e.op = "seal" <=> e.text # << >>)
  BY <1>2
<1>5. e.tag = Cardinality(sealed) + 1
  OBVIOUS
<1> HIDE DEF e
<1>6. e \notin sealed
  <2>1. \A x \in sealed : x.tag <= Cardinality(sealed)
    BY DEF Typed, SealedFits
  <2> QED BY <1>2, <1>5, <2>1
<1>7. IsFiniteSet(sealed') /\ Cardinality(sealed') = Cardinality(sealed) + 1
  BY <1>1, <1>2, <1>6, FS_AddElement
<1>8. Cardinality(sealed') <= MaxSeal
  BY <1>2, <1>7, SealAssumption
<1>9. \A x \in sealed' : x.tag <= Cardinality(sealed')
  <2>1. ASSUME NEW x \in sealed PROVE x.tag <= Cardinality(sealed) /\ x.tag \in Int
    <3>1. x \in Entry /\ x.tag <= Cardinality(sealed)
      BY DEF Typed, SealedFits
    <3>2. x.tag \in 1 .. MaxSeal
      BY <3>1 DEF Entry
    <3> QED BY <3>1, <3>2, SealAssumption
  <2> QED BY <1>1, <1>2, <1>5, <1>7, <2>1
<1>10. SealedFits'
  BY <1>1, <1>3, <1>4, <1>7, <1>8, <1>9 DEF Typed, SealedFits
<1>11. Typed'
  BY <1>1, <1>2, <1>10 DEF Typed, SealingFits, ReadingFits, Sealing
<1>12. e \in sealed' /\ e.tag = Cardinality(sealed') /\ e.text = local.text /\ e.additional = outer
  BY <1>1, <1>5, <1>7 DEF e
<1>13. CopyIntact'
  BY <1>1, <1>12 DEF CopyIntact
<1> QED BY <1>11, <1>13

\* The object a seal makes is one.
LEMMA SealCopyTyped == ASSUME Typed, seal_copy PROVE Typed'
<1> DEFINE n == Cardinality(sealed)
<1>1. pc = "copy"
  BY DEF seal_copy
<1>2. /\ local.text \in Seq(Byte) /\ outer \in Seq(Byte)
      /\ Len(local.text) + Len(outer) <= Room
      /\ n \in Nat /\ n <= MaxSeal
  BY <1>1, FS_CardinalityType DEF Typed, SealingFits, SealedFits, Sealing
<1>3. Encrypted(n, local.text) \in Payload /\ outer \in Payload
  <2> DEFINE c == Encrypted(n, local.text)
  <2>1. c \in Seq(Byte) /\ Len(c) = Len(local.text)
    BY <1>2, EncryptedForm
  <2>2. Len(c) <= Room /\ Len(outer) <= Room
    BY <1>2, <2>1, RoomIsNat
  <2> HIDE DEF c
  <2>3. c \in Payload /\ outer \in Payload
    BY <1>2, <2>1, <2>2, PayloadForm
  <2> QED BY <2>3 DEF c
<1>4. n \in Tag /\ Len(local.text) + Len(outer) \in U32
  BY <1>2, RoomIsNat, SealAssumption DEF Tag, U32
<1>5. object' \in Object
  <2> HIDE DEF n
  <2>1. (outer = << >> \/ local.place = "inside") \in BOOLEAN
    OBVIOUS
  <2>2. object' = [key_request |-> n, payload_size |-> Len(local.text) + Len(outer),
                   payload_tag |-> n, encrypt |-> Encrypted(n, local.text), additional |-> outer,
                   whole |-> outer = << >> \/ local.place = "inside"]
    BY DEF seal_copy, n
  <2> QED BY <1>3, <1>4, <2>1, <2>2, ObjectForm
<1> QED BY <1>5, IdleFits DEF seal_copy, Returns

\* Each read of a buffer leaves the call in a state to go on from; check_payload is
\* after the last read of a length, and the sizes it compares cannot have wrapped.
LEMMA ReadTyped ==
  ASSUME Typed,
         \/ read_additional_len \/ read_encrypt_len \/ check_payload
         \/ copy_encrypt \/ copy_additional \/ read_fields
  PROVE  Typed'
<1>0. /\ raw \in Raw /\ raw.plain_text_offset \in U32 /\ raw.payload_size \in U32
      /\ raw.bytes \in [1 .. Room -> Byte]
  BY RoomIsNat DEF Typed, Raw
<1>1. CASE read_additional_len
  <2>1. sgx_get_add_mac_txt_len(raw) \in U32
    BY <1>0, RoomIsNat DEF sgx_get_add_mac_txt_len, U32
  <2> QED BY <1>1, <2>1 DEF read_additional_len, Typed, SealedFits, SealingFits, ReadingFits, Sealing
<1>2. CASE read_encrypt_len
  <2>1. sgx_get_encrypt_txt_len(raw) \in U32
    BY <1>0, RoomIsNat DEF sgx_get_encrypt_txt_len, U32
  <2>2. CASE None
    BY <1>2, <2>2, IdleFits DEF read_encrypt_len, None, Returns, Typed
  <2>3. CASE ~None
    <3>1. /\ pc = "encrypt_len" /\ pc' = "payload" /\ UNCHANGED <<object, raw, sealed, writes>>
          /\ local' = [len |-> local.len, add |-> local.add, enc |-> sgx_get_encrypt_txt_len(raw)]
      BY <1>2, <2>3 DEF read_encrypt_len
    <3> QED BY <2>1, <3>1 DEF Typed, SealedFits, SealingFits, ReadingFits, Sealing
  <2> QED BY <2>2, <2>3
<1>3. CASE check_payload
  <2>1. CASE None
    BY <1>3, <2>1, IdleFits DEF check_payload, None, Returns, Typed
  <2>2. CASE ~None
    <3>1. /\ pc = "payload" /\ pc' = "encrypt_txt" /\ UNCHANGED <<local, object, raw, sealed, writes>>
          /\ Fits(local.add, local.enc, local.len)
          /\ local.add \in U32 /\ local.enc \in U32 /\ local.len \in U32
      BY <1>3, <2>2 DEF check_payload, Typed, ReadingFits
    <3>2. local.add + local.enc <= Room /\ Header + local.add + local.enc <= local.len
      BY <3>1, SizeFits DEF Fits
    <3>3. Header + local.enc + local.add <= local.len /\ local.enc + local.add <= Room
      BY <3>1, <3>2, RoomIsNat DEF U32
    <3> QED BY <3>1, <3>3 DEF Typed, SealedFits, SealingFits, ReadingFits, Sealing
  <2> QED BY <2>1, <2>2
<1>4. CASE copy_encrypt
  <2>1. pc = "encrypt_txt" /\ local.add \in U32 /\ local.enc \in U32 /\ local.enc + local.add <= Room
    BY <1>4 DEF copy_encrypt, Typed, ReadingFits
  <2>2. SubSeq(raw.bytes, 1, local.enc) \in Payload
    <3>1. local.enc \in Nat /\ 0 + local.enc <= Room /\ 0 + local.enc = local.enc /\ 0 + 1 = 1
      BY <2>1, RoomIsNat DEF U32
    <3>2. SubSeq(raw.bytes, 0 + 1, 0 + local.enc) \in Seq(Byte)
          /\ Len(SubSeq(raw.bytes, 0 + 1, 0 + local.enc)) = local.enc
      BY <1>0, <3>1, SliceForm
    <3>3. SubSeq(raw.bytes, 1, local.enc) \in Seq(Byte)
          /\ Len(SubSeq(raw.bytes, 1, local.enc)) <= Room
      BY <3>1, <3>2
    <3> QED BY <3>3, PayloadForm
  <2> QED BY <1>4, <2>1, <2>2 DEF copy_encrypt, Typed, SealedFits, SealingFits, ReadingFits, Sealing
<1>5. CASE copy_additional
  <2>1. pc = "additional_txt" /\ local.add \in U32 /\ local.enc \in U32 /\ local.enc + local.add <= Room
        /\ local.encrypt \in Payload
    BY <1>5 DEF copy_additional, Typed, ReadingFits
  <2> DEFINE a == SubSeq(raw.bytes, local.enc + 1, local.enc + local.add)
  <2>2. a \in Payload
    <3>1. local.enc \in Nat /\ local.add \in Nat /\ local.enc + local.add <= Room
      BY <2>1, RoomIsNat DEF U32
    <3>2. a \in Seq(Byte) /\ Len(a) = local.add
      BY <1>0, <3>1, SliceForm
    <3>3. Len(a) <= Room
      BY <3>1, <3>2, RoomIsNat
    <3> HIDE DEF a
    <3> QED BY <3>2, <3>3, PayloadForm
  <2>3. /\ pc' = "fields" /\ UNCHANGED <<object, raw, sealed, writes>>
        /\ local' = [encrypt |-> local.encrypt, additional |-> a]
    BY <1>5 DEF copy_additional
  <2> HIDE DEF a
  <2>4. local'.encrypt \in Payload /\ local'.additional \in Payload
    BY <2>1, <2>2, <2>3
  <2>5. ReadingFits'
    BY <2>3, <2>4 DEF ReadingFits
  <2> QED BY <2>3, <2>5 DEF Typed, SealedFits, SealingFits, Sealing
<1>6. CASE read_fields
  <2>1. local.encrypt \in Payload /\ local.additional \in Payload
    BY <1>6 DEF read_fields, Typed, ReadingFits
  <2>2. raw.key_request \in Tag /\ raw.payload_tag \in Tag /\ raw.whole \in BOOLEAN
    BY <1>0 DEF Raw
  <2>3. object' \in Object
    BY <1>0, <1>6, <2>1, <2>2, ObjectForm DEF read_fields
  <2> QED BY <1>6, <2>3, IdleFits DEF read_fields, Returns
<1> QED BY <1>1, <1>2, <1>3, <1>4, <1>5, <1>6

\* Whatever the host writes, a buffer stays a buffer, and is no longer as it was written.
LEMMA HostTyped ==
  ASSUME Typed, host_writes_header \/ host_writes_payload \/ host_restores \/ host_writes_outer
  PROVE  Typed' /\ (raw' = raw \/ ~raw'.whole)
<1>1. CASE \E b \in Raw : HostWrites(b)
  <2>1. PICK b \in Raw : HostWrites(b)
    BY <1>1
  <2>2. raw' \in Raw /\ ~raw'.whole
    BY <2>1 DEF HostWrites, Raw
  <2>3. writes' \in 0 .. MaxWrite
    BY <2>1, SealAssumption DEF HostWrites, Typed
  <2> QED BY <2>1, <2>2, <2>3 DEF HostWrites, Typed, SealedFits, SealingFits, ReadingFits, Sealing
<1>2. CASE host_writes_header
  <2>1. \A n \in Lie : n \in U32
    BY SealAssumption DEF U32
  <2>2. /\ \A n \in U32 : [raw EXCEPT !.plain_text_offset = n] \in Raw
        /\ \A n \in U32 : [raw EXCEPT !.payload_size = n] \in Raw
        /\ \A n \in Tag : [raw EXCEPT !.payload_tag = n] \in Raw
        /\ \A n \in Tag : [raw EXCEPT !.key_request = n] \in Raw
    BY DEF Typed, Raw
  <2>3. \E b \in Raw : HostWrites(b)
    BY <1>2, <2>1, <2>2 DEF host_writes_header
  <2> QED BY <1>1, <2>3
<1>3. CASE host_writes_payload
  <2>1. PICK i \in 1 .. Room : HostWrites([raw EXCEPT !.bytes[i] = 1 - @])
    BY <1>3 DEF host_writes_payload
  <2>2. raw.bytes \in [1 .. Room -> Byte] /\ 1 - raw.bytes[i] \in Byte
    <3>1. raw.bytes \in [1 .. Room -> Byte]
      BY DEF Typed, Raw
    <3>2. raw.bytes[i] = 0 \/ raw.bytes[i] = 1
      BY <3>1 DEF Byte
    <3> QED BY <3>1, <3>2 DEF Byte
  <2>3. [raw.bytes EXCEPT ![i] = 1 - raw.bytes[i]] \in [1 .. Room -> Byte]
    BY <2>2
  <2>4. [raw EXCEPT !.bytes[i] = 1 - @] = [raw EXCEPT !.bytes = [raw.bytes EXCEPT ![i] = 1 - raw.bytes[i]]]
    BY DEF Typed, Raw
  <2>5. [raw EXCEPT !.bytes[i] = 1 - @] \in Raw
    BY <2>3, <2>4 DEF Typed, Raw
  <2> QED BY <1>1, <2>1, <2>5
<1>4. CASE host_restores
  <2>1. PICK e \in sealed :
          HostWrites(InBuffer(Written([key_request |-> e.tag,
             payload_size |-> Len(e.text) + Len(e.additional), payload_tag |-> e.tag,
             encrypt |-> Encrypted(e.tag, e.text), additional |-> e.additional]), TRUE, FALSE))
    BY <1>4 DEF host_restores
  <2> DEFINE c == Encrypted(e.tag, e.text)
             o == [key_request |-> e.tag, payload_size |-> Len(e.text) + Len(e.additional),
                   payload_tag |-> e.tag, encrypt |-> c, additional |-> e.additional]
  <2>2. SealedFits
    BY DEF Typed
  <2>3. /\ e.tag \in Tag /\ Len(e.text) + Len(e.additional) \in U32
        /\ c \in Payload /\ e.additional \in Payload
    BY <2>2, EntryForm
  <2> HIDE DEF c
  <2>6. InBuffer(Written(o), TRUE, FALSE) \in Raw
    <3>1. /\ o.key_request \in Tag /\ o.payload_tag \in Tag /\ o.payload_size \in U32
          /\ o.encrypt \in Payload /\ o.additional \in Payload
      BY <2>3
    <3>2. raw \in Raw
      BY DEF Typed
    <3> HIDE DEF o
    <3> QED BY <3>1, <3>2, WrittenFits
  <2> QED BY <1>1, <2>1, <2>6 DEF c
<1>5. CASE host_writes_outer
  <2>1. PICK i \in DOMAIN outer : outer' = [outer EXCEPT ![i] = 1 - @]
    BY <1>5 DEF host_writes_outer
  <2>2. pc \in Sealing /\ writes' \in 0 .. MaxWrite /\ UNCHANGED <<pc, local, object, raw, sealed>>
    BY <1>5, SealAssumption DEF host_writes_outer, Typed, Sealing
  <2>3. outer \in Seq(Byte)
    BY <2>2 DEF Typed, SealingFits
  <2>4. outer[i] \in Byte /\ 1 - outer[i] \in Byte
    BY <2>3 DEF Byte
  <2>5. outer' \in Seq(Byte) /\ Len(outer') = Len(outer)
    BY <2>1, <2>3, <2>4
  <2> QED BY <2>2, <2>5 DEF Typed, SealedFits, SealingFits, ReadingFits, Sealing
<1> QED BY <1>2, <1>3, <1>4, <1>5

\* Every step keeps the shape.
LEMMA TypedStep == Typed /\ [Next]_vars => Typed'
<1> SUFFICES ASSUME Typed, [Next]_vars PROVE Typed'
  OBVIOUS
<1>1. ASSUME NEW view \in Views, NEW size \in Element, NEW add \in AddText, NEW policy_ok \in BOOLEAN,
             NEW place \in {"inside", "outside", "astride"},
             \/ \E text \in Text : seal_data(view, size, text, add, policy_ok, place)
             \/ mac_aadata(view, size, add, policy_ok, place)
      PROVE  Typed'
  <2>1. add \in Seq(Byte) /\ Text \subseteq Seq(Byte) /\ << >> \in Seq(Byte)
    BY SealAssumption DEF Byte
  <2>2. CASE \E text \in Text : seal_data(view, size, text, add, policy_ok, place)
    BY <2>1, <2>2, SealTyped DEF seal_data
  <2>3. CASE mac_aadata(view, size, add, policy_ok, place)
    BY <2>1, <2>3, SealTyped DEF mac_aadata
  <2> QED BY <1>1, <2>2, <2>3
<1>2. CASE seal_fails
  BY <1>2, IdleFits DEF seal_fails, Returns, Typed
<1>3. CASE seal_key
  BY <1>3 DEF seal_key, Typed, SealedFits, SealingFits, ReadingFits, Sealing
<1>4. CASE seal_encrypt
  BY <1>4, SealEncryptTyped
<1>5. CASE seal_copy
  BY <1>5, SealCopyTyped
<1>6. ASSUME NEW len \in BufferLen, NEW outside \in BOOLEAN, to_raw_sealed_data_t(len, outside)
      PROVE  Typed'
  <2>1. /\ object.key_request \in Tag /\ object.payload_tag \in Tag
        /\ object.payload_size \in U32 /\ object.encrypt \in Payload
        /\ object.additional \in Payload /\ object.whole \in BOOLEAN
    BY ObjectForm DEF Typed
  <2>2. raw \in Raw
    BY DEF Typed
  <2>3. raw' \in Raw
    BY <1>6, <2>1, <2>2, WrittenFits DEF to_raw_sealed_data_t
  <2> QED BY <1>6, <2>3
        DEF to_raw_sealed_data_t, Typed, SealedFits, SealingFits, ReadingFits, Sealing
<1>7. ASSUME NEW len \in BufferLen, from_raw_sealed_data_t(len) PROVE Typed'
  <2>1. len \in U32
    BY SealAssumption DEF U32
  <2> QED BY <1>7, <2>1, DefaultFits
        DEF from_raw_sealed_data_t, Typed, SealedFits, SealingFits, ReadingFits, Sealing
<1>8. CASE \/ read_additional_len \/ read_encrypt_len \/ check_payload
           \/ copy_encrypt \/ copy_additional \/ read_fields
  BY <1>8, ReadTyped
<1>9. ASSUME NEW view \in Views, NEW size \in Element,
             unseal_data(view, size) \/ unmac_aadata(view, size)
      PROVE  Typed'
  BY <1>9 DEF unseal_data, unmac_aadata, Typed, SealedFits, SealingFits, ReadingFits, Sealing
<1>10. CASE host_writes_header \/ host_writes_payload \/ host_restores \/ host_writes_outer
  BY <1>10, HostTyped
<1>11. CASE other_call \/ UNCHANGED vars
  BY <1>11 DEF other_call, vars, Typed, SealedFits, SealingFits, ReadingFits, Sealing
<1> QED BY <1>1, <1>2, <1>3, <1>4, <1>5, <1>6, <1>7, <1>8, <1>9, <1>10, <1>11 DEF Next

\* The state of the sealing code has its type, however the host interferes.
THEOREM TypeCorrect == Spec => []TypeOK
<1> QED BY InitTyped, TypedStep, TypedIsTyped, PTL DEF Spec

\* The texts from_raw_sealed_data_t copies lie within the length its caller gave, although
\* the host may change each of the header's fields between two reads of them.
THEOREM CopiesInBounds == Spec => []CopyInBounds
<1>1. Typed => CopyInBounds
  BY DEF Typed, ReadingFits, CopyInBounds
<1> QED BY <1>1, InitTyped, TypedStep, PTL DEF Spec

--------------------------------------------------------------------------------
(* Opening                                                                     *)

\* The library takes every object.
LEMMA ObjectAccepted ==
  ASSUME object \in Object
  PROVE  LET c == rsgx_rijndael128GCM_decrypt(Len(object.encrypt), TRUE, Len(object.additional),
                                              Len(object.encrypt))
         IN c.accepted /\ Faithful(c)
<1> DEFINE m == Len(object.encrypt)
           n == Len(object.additional)
<1>1. m \in Nat /\ n \in Nat /\ m <= MaxU32 /\ n <= MaxU32
  <2>1. object.encrypt \in Payload /\ object.additional \in Payload
    BY ObjectForm
  <2>2. object.encrypt \in Seq(Byte) /\ m <= Room /\ object.additional \in Seq(Byte) /\ n <= Room
    BY <2>1, PayloadForm
  <2>3. m \in Nat /\ n \in Nat
    BY <2>2
  <2> HIDE DEF m, n
  <2> QED BY <2>2, <2>3, RoomIsNat
<1> HIDE DEF m, n
<1>2. Faithful(rsgx_rijndael128GCM_decrypt(m, TRUE, n, m))
  BY <1>1, GcmFaithful
<1>3. rsgx_rijndael128GCM_decrypt(m, TRUE, n, m).accepted
  <2> DEFINE c == Cipher("gcm_decrypt", 0, m, m)
             r == Append(c.reads, Buffer(n, AsU32(n)))
  <2>1. c.accepted = TRUE
    <3>1. c.accepted = (m >= 0 /\ m <= MaxU32 /\ m <= MaxU32 /\ m >= m)
      BY DEF Cipher, Made
    <3>2. (m >= 0 /\ m <= MaxU32 /\ m <= MaxU32 /\ m >= m) = TRUE
      BY <1>1, RoomIsNat
    <3> HIDE DEF c
    <3> QED BY <3>1, <3>2
  <2>2. DOMAIN c = {"fn", "accepted", "reads", "writes", "said", "answer"}
    BY DEF Cipher, Made
  <2>3. rsgx_rijndael128GCM_decrypt(m, TRUE, n, m)
          = [c EXCEPT !.accepted = c.accepted /\ TRUE /\ n <= MaxU32, !.reads = r]
    BY DEF rsgx_rijndael128GCM_decrypt, Authenticated
  <2> HIDE DEF c, r
  <2>4. rsgx_rijndael128GCM_decrypt(m, TRUE, n, m).accepted = (c.accepted /\ TRUE /\ n <= MaxU32)
    BY <2>2, <2>3
  <2> QED BY <1>1, <2>1, <2>4
<1> QED BY <1>2, <1>3 DEF m, n

\* unseal_data_helper, by what it returns.
LEMMA HelperForm ==
  ASSUME object \in Object, NEW fn, NEW view, NEW size, NEW n, NEW elements,
         unseal_data_helper(Asked(fn, view, size, n), elements)
  PROVE  /\ Faithful(call')
         /\ result'.fn = fn
         /\ result'.whole <=> (object.whole /\ (fn = "unmac" => object.encrypt = << >>))
         /\ result'.ok => /\ Opens(object) # {}
                         /\ result'.request = object.key_request
                         /\ result'.elements = elements
                         /\ result'.text = Encrypted(object.key_request, object.encrypt)
                         /\ result'.additional = object.additional
         /\ result'.ok \/ result'.refused \/ Opens(object) = {}
<1> DEFINE r == Asked(fn, view, size, n)
<1>1. /\ r.fn = fn /\ r.ok = FALSE /\ r.refused = FALSE
      /\ r.whole <=> (object.whole /\ (fn = "unmac" => object.encrypt = << >>))
      /\ DOMAIN r = {"fn", "ok", "whole", "fits", "refused", "request", "text", "additional",
                    "elements"}
  BY DEF Asked, Failed, NoResult
<1>2. Faithful(call') /\ call'.accepted
  BY ObjectAccepted DEF unseal_data_helper
<1> HIDE DEF r
<1>3. \/ result' = [r EXCEPT !.refused = TRUE]
      \/ /\ Opens(object) # {}
         /\ result' = [r EXCEPT !.ok = TRUE, !.request = object.key_request, !.elements = elements,
                                !.text = Encrypted(object.key_request, object.encrypt),
                                !.additional = object.additional]
      \/ Opens(object) = {} /\ result' = r
  BY <1>2 DEF unseal_data_helper, r
<1> QED BY <1>1, <1>2, <1>3

\* An object that opens is one that was sealed, and opens to what was sealed.
LEMMA OpensTo ==
  ASSUME Typed, NEW e \in Opens(object)
  PROVE  /\ e \in sealed /\ e.tag = object.key_request
         /\ e.text = Encrypted(object.key_request, object.encrypt)
         /\ e.additional = object.additional
         /\ Len(object.encrypt) = Len(e.text)
         /\ object.encrypt = << >> <=> e.op = "mac"
<1>1. /\ e \in sealed /\ e.tag = object.key_request /\ object.encrypt = Encrypted(e.tag, e.text)
      /\ e.additional = object.additional
  BY DEF Opens
<1>2. /\ e.tag \in Nat /\ e.text \in Seq(Byte) /\ e.op \in {"seal", "mac"}
      /\ e.op = "seal" <=> e.text # << >>
  BY <1>1, EntryForm DEF Typed
<1>3. Encrypted(e.tag, object.encrypt) = e.text /\ Len(object.encrypt) = Len(e.text)
      /\ object.encrypt \in Seq(Byte)
  BY <1>1, <1>2, EncryptedForm
<1>4. object.encrypt = << >> <=> e.text = << >>
  <2>1. \A s \in Seq(Byte) : s = << >> <=> Len(s) = 0
    BY EmptySeq
  <2> QED BY <1>2, <1>3, <2>1
<1> QED BY <1>1, <1>2, <1>3, <1>4

--------------------------------------------------------------------------------
(* What was sealed opens                                                       *)

\* An object as it was sealed has the lengths it says, and opens.
LEMMA IntactForm ==
  ASSUME Typed, NEW e \in sealed, SealOf(object, e)
  PROVE  /\ e \in Opens(object)
         /\ get_encrypt_txt_len(object) = Len(e.text)
         /\ get_add_mac_txt_len(object) = Len(e.additional)
         /\ LengthsAgree(object)
         /\ Len(e.text) \in Nat /\ Len(e.additional) \in Nat
<1> DEFINE a == Len(e.text)
           b == Len(e.additional)
<1>1. /\ a \in U32 /\ b \in U32 /\ a + b <= Room
      /\ Len(object.encrypt) = a /\ Len(object.additional) = b
  BY EntryForm DEF Typed, SealOf
<1>2. e \in Opens(object)
  BY DEF Opens, SealOf
<1>3. object.payload_size = a + b
  BY DEF SealOf
<1> HIDE DEF a, b
<1>4. a \in Nat /\ b \in Nat /\ a < MaxU32 /\ b < MaxU32
  BY <1>1, RoomIsNat DEF U32
<1>5. get_encrypt_txt_len(object) = a /\ get_add_mac_txt_len(object) = b
  BY <1>1, <1>3, <1>4, RoomIsNat DEF get_encrypt_txt_len, get_add_mac_txt_len, TxtLen
<1>6. LengthsAgree(object)
  <2>1. b + a = a + b /\ b + a <= Room
    BY <1>1, <1>4
  <2>2. calc_raw_sealed_data_size(b, a) # MaxU32 /\ Plus(b, a) = b + a
    BY <1>1, <2>1, SizeFits
  <2>3. b # MaxU32 /\ a # MaxU32
    BY <1>4, RoomIsNat
  <2> QED BY <1>3, <1>5, <2>1, <2>2, <2>3 DEF LengthsAgree
<1> QED BY <1>2, <1>4, <1>5, <1>6 DEF a, b

\* What has been given a tag stays so: an object that is kept, or dropped, and a
\* buffer that is kept, or written by the host, stay as intact as they were.
LEMMA ObjectStays ==
  ASSUME ObjectIntact, sealed \subseteq sealed', object' = object \/ object' = Default
  PROVE  ObjectIntact'
<1>1. CASE object' = object
  <2>1. ASSUME object.whole PROVE \E e \in sealed' : SealOf(object, e)
    BY <2>1 DEF ObjectIntact
  <2> QED BY <1>1, <2>1 DEF ObjectIntact, SealOf
<1>2. CASE object' = Default
  BY <1>2 DEF ObjectIntact, Default
<1> QED BY <1>1, <1>2

\* The same of the buffer.
LEMMA RawStays ==
  ASSUME RawIntact, sealed \subseteq sealed', raw' = raw \/ ~raw'.whole
  PROVE  RawIntact'
<1>1. CASE raw' = raw
  <2>1. ASSUME raw.whole PROVE \E e \in sealed' : RawOf(raw, e)
    BY <2>1 DEF RawIntact
  <2> QED BY <1>1, <2>1 DEF RawIntact, RawOf
<1> QED BY <1>1 DEF RawIntact

\* Nothing of a seal or of a read is left where it cannot be.
LEMMA NoneInProgress ==
  /\ pc' \in {"idle", "key", "encrypt", "lengths"} => CopyIntact' /\ ReadingIntact'
  /\ pc' \in {"encrypt_len", "payload", "encrypt_txt", "additional_txt", "fields"} => CopyIntact'
  /\ pc' = "copy" => ReadingIntact'
BY DEF CopyIntact, ReadingIntact

\* What a step that opens nothing may leave as its result.
Quiet(r) ==
  /\ r.ok => r.fn \notin {"unseal", "unmac"}
  /\ r.fn \in {"from_raw", "unseal", "unmac"} /\ r.whole /\ r.fits => r.ok

\* A step that opens nothing cannot make an answer wrong: what was sealed stays so.
LEMMA QuietResult ==
  ASSUME OpensOnlySealed, SealedOpens, sealed \subseteq sealed', result' = result \/ Quiet(result')
  PROVE  OpensOnlySealed' /\ SealedOpens'
<1>1. CASE result' = result
  BY <1>1 DEF OpensOnlySealed, SealedOpens
<1>2. CASE Quiet(result')
  BY <1>2 DEF OpensOnlySealed, SealedOpens, Quiet
<1> QED BY <1>1, <1>2

\* A result that is no answer, and a failure of a seal, are quiet.
LEMMA QuietForms ==
  /\ Quiet(NoResult)
  /\ \A op \in {"seal", "mac"} : Quiet(Failed(op)) /\ Quiet([Failed(op) EXCEPT !.ok = TRUE])
  /\ Quiet([Failed("from_raw") EXCEPT !.ok = TRUE])
BY DEF Quiet, NoResult, Failed

\* A read of what the buffer holds gives what was put there.
LEMMA SliceIs ==
  ASSUME NEW b \in [1 .. Room -> Byte], NEW m \in Nat, NEW u \in Seq(Byte), m + Len(u) <= Room,
         \A i \in 1 .. Len(u) : b[m + i] = u[i]
  PROVE  SubSeq(b, m + 1, m + Len(u)) = u
<1> DEFINE k == Len(u)
           s == SubSeq(b, m + 1, m + k)
<1>1. k \in Nat /\ m + k <= Room
  OBVIOUS
<1> HIDE DEF k
<1>2. s \in Seq(Byte) /\ Len(s) = k /\ \A i \in 1 .. k : s[i] = b[m + i]
  BY <1>1, SliceForm
<1> HIDE DEF s
<1>3. \A i \in 1 .. k : s[i] = u[i]
  BY <1>2 DEF k
<1>4. s = u
  BY <1>2, <1>3, SeqEqual DEF k
<1> QED BY <1>4 DEF s, k

\* The bytes of two texts in a row.
LEMMA ConcatForm ==
  ASSUME NEW x \in Seq(Byte), NEW y \in Seq(Byte)
  PROVE  /\ Len(x \o y) = Len(x) + Len(y)
         /\ \A i \in 1 .. Len(x) + Len(y) : (x \o y)[i] = IF i <= Len(x) THEN x[i] ELSE y[i - Len(x)]
<1> HIDE DEF Byte
<1> QED BY ConcatProperties

\* The object of a seal is what the library read, if nobody else could write the text.
LEMMA CopyStaysIntact == ASSUME Typed, Intact, seal_copy PROVE Intact'
<1> DEFINE n == Cardinality(sealed)
<1>1. /\ pc = "copy" /\ pc' = "idle" /\ UNCHANGED <<raw, sealed>>
      /\ object' = [key_request |-> n, payload_size |-> Len(local.text) + Len(outer),
                    payload_tag |-> n, encrypt |-> Encrypted(n, local.text), additional |-> outer,
                    whole |-> outer = << >> \/ local.place = "inside"]
  BY DEF seal_copy, Returns
<1>2. ASSUME outer = << >> \/ local.place = "inside" PROVE \E e \in sealed' : SealOf(object', e)
  <2>1. PICK e \in sealed : e.tag = n /\ e.text = local.text /\ e.additional = outer
    BY <1>1, <1>2 DEF Intact, CopyIntact
  <2> HIDE DEF n
  <2>2. SealOf(object', e)
    BY <1>1, <2>1 DEF SealOf
  <2> QED BY <1>1, <2>2
<1>3. object'.whole => outer = << >> \/ local.place = "inside"
  BY <1>1
<1>4. ObjectIntact'
  BY <1>2, <1>3 DEF ObjectIntact, SealOf
<1> QED BY <1>1, <1>4, RawStays, NoneInProgress DEF Intact

\* to_raw_sealed_data_t leaves in the buffer what the object holds.
LEMMA WriteStaysIntact ==
  ASSUME Typed, Intact, NEW len, NEW outside, to_raw_sealed_data_t(len, outside)
  PROVE  Intact'
<1>1. /\ pc' = "idle" /\ UNCHANGED <<object, sealed>>
      /\ raw' = InBuffer(Written(object), outside, object.whole)
  BY DEF to_raw_sealed_data_t
<1>2. ASSUME NEW e \in sealed, SealOf(object, e) PROVE RawOf(raw', e)
  <2> DEFINE x == object.encrypt
             y == object.additional
             t == x \o y
  <2>1. /\ x = Encrypted(e.tag, e.text) /\ y = e.additional /\ x \in Seq(Byte) /\ y \in Seq(Byte)
        /\ Len(x) = Len(e.text) /\ Len(e.text) + Len(e.additional) <= Room
    BY <1>2, EntryForm DEF Typed, SealOf
  <2>2. /\ raw'.key_request = e.tag /\ raw'.payload_tag = e.tag
        /\ raw'.plain_text_offset = Len(e.text)
        /\ raw'.payload_size = Len(e.text) + Len(e.additional)
    BY <1>1, <1>2, <2>1 DEF SealOf, InBuffer, Written
  <2>3. raw'.bytes = [i \in 1 .. Room |-> IF i <= Len(t) THEN t[i] ELSE raw.bytes[i]]
    BY <1>1 DEF InBuffer, Written
  <2> HIDE DEF x, y
  <2>4. /\ Len(x) \in Nat /\ Len(y) \in Nat /\ Len(t) = Len(x) + Len(y)
        /\ \A i \in 1 .. Len(t) : t[i] = IF i <= Len(x) THEN x[i] ELSE y[i - Len(x)]
    <3>1. /\ Len(x \o y) = Len(x) + Len(y)
          /\ \A i \in 1 .. Len(x) + Len(y) : (x \o y)[i] = IF i <= Len(x) THEN x[i] ELSE y[i - Len(x)]
      BY <2>1, ConcatForm
    <3>2. t = x \o y /\ Len(x) \in Nat /\ Len(y) \in Nat
      BY <2>1
    <3> HIDE DEF t
    <3> QED BY <3>1, <3>2
  <2> HIDE DEF t
  <2>5. Len(t) <= Room
    BY <2>1, <2>4
  <2>6. ASSUME NEW i \in 1 .. Len(x) PROVE raw'.bytes[i] = x[i]
    <3>1. i \in 1 .. Len(t) /\ i \in 1 .. Room /\ i <= Len(x) /\ i <= Len(t)
      BY <2>4, <2>5, RoomIsNat
    <3> QED BY <2>3, <2>4, <3>1
  <2>7. ASSUME NEW i \in 1 .. Len(y) PROVE raw'.bytes[Len(x) + i] = y[i]
    <3> DEFINE j == Len(x) + i
    <3>1. j \in 1 .. Len(t) /\ j \in 1 .. Room /\ ~(j <= Len(x)) /\ j <= Len(t) /\ j - Len(x) = i
      BY <2>4, <2>5, RoomIsNat
    <3> HIDE DEF j
    <3>2. raw'.bytes[j] = y[i]
      BY <2>3, <2>4, <3>1
    <3> QED BY <3>2 DEF j
  <2> QED BY <2>1, <2>2, <2>6, <2>7 DEF RawOf
<1>3. raw'.whole = object.whole
  BY <1>1 DEF InBuffer
<1>4. RawIntact'
  <2>1. ASSUME object.whole PROVE \E e \in sealed' : RawOf(raw', e)
    BY <1>1, <1>2, <2>1 DEF Intact, ObjectIntact
  <2> QED BY <1>3, <2>1 DEF RawIntact, RawOf
<1> QED BY <1>1, <1>4, ObjectStays, NoneInProgress DEF Intact

\* The lengths of a buffer that is intact are what was sealed into it.
LEMMA RawLengths ==
  ASSUME Typed, NEW e \in sealed, RawOf(raw, e)
  PROVE  /\ Len(e.text) \in Nat /\ Len(e.additional) \in Nat
         /\ Len(e.text) + Len(e.additional) <= Room
         /\ raw.plain_text_offset = Len(e.text)
         /\ raw.payload_size = Len(e.text) + Len(e.additional)
         /\ raw.payload_size - raw.plain_text_offset = Len(e.additional)
         /\ sgx_get_encrypt_txt_len(raw) = raw.plain_text_offset
         /\ sgx_get_add_mac_txt_len(raw) = raw.payload_size - raw.plain_text_offset
         /\ SubSeq(raw.bytes, 1, raw.plain_text_offset) = Encrypted(e.tag, e.text)
         /\ SubSeq(raw.bytes, raw.plain_text_offset + 1, raw.payload_size) = e.additional
<1> DEFINE a == Len(e.text)
           b == Len(e.additional)
           c == Encrypted(e.tag, e.text)
<1>1. /\ a \in U32 /\ b \in U32 /\ a + b <= Room
      /\ c \in Seq(Byte) /\ Len(c) = a /\ e.additional \in Seq(Byte)
  BY EntryForm DEF Typed
<1>2. /\ raw.plain_text_offset = a /\ raw.payload_size = a + b
      /\ \A i \in 1 .. a : raw.bytes[i] = c[i]
      /\ \A i \in 1 .. b : raw.bytes[a + i] = e.additional[i]
      /\ raw.bytes \in [1 .. Room -> Byte]
  BY DEF RawOf, Typed, Raw
<1> HIDE DEF a, c
<1>3. a \in Nat /\ b \in Nat
  BY <1>1 DEF U32
<1>4. SubSeq(raw.bytes, a + 1, a + b) = e.additional
  BY <1>1, <1>2, <1>3, SliceIs
<1>5. SubSeq(raw.bytes, 1, a) = c
  <2>1. 0 + Len(c) <= Room /\ 0 + 1 = 1 /\ 0 + Len(c) = a /\ 0 \in Nat
    BY <1>1, <1>3, RoomIsNat
  <2>2. \A i \in 1 .. Len(c) : raw.bytes[0 + i] = c[i]
    BY <1>1, <1>2, <1>3
  <2>3. SubSeq(raw.bytes, 0 + 1, 0 + Len(c)) = c
    BY <1>1, <1>2, <2>1, <2>2, SliceIs
  <2> QED BY <2>1, <2>3
<1> HIDE DEF b
<1>6. /\ sgx_get_encrypt_txt_len(raw) = a
      /\ sgx_get_add_mac_txt_len(raw) = (a + b) - a /\ (a + b) - a = b
  BY <1>2, <1>3 DEF sgx_get_encrypt_txt_len, sgx_get_add_mac_txt_len
<1> QED BY <1>1, <1>2, <1>3, <1>4, <1>5, <1>6 DEF a, b, c

\* Each read of a buffer that nobody has written takes what was put there.
LEMMA ReadStaysIntact ==
  ASSUME Typed, Intact,
         \/ read_additional_len \/ read_encrypt_len \/ check_payload
         \/ copy_encrypt \/ copy_additional \/ read_fields
  PROVE  Intact'
<1>0. UNCHANGED <<raw, sealed>> /\ pc' \in {"encrypt_len", "payload", "encrypt_txt", "additional_txt", "fields", "idle"}
  BY DEF read_additional_len, read_encrypt_len, check_payload, copy_encrypt, copy_additional,
         read_fields, None, Returns
<1>1. RawIntact' /\ CopyIntact'
  BY <1>0, RawStays, NoneInProgress DEF Intact
<1>2. CASE read_fields
  <2>1. ASSUME raw.whole PROVE \E e \in sealed' : SealOf(object', e)
    <3>1. PICK e \in sealed : RawOf(raw, e)
      BY <2>1 DEF Intact, RawIntact
    <3>2. /\ local.encrypt = Encrypted(e.tag, e.text) /\ local.additional = e.additional
          /\ raw.payload_size = Len(e.text) + Len(e.additional)
      BY <1>2, <2>1, <3>1, RawLengths DEF read_fields, Intact, ReadingIntact
    <3>3. SealOf(object', e)
      BY <1>2, <3>1, <3>2 DEF read_fields, SealOf, RawOf
    <3> QED BY <1>0, <3>3
  <2>2. object'.whole = raw.whole /\ pc' = "idle"
    BY <1>2 DEF read_fields, Returns
  <2>3. ObjectIntact'
    BY <2>1, <2>2 DEF ObjectIntact, SealOf
  <2> QED BY <1>1, <2>2, <2>3, NoneInProgress DEF Intact
<1>3. CASE ~read_fields
  <2>1. object' = object
    BY <1>3 DEF read_additional_len, read_encrypt_len, check_payload, copy_encrypt, copy_additional
  <2>2. ObjectIntact'
    BY <1>0, <2>1, ObjectStays DEF Intact
  <2>3. ReadingIntact'
    <3>1. ASSUME raw.whole, pc' # "idle"
          PROVE  /\ pc' \in {"encrypt_len", "payload", "encrypt_txt", "additional_txt"} =>
                      local'.add = raw.payload_size - raw.plain_text_offset
                 /\ pc' \in {"payload", "encrypt_txt", "additional_txt"} =>
                      local'.enc = raw.plain_text_offset
                 /\ pc' \in {"additional_txt", "fields"} =>
                      local'.encrypt = SubSeq(raw.bytes, 1, raw.plain_text_offset)
                 /\ pc' = "fields" =>
                      local'.additional = SubSeq(raw.bytes, raw.plain_text_offset + 1, raw.payload_size)
      <4>1. PICK e \in sealed : RawOf(raw, e)
        BY <3>1 DEF Intact, RawIntact
      <4>2. /\ sgx_get_encrypt_txt_len(raw) = raw.plain_text_offset
            /\ sgx_get_add_mac_txt_len(raw) = raw.payload_size - raw.plain_text_offset
            /\ raw.plain_text_offset + (raw.payload_size - raw.plain_text_offset) = raw.payload_size
        BY <4>1, RawLengths
      <4>3. CASE read_additional_len
        BY <4>2, <4>3 DEF read_additional_len
      <4>4. CASE read_encrypt_len
        BY <3>1, <4>2, <4>4 DEF read_encrypt_len, None, Returns, Intact, ReadingIntact
      <4>5. CASE check_payload
        BY <3>1, <4>5 DEF check_payload, None, Returns, Intact, ReadingIntact
      <4>6. CASE copy_encrypt
        BY <3>1, <4>6 DEF copy_encrypt, Intact, ReadingIntact
      <4>7. CASE copy_additional
        BY <3>1, <4>2, <4>7 DEF copy_additional, Intact, ReadingIntact
      <4> QED BY <1>3, <4>3, <4>4, <4>5, <4>6, <4>7
    <3>2. CASE pc' = "idle"
      BY <3>2, NoneInProgress
    <3> QED BY <1>0, <3>1, <3>2 DEF ReadingIntact
  <2> QED BY <1>1, <2>2, <2>3 DEF Intact
<1> QED BY <1>2, <1>3

\* Every step leaves intact what nobody else has written.
LEMMA IntactStep == Typed /\ Intact /\ [Next]_vars => Intact'
<1> SUFFICES ASSUME Typed, Intact, [Next]_vars PROVE Intact'
  OBVIOUS
<1>1. ASSUME NEW op, NEW view, NEW size, NEW text, NEW add, NEW policy_ok, NEW place,
             Seal(op, view, size, text, add, policy_ok, place)
      PROVE  Intact'
  <2>1. /\ pc' \in {"key", "idle"} /\ UNCHANGED <<raw, sealed>>
        /\ object' = object \/ object' = Default
    BY <1>1 DEF Seal, Returns
  <2> QED BY <2>1, ObjectStays, RawStays, NoneInProgress DEF Intact
<1>2. CASE seal_fails \/ seal_key
  <2>1. pc' \in {"idle", "encrypt"} /\ UNCHANGED <<object, raw, sealed>>
    BY <1>2 DEF seal_fails, seal_key, Returns
  <2> QED BY <2>1, ObjectStays, RawStays, NoneInProgress DEF Intact
<1>3. CASE seal_encrypt
  <2>1. pc' = "copy" /\ sealed \subseteq sealed' /\ UNCHANGED <<object, raw>>
    BY <1>3 DEF seal_encrypt
  <2> QED BY <1>3, <2>1, SealEncryptTyped, ObjectStays, RawStays, NoneInProgress DEF Intact
<1>4. CASE seal_copy
  BY <1>4, CopyStaysIntact
<1>5. ASSUME NEW len, NEW outside, to_raw_sealed_data_t(len, outside) PROVE Intact'
  BY <1>5, WriteStaysIntact
<1>6. ASSUME NEW len, from_raw_sealed_data_t(len) PROVE Intact'
  <2>1. pc' = "lengths" /\ object' = Default /\ UNCHANGED <<raw, sealed>>
    BY <1>6 DEF from_raw_sealed_data_t
  <2> QED BY <2>1, ObjectStays, RawStays, NoneInProgress DEF Intact
<1>7. CASE \/ read_additional_len \/ read_encrypt_len \/ check_payload
           \/ copy_encrypt \/ copy_additional \/ read_fields
  BY <1>7, ReadStaysIntact
<1>8. CASE UNCHANGED <<pc, local, object, raw, outer, sealed>>
  BY <1>8 DEF Intact, ObjectIntact, CopyIntact, RawIntact, ReadingIntact, SealOf, RawOf
<1>9. CASE host_writes_header \/ host_writes_payload \/ host_restores
  <2>1. UNCHANGED <<pc, local, object, outer, sealed>> /\ ~raw'.whole
    <3>1. PICK b : HostWrites(b)
      BY <1>9 DEF host_writes_header, host_writes_payload, host_restores
    <3> QED BY <1>9, <3>1, HostTyped DEF HostWrites
  <2>2. CopyIntact' /\ ReadingIntact'
    BY <2>1 DEF Intact, CopyIntact, ReadingIntact
  <2> QED BY <2>1, <2>2, ObjectStays, RawStays DEF Intact
<1>10. CASE host_writes_outer
  <2>1. PICK i \in DOMAIN outer : outer' = [outer EXCEPT ![i] = 1 - @]
    BY <1>10 DEF host_writes_outer
  <2>2. local.place = "outside" /\ UNCHANGED <<pc, local, object, raw, sealed>>
    BY <1>10 DEF host_writes_outer
  <2>3. outer' # << >>
    BY <2>1
  <2>4. CopyIntact' /\ ReadingIntact'
    BY <2>2, <2>3 DEF Intact, CopyIntact, ReadingIntact
  <2> QED BY <2>2, <2>4, ObjectStays, RawStays DEF Intact
<1>11. ASSUME NEW view, NEW size, unseal_data(view, size) \/ unmac_aadata(view, size) PROVE Intact'
  BY <1>8, <1>11 DEF unseal_data, unmac_aadata
<1>12. CASE other_call \/ UNCHANGED vars
  BY <1>8, <1>12 DEF other_call, vars
<1> QED BY <1>1, <1>2, <1>3, <1>4, <1>5, <1>6, <1>7, <1>9, <1>10, <1>11, <1>12
        DEF Next, seal_data, mac_aadata

--------------------------------------------------------------------------------
(* What opens was sealed, and what was sealed opens                            *)

\* The answers to the caller and the calls of the library.
Results == OpensOnlySealed /\ SealedOpens /\ LibraryToldTruth

\* The answer of the cipher to an object it was asked to open.
LEMMA OpenedResult ==
  ASSUME Typed, ObjectIntact, UNCHANGED sealed, NEW fn \in {"unseal", "unmac"}, NEW view \in Views,
         NEW size \in Nat, NEW n \in Nat,
         n = (IF fn = "unseal" THEN Len(object.encrypt) ELSE Len(object.additional)),
         fn = "unseal" <=> object.encrypt # << >>,
         Elements(view, size, n) # 0,
         unseal_data_helper(Asked(fn, view, size, n), <<size, Elements(view, size, n)>>)
  PROVE  Results'
<1> DEFINE k == Elements(view, size, n)
<1>1. size * k = n
  BY ElementsForm
<1> HIDE DEF k
<1>2. /\ Faithful(call')
      /\ result'.fn = fn
      /\ result'.whole <=> (object.whole /\ (fn = "unmac" => object.encrypt = << >>))
      /\ result'.ok => /\ Opens(object) # {}
                      /\ result'.request = object.key_request
                      /\ result'.elements = <<size, k>>
                      /\ result'.text = Encrypted(object.key_request, object.encrypt)
                      /\ result'.additional = object.additional
      /\ result'.ok \/ result'.refused \/ Opens(object) = {}
  <2>1. object \in Object
    BY DEF Typed
  <2> QED BY <2>1, HelperForm DEF k
<1>3. OpensOnlySealed'
  <2>1. ASSUME result'.ok
        PROVE  \E e \in sealed' :
                 /\ e.tag = result'.request
                 /\ e.op = (IF result'.fn = "unseal" THEN "seal" ELSE "mac")
                 /\ e.text = result'.text /\ e.additional = result'.additional
                 /\ result'.elements[1] * result'.elements[2]
                      = Len(IF e.op = "seal" THEN e.text ELSE e.additional)
    <3>1. PICK e \in Opens(object) : TRUE
      BY <1>2, <2>1
    <3>2. /\ e \in sealed /\ e.tag = object.key_request
          /\ e.text = Encrypted(object.key_request, object.encrypt)
          /\ e.additional = object.additional
          /\ Len(object.encrypt) = Len(e.text)
          /\ object.encrypt = << >> <=> e.op = "mac"
          /\ e.op \in {"seal", "mac"}
      BY OpensTo, EntryForm DEF Typed
    <3>3. e.op = (IF fn = "unseal" THEN "seal" ELSE "mac")
      BY <3>2
    <3>4. n = Len(IF e.op = "seal" THEN e.text ELSE e.additional)
      BY <3>2, <3>3
    <3>5. result'.elements[1] * result'.elements[2] = n
      <4>1. result'.elements[1] = size /\ result'.elements[2] = k
        BY <1>2, <2>1
      <4> QED BY <1>1, <4>1
    <3> QED BY <1>2, <2>1, <3>2, <3>3, <3>4, <3>5
  <2> QED BY <2>1 DEF OpensOnlySealed
<1>4. SealedOpens'
  <2>1. ASSUME object.whole PROVE Opens(object) # {}
    BY <2>1, IntactForm DEF ObjectIntact
  <2> QED BY <1>2, <2>1 DEF SealedOpens
<1> QED BY <1>2, <1>3, <1>4 DEF Results, LibraryToldTruth

\* An object that is not passed to the cipher is not one that was sealed as asked.
LEMMA RefusedResult ==
  ASSUME Typed, ObjectIntact, NEW fn \in {"unseal", "unmac"}, NEW view \in Views, NEW size \in Nat,
         NEW n, n = (IF fn = "unseal" THEN get_encrypt_txt_len(object) ELSE get_add_mac_txt_len(object)),
         result' = Asked(fn, view, size, n), call' = NoCall,
         ~(/\ Elements(view, size, n) # 0 /\ LengthsAgree(object) /\ n >= 1
           /\ fn = "unmac" => get_encrypt_txt_len(object) = 0)
  PROVE  Results'
<1>1. /\ result'.fn = fn /\ result'.ok = FALSE
      /\ result'.whole <=> (object.whole /\ (fn = "unmac" => object.encrypt = << >>))
      /\ result'.fits <=> Elements(view, size, n) # 0
  BY DEF Asked, Failed, NoResult
<1>2. ASSUME object.whole, fn = "unmac" => object.encrypt = << >>, Elements(view, size, n) # 0
      PROVE  FALSE
  <2>1. PICK e \in sealed : SealOf(object, e)
    BY <1>2 DEF ObjectIntact
  <2>2. /\ get_encrypt_txt_len(object) = Len(e.text) /\ get_add_mac_txt_len(object) = Len(e.additional)
        /\ LengthsAgree(object) /\ n \in Nat
    BY <2>1, IntactForm
  <2>3. n >= 1
    BY <1>2, <2>2, ElementsForm
  <2>4. ASSUME fn = "unmac" PROVE get_encrypt_txt_len(object) = 0
    <3>1. Len(object.encrypt) = Len(e.text)
      BY <2>1, EntryForm DEF SealOf, Typed
    <3>2. Len(<< >>) = 0
      OBVIOUS
    <3> QED BY <1>2, <2>2, <2>4, <3>1, <3>2
  <2> QED BY <1>2, <2>2, <2>3, <2>4
<1>3. OpensOnlySealed' /\ SealedOpens'
  BY <1>1, <1>2 DEF OpensOnlySealed, SealedOpens
<1>4. Faithful(NoCall)
  BY DEF Faithful, NoCall, Made
<1> QED BY <1>3, <1>4 DEF Results, LibraryToldTruth

\* The lengths of an object are those of its texts, where they are not the error value.
LEMMA LengthsForm ==
  ASSUME object \in Object, LengthsAgree(object)
  PROVE  /\ get_encrypt_txt_len(object) = Len(object.encrypt) /\ Len(object.encrypt) \in Nat
         /\ get_add_mac_txt_len(object) = Len(object.additional) /\ Len(object.additional) \in Nat
         /\ object.encrypt = << >> <=> Len(object.encrypt) = 0
<1>1. object.encrypt \in Seq(Byte) /\ object.additional \in Seq(Byte)
  BY ObjectForm, PayloadForm
<1>2. \A s \in Seq(Byte) : Len(s) \in Nat /\ (s = << >> <=> Len(s) = 0)
  BY EmptySeq
<1>3. get_encrypt_txt_len(object) # MaxU32 /\ get_add_mac_txt_len(object) # MaxU32
  BY DEF LengthsAgree
<1> QED BY <1>1, <1>2, <1>3 DEF get_encrypt_txt_len, get_add_mac_txt_len, TxtLen

\* unseal_data and unmac_aadata answer as they should.
LEMMA OpenStep ==
  ASSUME Typed, ObjectIntact, NEW view \in Views, NEW size \in Nat,
         unseal_data(view, size) \/ unmac_aadata(view, size)
  PROVE  Results'
<1> DEFINE enc == get_encrypt_txt_len(object)
           add == get_add_mac_txt_len(object)
<1>0. object \in Object /\ UNCHANGED sealed
  BY DEF Typed, unseal_data, unmac_aadata
<1>1. CASE unseal_data(view, size)
  <2> DEFINE sent == Elements(view, size, enc) # 0 /\ LengthsAgree(object) /\ enc >= 1
  <2>1. Asked("unseal", view, size, enc).fits <=> Elements(view, size, enc) # 0
    BY DEF Asked, Failed, NoResult
  <2>2. CASE sent
    <3>1. /\ enc \in Nat /\ enc = Len(object.encrypt) /\ object.encrypt # << >>
      BY <1>0, <2>2, LengthsForm
    <3>2. unseal_data_helper(Asked("unseal", view, size, enc), <<size, Elements(view, size, enc)>>)
      BY <1>1, <2>1, <2>2 DEF unseal_data
    <3> HIDE DEF enc
    <3> QED BY <1>0, <2>2, <3>1, <3>2, OpenedResult
  <2>3. CASE ~sent
    <3>1. result' = Asked("unseal", view, size, enc) /\ call' = NoCall
      BY <1>1, <2>1, <2>3 DEF unseal_data, NoLibraryCall
    <3> QED BY <2>3, <3>1, RefusedResult
  <2> QED BY <2>2, <2>3
<1>2. CASE unmac_aadata(view, size)
  <2> DEFINE sent == Elements(view, size, add) # 0 /\ LengthsAgree(object) /\ add >= 1 /\ enc = 0
  <2>1. Asked("unmac", view, size, add).fits <=> Elements(view, size, add) # 0
    BY DEF Asked, Failed, NoResult
  <2>2. CASE sent
    <3>1. /\ add \in Nat /\ add = Len(object.additional) /\ object.encrypt = << >>
      BY <1>0, <2>2, LengthsForm
    <3>2. unseal_data_helper(Asked("unmac", view, size, add), <<size, Elements(view, size, add)>>)
      BY <1>2, <2>1, <2>2 DEF unmac_aadata
    <3> HIDE DEF add
    <3> QED BY <1>0, <2>2, <3>1, <3>2, OpenedResult
  <2>3. CASE ~sent
    <3>1. result' = Asked("unmac", view, size, add) /\ call' = NoCall
      BY <1>2, <2>1, <2>3 DEF unmac_aadata, NoLibraryCall
    <3> QED BY <2>3, <3>1, RefusedResult
  <2> QED BY <2>2, <2>3
<1> QED BY <1>1, <1>2

\* A step that answers no call to open, and whose own call of the library, if it makes
\* one, is faithful.
LEMMA QuietStep ==
  ASSUME Results, sealed \subseteq sealed', result' = result \/ Quiet(result'),
         call' = NoCall \/ Faithful(call')
  PROVE  Results'
<1>1. Faithful(NoCall)
  BY DEF Faithful, NoCall, Made
<1>2. LibraryToldTruth'
  BY <1>1 DEF LibraryToldTruth
<1> QED BY <1>2, QuietResult DEF Results

\* A buffer nobody has written is read back if its length is what its header says:
\* each check that answers None holds for it.
LEMMA ReadAnswers ==
  ASSUME Typed, Intact, Results,
         \/ read_additional_len \/ read_encrypt_len \/ check_payload
         \/ copy_encrypt \/ copy_additional \/ read_fields
  PROVE  Results'
<1>0. UNCHANGED sealed /\ call' = NoCall
  BY DEF read_additional_len, read_encrypt_len, check_payload, copy_encrypt, copy_additional,
         read_fields, NoLibraryCall
<1>1. ASSUME None, ~(raw.whole /\ local.len >= Header + raw.payload_size) PROVE Quiet(result')
  <2> DEFINE whole == raw.whole
             fits == local.len >= Header + raw.payload_size
  <2>1. result' = [Failed("from_raw") EXCEPT !.whole = whole, !.fits = fits]
    BY <1>1 DEF None, Returns
  <2>2. DOMAIN Failed("from_raw") = {"fn", "ok", "whole", "fits", "refused", "request", "text",
                                     "additional", "elements"}
        /\ ~Failed("from_raw").ok
    BY DEF Failed, NoResult
  <2> HIDE DEF whole, fits
  <2>3. ~result'.ok /\ (result'.whole <=> whole) /\ (result'.fits <=> fits)
    BY <2>1, <2>2
  <2> QED BY <1>1, <2>3 DEF Quiet, whole, fits
<1>2. CASE read_encrypt_len
  <2>1. ASSUME None, raw.whole PROVE ~None
    <3>1. PICK e \in sealed : RawOf(raw, e)
      BY <2>1 DEF Intact, RawIntact
    <3>2. /\ sgx_get_encrypt_txt_len(raw) = Len(e.text) /\ local.add = Len(e.additional)
          /\ Len(e.text) \in Nat /\ Len(e.additional) \in Nat
          /\ Len(e.text) + Len(e.additional) <= Room
      BY <1>2, <2>1, <3>1, RawLengths DEF read_encrypt_len, Intact, ReadingIntact
    <3>3. sgx_get_encrypt_txt_len(raw) # MaxU32 /\ local.add # MaxU32
      <4>1. \A m, n \in Nat : m + n <= Room => m # MaxU32 /\ n # MaxU32
        BY RoomIsNat
      <4> QED BY <3>2, <4>1
    <3>4. pc' = "payload"
      BY <1>2, <3>3 DEF read_encrypt_len
    <3> QED BY <3>4 DEF None, Returns
  <2>2. result' = result \/ Quiet(result')
    BY <1>1, <1>2, <2>1 DEF read_encrypt_len
  <2> QED BY <1>0, <2>2, QuietStep
<1>3. CASE check_payload
  <2>1. ASSUME None, raw.whole, local.len >= Header + raw.payload_size PROVE ~None
    <3>1. PICK e \in sealed : RawOf(raw, e)
      BY <2>1 DEF Intact, RawIntact
    <3> DEFINE a == Len(e.text)
               b == Len(e.additional)
    <3>2. /\ local.enc = a /\ local.add = b /\ raw.payload_size = a + b
          /\ a \in Nat /\ b \in Nat /\ a + b <= Room
      BY <1>3, <2>1, <3>1, RawLengths DEF check_payload, Intact, ReadingIntact
    <3>3. local.len \in U32
      BY <1>3 DEF check_payload, Typed, ReadingFits
    <3> HIDE DEF a, b
    <3>4. b \in U32 /\ a \in U32 /\ b + a <= Room /\ Header + b + a = Header + raw.payload_size
          /\ b + a = raw.payload_size
      BY <3>2, RoomIsNat DEF U32
    <3>5. /\ sgx_calc_sealed_data_size(b, a) # MaxU32
          /\ sgx_calc_sealed_data_size(b, a) = Header + b + a /\ Plus(b, a) = b + a
      BY <3>4, SizeFits
    <3>6. Fits(local.add, local.enc, local.len) /\ Plus(local.add, local.enc) = raw.payload_size
      BY <2>1, <3>2, <3>4, <3>5 DEF Fits
    <3>7. pc' = "encrypt_txt"
      BY <1>3, <3>6 DEF check_payload
    <3> QED BY <3>7 DEF None, Returns
  <2>2. result' = result \/ Quiet(result')
    BY <1>1, <1>3, <2>1 DEF check_payload
  <2> QED BY <1>0, <2>2, QuietStep
<1>4. CASE read_additional_len \/ copy_encrypt \/ copy_additional \/ read_fields
  <2>1. Quiet(result')
    BY <1>4, QuietForms
       DEF read_additional_len, copy_encrypt, copy_additional, read_fields, NoReturn, Returns
  <2> QED BY <1>0, <2>1, QuietStep
<1> QED BY <1>2, <1>3, <1>4

\* Every step answers as it should.
LEMMA ResultStep == Typed /\ Intact /\ Results /\ [Next]_vars => Results'
<1> SUFFICES ASSUME Typed, Intact, Results, [Next]_vars PROVE Results'
  OBVIOUS
<1>1. ASSUME NEW op \in {"seal", "mac"}, NEW view, NEW size, NEW text, NEW add, NEW policy_ok,
             NEW place, Seal(op, view, size, text, add, policy_ok, place)
      PROVE  Results'
  <2>1. /\ result' = Failed(op) \/ result' = NoResult
        /\ call' = NoCall /\ UNCHANGED sealed
    BY <1>1 DEF Seal, Returns, NoReturn, NoLibraryCall
  <2> QED BY <2>1, QuietForms, QuietStep
<1>2. CASE seal_fails \/ seal_key \/ seal_copy
  <2>1. ASSUME pc \in Sealing PROVE local.op \in {"seal", "mac"}
    BY <2>1 DEF Typed, SealingFits
  <2>2. /\ \/ result' = NoResult \/ result' = Failed(local.op)
           \/ result' = [Failed(local.op) EXCEPT !.ok = TRUE]
        /\ pc \in Sealing /\ call' = NoCall /\ UNCHANGED sealed
    BY <1>2 DEF seal_fails, seal_key, seal_copy, Returns, NoReturn, NoLibraryCall, Sealing
  <2>3. Quiet(result')
    BY <2>1, <2>2, QuietForms
  <2> QED BY <2>2, <2>3, QuietStep
<1>3. CASE seal_encrypt
  <2>1. local.text \in Seq(Byte) /\ outer \in Seq(Byte)
    BY <1>3 DEF seal_encrypt, Typed, SealingFits, Sealing
  <2>2. Len(local.text) \in Nat /\ Len(outer) \in Nat
    BY <2>1
  <2>3. /\ call' = rsgx_rijndael128GCM_encrypt(Len(local.text), TRUE, Len(outer), Len(local.text))
        /\ sealed \subseteq sealed' /\ result' = result
    BY <1>3 DEF seal_encrypt
  <2>4. Faithful(call')
    BY <2>2, <2>3, GcmFaithful
  <2> QED BY <2>3, <2>4, QuietStep
<1>4. ASSUME NEW len, NEW outside,
             to_raw_sealed_data_t(len, outside) \/ from_raw_sealed_data_t(len)
      PROVE  Results'
  <2>1. result' = NoResult /\ call' = NoCall /\ UNCHANGED sealed
    BY <1>4 DEF to_raw_sealed_data_t, from_raw_sealed_data_t, NoReturn, NoLibraryCall
  <2> QED BY <2>1, QuietForms, QuietStep
<1>5. CASE \/ read_additional_len \/ read_encrypt_len \/ check_payload
           \/ copy_encrypt \/ copy_additional \/ read_fields
  BY <1>5, ReadAnswers
<1>6. ASSUME NEW view \in Views, NEW size \in Element,
             unseal_data(view, size) \/ unmac_aadata(view, size)
      PROVE  Results'
  BY <1>6, OpenStep, SealAssumption DEF Intact
<1>7. CASE host_writes_header \/ host_writes_payload \/ host_restores \/ host_writes_outer
  <2>1. result' = NoResult /\ call' = NoCall /\ UNCHANGED sealed
    BY <1>7 DEF host_writes_header, host_writes_payload, host_restores, host_writes_outer,
                HostWrites, NoReturn, NoLibraryCall
  <2> QED BY <2>1, QuietForms, QuietStep
<1>8. CASE other_call
  <2>1. call' \in Calls /\ UNCHANGED <<sealed, result>>
    BY <1>8 DEF other_call
  <2>2. LibraryToldTruth'
    BY <2>1, CallsFaithful DEF LibraryToldTruth
  <2> QED BY <2>1, <2>2, QuietResult DEF Results
<1>9. CASE UNCHANGED vars
  BY <1>9 DEF vars, Results, OpensOnlySealed, SealedOpens, LibraryToldTruth
<1> QED BY <1>1, <1>2, <1>3, <1>4, <1>5, <1>6, <1>7, <1>8, <1>9
        DEF Next, seal_data, mac_aadata

\* The inductive invariant: the shape of the state, what is intact, and the answers.
IInv == Typed /\ Intact /\ Results

\* It holds at the start and is preserved by every step.
LEMMA Invariance == Spec => []IInv
<1>1. Init => Intact /\ Results
  <2>1. Faithful(NoCall)
    BY DEF Faithful, NoCall, Made
  <2> QED BY <2>1 DEF Init, Intact, ObjectIntact, CopyIntact, RawIntact, ReadingIntact, Default,
             Results, OpensOnlySealed, SealedOpens, LibraryToldTruth, NoResult
<1>2. IInv /\ [Next]_vars => IInv'
  BY TypedStep, IntactStep, ResultStep DEF IInv
<1> QED BY <1>1, <1>2, InitTyped, PTL DEF Spec, IInv

\* Whatever the host writes to a buffer and whenever, an object that opens is one the
\* enclave sealed, with the text, the additional text and the kind it was sealed with:
\* src/sgx-tseal/src/internal.rs.
THEOREM OnlySealedOpens == Spec => []OpensOnlySealed
<1> QED BY Invariance, PTL DEF IInv, Results

\* What was sealed from memory of the enclave opens, straight away and after a trip
\* through a buffer nobody has written.
THEOREM WholeSealOpens == Spec => []SealedOpens
<1> QED BY Invariance, PTL DEF IInv, Results

\* Every call of the cryptographic library, but the two that LibraryToldTruth names,
\* passes the lengths its buffers have.
THEOREM LibraryIsTold == Spec => []LibraryToldTruth
<1> QED BY Invariance, PTL DEF IInv, Results

================================================================================
