------------------------------- MODULE CryptoCalls -------------------------------
(***************************************************************************)
(* The calls of src/sgx-tcrypto/src/crypto.rs that take a message: what    *)
(* each wrapper checks before it calls the native library, and what it     *)
(* tells the library about its buffers.  The library takes lengths of 32   *)
(* bits, u32 or i32, and a slice may be longer than either can say.        *)
(*                                                                         *)
(* A call is a record: the function, whether its arguments are accepted,   *)
(* the buffers the library reads and writes, and for verifications what    *)
(* the library says and the answer.  A buffer has a length, and the        *)
(* library is told one.                                                    *)
(***************************************************************************)
EXTENDS Integers, Sequences

CONSTANTS
  MaxU32,  \* u32::MAX
  MaxI32,  \* i32::MAX
  Length   \* the lengths of slices, some of them beyond MaxU32

ASSUME CallAssumption == MaxI32 \in Nat /\ MaxU32 = 2 * MaxI32 + 1 /\ Length \subseteq Nat

\* The casts of a length.
AsU32(n) == n % (MaxU32 + 1)
AsI32(n) == IF AsU32(n) <= MaxI32 THEN AsU32(n) ELSE AsU32(n) - (MaxU32 + 1)

Buffer(n, told) == [has |-> n, told |-> told]
Made(fn, ok, reads, writes) ==
  [fn |-> fn, accepted |-> ok, reads |-> reads, writes |-> writes,
   said |-> <<"none", "none">>, answer |-> FALSE]

NoCall == Made("none", FALSE, << >>, << >>)

--------------------------------------------------------------------------------
\* A message that is not empty and whose length fits u32, with outputs of fixed size.
Message(fn, n) == Made(fn, n # 0 /\ n <= MaxU32, <<Buffer(n, AsU32(n))>>, << >>)

rsgx_sha256(n) == Message("sha256", n)
rsgx_sha384(n) == Message("sha384", n)
rsgx_sha1(n) == Message("sha1", n)
rsgx_rijndael128_cmac(n) == Message("cmac", n)
rsgx_ecdsa_sign(n) == Message("ecdsa_sign", n)
rsgx_rsa3072_sign(n) == Message("rsa3072_sign", n)
rsgx_rsa3072_sign_ex(n) == Message("rsa3072_sign_ex", n)

\* The length is checked as a u32 and passed as an i32.
rsgx_hmac_sha256(n) ==
  [Message("hmac", n) EXCEPT !.reads = <<Buffer(n, AsI32(n))>>]

\* Verification: the library has a status, and a result byte that is 0 for a valid
\* signature; a byte that is no result is taken for an invalid signature.
ecdsa_result(status, byte) ==
  IF status = "success" /\ byte # "no result" THEN byte ELSE "invalid signature"
rsgx_ecdsa_verify(n, status, byte) ==
  [Message("ecdsa_verify", n) EXCEPT
     !.said = <<status, byte>>,
     !.answer = n # 0 /\ n <= MaxU32 /\ status = "success" /\ ecdsa_result(status, byte) = "valid"]
rsgx_rsa3072_verify(n, status, byte) ==
  [Message("rsa3072_verify", n) EXCEPT
     !.said = <<status, byte>>,
     !.answer = n # 0 /\ n <= MaxU32 /\ status = "success" /\ byte = "valid"]

\* Ciphers: the library writes as many bytes as it reads.
Cipher(fn, least, src, dst) ==
  Made(fn, src >= least /\ src <= MaxU32 /\ dst <= MaxU32 /\ dst >= src,
       <<Buffer(src, AsU32(src))>>, <<Buffer(dst, AsU32(src))>>)

\* Mutant: the check of the length of the additional data is lost.
Authenticated_unchecked(call, iv_ok, aad) ==
  [call EXCEPT !.accepted = @ /\ iv_ok, !.reads = Append(@, Buffer(aad, AsU32(aad)))]

\* With an initialisation vector of the one size allowed, and additional data.
Authenticated(call, iv_ok, aad) ==
  [call EXCEPT !.accepted = @ /\ iv_ok /\ aad <= MaxU32,
               !.reads = Append(@, Buffer(aad, AsU32(aad)))]

rsgx_rijndael128GCM_encrypt(src, iv_ok, aad, dst) ==
  Authenticated(Cipher("gcm_encrypt", 0, src, dst), iv_ok, aad)
rsgx_rijndael128GCM_decrypt(src, iv_ok, aad, dst) ==
  Authenticated(Cipher("gcm_decrypt", 0, src, dst), iv_ok, aad)
rsgx_aes_ctr_encrypt(src, dst) == Cipher("ctr_encrypt", 1, src, dst)
rsgx_aes_ctr_decrypt(src, dst) == Cipher("ctr_decrypt", 1, src, dst)
rsgx_aes_gcm128_enc_init(iv_ok, aad) ==
  Authenticated(Made("gcm_init", TRUE, << >>, << >>), iv_ok, aad)
rsgx_aes_gcm128_enc_update(src, dst) == Cipher("gcm_update", 1, src, dst)

--------------------------------------------------------------------------------
\* Slices whose lengths are passed as i32.
Short(n) == n \in 1 .. MaxI32

rsgx_calculate_ecdsa_priv_key(drg, r_m1, key) ==
  Made("ecdsa_priv_key", Short(drg) /\ Short(r_m1) /\ Short(key),
       <<Buffer(drg, AsI32(drg)), Buffer(r_m1, AsI32(r_m1))>>, <<Buffer(key, AsI32(key))>>)
rsgx_ecc256_priv_key(drg, r_m1) ==
  Made("ecc256_priv_key", Short(drg) /\ Short(r_m1),
       <<Buffer(drg, AsI32(drg)), Buffer(r_m1, AsI32(r_m1))>>, << >>)

\* RSA keys: the library goes by the sizes the caller gives, and the components are
\* only checked to be there.  One component stands for all of them.
rsgx_create_rsa_key_pair(size, n) ==
  Made("rsa_key_pair", size > 0 /\ Short(n), << >>, <<Buffer(n, size)>>)
rsgx_create_rsa_key(size, n) ==
  Made("rsa_key", size > 0 /\ Short(n), <<Buffer(n, size)>>, << >>)

\* RSA of a message: with *out_len = 0 the library is given no output and only asked
\* for the length.
Rsa(fn, n, out, out_len) ==
  Made(fn, n # 0 /\ (out_len # 0 => out = out_len), <<Buffer(n, n)>>,
       IF out_len = 0 THEN << >> ELSE <<Buffer(out, out_len)>>)
rsgx_rsa_priv_decrypt_sha256(n, out, out_len) == Rsa("rsa_decrypt", n, out, out_len)
rsgx_rsa_pub_encrypt_sha256(n, out, out_len) == Rsa("rsa_encrypt", n, out, out_len)

--------------------------------------------------------------------------------
\* Every call there is, by the kind of its arguments.
MessageCalls ==
  UNION {{rsgx_sha256(n), rsgx_sha384(n), rsgx_sha1(n), rsgx_rijndael128_cmac(n),
          rsgx_ecdsa_sign(n), rsgx_rsa3072_sign(n), rsgx_rsa3072_sign_ex(n),
          rsgx_hmac_sha256(n)} : n \in Length}
Status == {"success", "error"}
ResultByte == {"valid", "invalid signature", "no result"}
VerifyCalls ==
  UNION {{rsgx_ecdsa_verify(n, status, byte), rsgx_rsa3072_verify(n, status, byte)} :
           n \in Length, status \in Status, byte \in ResultByte}
CipherCalls ==
  UNION {{rsgx_rijndael128GCM_encrypt(src, iv_ok, aad, dst),
          rsgx_rijndael128GCM_decrypt(src, iv_ok, aad, dst),
          rsgx_aes_gcm128_enc_init(iv_ok, aad),
          rsgx_aes_ctr_encrypt(src, dst), rsgx_aes_ctr_decrypt(src, dst),
          rsgx_aes_gcm128_enc_update(src, dst)} :
           src \in Length, aad \in Length, dst \in Length, iv_ok \in BOOLEAN}
SliceCalls ==
  UNION {{rsgx_calculate_ecdsa_priv_key(a, b, c), rsgx_ecc256_priv_key(a, b),
          rsgx_rsa_priv_decrypt_sha256(a, b, c), rsgx_rsa_pub_encrypt_sha256(a, b, c)} :
           a \in Length, b \in Length, c \in Length}
RsaKeyCalls ==
  UNION {{rsgx_create_rsa_key_pair(size, n), rsgx_create_rsa_key(size, n)} :
           size \in -(MaxI32 + 1) .. MaxI32, n \in Length}

Calls == MessageCalls \cup VerifyCalls \cup CipherCalls \cup SliceCalls \cup RsaKeyCalls

\* The library reads the whole of a buffer and no more, it writes within a buffer, and
\* a signature is reported valid only if the library found it valid.
Faithful(call) ==
  call.accepted =>
    /\ \A i \in DOMAIN call.reads : call.reads[i].told = call.reads[i].has
    /\ \A i \in DOMAIN call.writes : call.writes[i].told \in 0 .. call.writes[i].has
    /\ call.answer => call.said = <<"success", "valid">>
================================================================================
