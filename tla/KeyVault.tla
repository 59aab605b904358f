------------------------------ MODULE KeyVault ------------------------------
(***************************************************************************)
(* pal_store_key and pal_retrieve_key of the five platforms.  The calls    *)
(* are atomic here; module SecureKernel has a store that another thread    *)
(* reads half way.  A key is a sequence of bits, which stand for bytes.    *)
(***************************************************************************)
EXTENDS Integers, Sequences

CONSTANTS
  KeysOf,     \* keys that callers store, by platform
  BufferSizes, \* sizes of the buffers that callers retrieve into
  VaultSize,  \* bytes of g_share1 and g_share2
  PageSize,   \* bytes of the page of Windows
  TempSize,   \* bytes of temp_buf of Windows
  EmbeddedSize \* bytes of g_stored_key

Platforms == {"linux", "macos", "android", "windows", "embedded"}
Bits == {0, 1}
Bytes == 1..PageSize

\* 256 bytes, a page of 4096, 256 and 32.
ASSUME VaultAssumption ==
  /\ VaultSize \in Nat /\ PageSize \in Nat /\ TempSize \in Nat /\ EmbeddedSize \in Nat
  /\ VaultSize <= PageSize /\ TempSize <= PageSize /\ EmbeddedSize <= PageSize
  /\ KeysOf \in [Platforms -> SUBSET Seq(Bits)]
  /\ BufferSizes \subseteq Nat

VARIABLES
  platform,        \* the platform of the build
  g_share1, g_share2, \* the masked key; on Windows and embedded systems
                   \* g_share1 is g_encrypted_key_ptr or g_stored_key
  g_encrypted_key, \* what the page of Windows holds: "null" if there is no
                   \* page, "clear" unless CryptProtectMemory encrypted it
  g_key_len,
  vault_call       \* the last call: its argument, and what it returned

vaultVars == <<platform, g_share1, g_share2, g_encrypted_key, g_key_len, vault_call>>

Stored(k, ok) == [stored |-> k, room |-> 0, ok |-> ok, key |-> <<>>]
Retrieved(n, ok, k) == [stored |-> <<>>, room |-> n, ok |-> ok, key |-> k]
Xor(a, b) == (a + b) % 2

VaultInit ==
  /\ platform \in Platforms
  /\ g_share1 = [i \in Bytes |-> 0] /\ g_share2 = [i \in Bytes |-> 0]
  /\ g_encrypted_key = "null" /\ g_key_len = 0
  /\ vault_call = Stored(<<>>, FALSE)

\* share1 is random, share2 the key masked by it; what lies beyond the key
\* stays as it was.
Mask(k, share) ==
  /\ g_share1' = [i \in Bytes |-> IF i <= Len(k) THEN share[i] ELSE g_share1[i]]
  /\ g_share2' = [i \in Bytes |-> IF i <= Len(k) THEN Xor(k[i], share[i]) ELSE g_share2[i]]
  /\ g_key_len' = Len(k)
  /\ vault_call' = Stored(k, TRUE)
  /\ UNCHANGED g_encrypted_key

\* From /dev/urandom, or from rand() if that cannot be read.
StoreLinux(k) ==
  /\ platform = "linux" /\ Len(k) <= VaultSize
  /\ \E share \in [DOMAIN k -> Bits] : Mask(k, share)

\* From rand(), byte by byte.
StoreMacos(k) ==
  /\ platform = "macos" /\ Len(k) <= VaultSize
  /\ \E share \in [DOMAIN k -> Bits] : Mask(k, share)

StoreAndroid(k) ==
  /\ platform = "android" /\ Len(k) <= VaultSize
  /\ \E share \in [DOMAIN k -> Bits] : Mask(k, share)

\* The key is too long.
StoreRefused(k) ==
  /\ \/ platform \in {"linux", "macos", "android"} /\ Len(k) > VaultSize
     \/ platform = "embedded" /\ Len(k) > EmbeddedSize
  /\ vault_call' = Stored(k, FALSE)
  /\ UNCHANGED <<g_share1, g_share2, g_encrypted_key, g_key_len>>

\* Mutant of StoreEmbedded: the length is kept.
StoreEmbeddedKeepingTheLength(k) ==
  /\ platform = "embedded" /\ Len(k) <= EmbeddedSize
  /\ g_share1' = [i \in Bytes |-> IF i <= Len(k) THEN k[i] ELSE g_share1[i]]
  /\ g_key_len' = IF g_key_len = 0 THEN Len(k) ELSE g_key_len
  /\ vault_call' = Stored(k, TRUE)
  /\ UNCHANGED <<g_share2, g_encrypted_key>>

\* In the clear.
StoreEmbedded(k) ==
  /\ platform = "embedded" /\ Len(k) <= EmbeddedSize
  /\ g_share1' = [i \in Bytes |-> IF i <= Len(k) THEN k[i] ELSE g_share1[i]]
  /\ g_key_len' = Len(k)
  /\ vault_call' = Stored(k, TRUE)
  /\ UNCHANGED <<g_share2, g_encrypted_key>>

\* The page is allocated once, and wiped before the length is checked.  It is
\* overwritten, and the length set, before CryptProtectMemory encrypts it in
\* place or fails.
StoreWindows(k) ==
  /\ platform = "windows"
  /\ \/ /\ g_encrypted_key = "null"
        /\ vault_call' = Stored(k, FALSE)
        /\ UNCHANGED <<g_share1, g_encrypted_key, g_key_len>>
     \/ /\ Len(k) > PageSize
        /\ g_share1' = [i \in Bytes |-> 0] /\ g_encrypted_key' = "clear"
        /\ vault_call' = Stored(k, FALSE)
        /\ UNCHANGED g_key_len
     \/ /\ Len(k) <= PageSize
        /\ g_share1' = [i \in Bytes |-> IF i <= Len(k) THEN k[i] ELSE 0]
        /\ g_key_len' = Len(k)
        /\ \/ g_encrypted_key' = "encrypted" /\ vault_call' = Stored(k, TRUE)
           \/ g_encrypted_key' = "clear" /\ vault_call' = Stored(k, FALSE)
  /\ UNCHANGED g_share2

\* The bytes that a retrieve copies to the buffer.
Unmasked ==
  [i \in 1..g_key_len |->
     IF platform \in {"linux", "macos", "android"}
     THEN Xor(g_share1[i], g_share2[i]) ELSE g_share1[i]]

RetrieveMasked(n) ==
  /\ platform \in {"linux", "macos", "android", "embedded"}
  /\ vault_call' = IF g_key_len = 0 \/ n < g_key_len
                   THEN Retrieved(n, FALSE, <<>>) ELSE Retrieved(n, TRUE, Unmasked)
  /\ UNCHANGED <<platform, g_share1, g_share2, g_encrypted_key, g_key_len>>

\* The page is copied to temp_buf and decrypted there.  CryptUnprotectMemory
\* may fail, and of what was not encrypted it makes any bytes.
RetrieveWindows(n) ==
  /\ platform = "windows"
  /\ \/ vault_call' = Retrieved(n, FALSE, <<>>)
     \/ /\ g_key_len \in 1..n /\ g_key_len <= TempSize
        /\ \/ g_encrypted_key = "encrypted" /\ vault_call' = Retrieved(n, TRUE, Unmasked)
           \/ /\ g_encrypted_key = "clear"
              /\ \E bytes \in [1..g_key_len -> Bits] : vault_call' = Retrieved(n, TRUE, bytes)
  /\ UNCHANGED <<platform, g_share1, g_share2, g_encrypted_key, g_key_len>>

StoreKey(k) ==
  /\ StoreLinux(k) \/ StoreMacos(k) \/ StoreAndroid(k) \/ StoreRefused(k)
       \/ StoreEmbedded(k) \/ StoreWindows(k)
  /\ UNCHANGED platform

VaultNext ==
  \/ \E k \in KeysOf[platform] : StoreKey(k)
  \/ \E n \in BufferSizes : RetrieveMasked(n) \/ RetrieveWindows(n)

VaultTypeOK ==
  /\ platform \in Platforms
  /\ g_share1 \in [Bytes -> Bits] /\ g_share2 \in [Bytes -> Bits]
  /\ g_encrypted_key \in {"null", "clear", "encrypted"}
  /\ g_key_len \in 0..PageSize
  /\ vault_call.ok \in BOOLEAN

\* On Windows a store that fails may have lost the key before it.
Lost == g_encrypted_key = "clear"

\* The vault of every platform is a key store: the shares recombine to the
\* key that was stored last, of whatever length the keys before it were.
Abstract == INSTANCE KeyStore WITH
  reliable <- platform # "windows",
  lost <- Lost,
  key <- IF Lost THEN <<>> ELSE Unmasked,
  call <- vault_call,
  Keys <- UNION {KeysOf[p] : p \in Platforms},
  Buffers <- BufferSizes

\* What a retrieve gives is a key that a caller has stored ("Retrieves a key
\* previously stored using pal_store_key", pal.h): pal_retrieve_key of
\* Windows, after a store that failed, gives other bytes.
RetrievesAStoredKey ==
  vault_call.key # <<>> => vault_call.key \in KeysOf[platform]
=============================================================================
