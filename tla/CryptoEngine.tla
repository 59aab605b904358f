---------------------------- MODULE CryptoEngine ----------------------------
(***************************************************************************)
(* vajraa_decrypt_gcm (native/src/crypto_engine.cpp), with OpenSSL and     *)
(* with the BCrypt of Windows, call by call of the library: each call may  *)
(* fail, and every early return has to give back what the calls before it  *)
(* have acquired.                                                          *)
(***************************************************************************)
EXTENDS Integers, Sequences

CONSTANT Libraries   \* the libraries that the engine is built with

VARIABLES
  library,
  step,       \* the next call
  held,       \* objects of the library, and memory with the key
  authentic,  \* ciphertext, data and tag belong together, under this key
  plaintext_out, \* what is in the caller's buffer
  result      \* what the last vajraa_decrypt_gcm returned

engineVars == <<library, step, held, authentic, plaintext_out, result>>

EngineInit ==
  /\ library \in Libraries
  /\ step = "idle"
  /\ held = {}
  /\ authentic \in BOOLEAN
  /\ plaintext_out = "old"
  /\ result = "none"

\* The call of the library at step s: it succeeds, or decrypt returns false
\* after it has given back the objects in frees.
Call(s, next, frees) ==
  /\ step = s
  /\ \/ step' = next /\ UNCHANGED <<held, result>>
     \/ step' = "idle" /\ held' = held \ frees /\ result' = "false"
  /\ UNCHANGED <<library, authentic, plaintext_out>>

\* A call of the library that creates an object.
Create(s, next, object, frees) ==
  /\ step = s
  /\ \/ step' = next /\ held' = held \cup {object} /\ UNCHANGED result
     \/ step' = "idle" /\ held' = held \ frees /\ result' = "false"
  /\ UNCHANGED <<library, authentic, plaintext_out>>

Begin ==
  /\ step = "idle"
  /\ step' = IF library = "openssl" THEN "new" ELSE "open"
  /\ authentic' \in BOOLEAN
  /\ plaintext_out' = "old" /\ result' = "none"
  /\ UNCHANGED <<library, held>>

-----------------------------------------------------------------------------
(* OpenSSL                                                                 *)

InitContext ==
  \/ Create("new", "cipher", "ctx", {})
  \/ Call("cipher", "ivlen", {"ctx"})
  \/ Call("ivlen", "key", {"ctx"})
  \/ Call("key", "aad", {"ctx"})
  \/ Call("aad", "update", {"ctx"})

\* The plaintext is written before the tag is known.
Update ==
  /\ step = "update"
  /\ \/ step' = "tag" /\ plaintext_out' = "unverified" /\ UNCHANGED <<held, result>>
     \/ /\ step' = "idle" /\ held' = held \ {"ctx"} /\ result' = "false"
        /\ UNCHANGED plaintext_out
  /\ UNCHANGED <<library, authentic>>

SetTag == Call("tag", "final", {"ctx"})

Final ==
  /\ step = "final"
  /\ step' = "idle"
  /\ held' = held \ {"ctx"}
  /\ result' = IF authentic THEN "true" ELSE "false"
  /\ plaintext_out' = IF authentic THEN "verified" ELSE "unverified"
  /\ UNCHANGED <<library, authentic>>

-----------------------------------------------------------------------------
(* BCrypt                                                                  *)

OpenAlgorithm ==
  \/ Create("open", "chaining", "hAlg", {})
  \/ Call("chaining", "blob", {"hAlg"})
  \/ Create("blob", "import", "pKeyBlob", {"hAlg"})

\* The blob with the key is wiped and freed whether it was imported or not.
ImportKey ==
  /\ step = "import"
  /\ \/ /\ step' = "decrypt" /\ held' = (held \ {"pKeyBlob"}) \cup {"hKey"}
        /\ UNCHANGED result
     \/ step' = "idle" /\ held' = held \ {"pKeyBlob", "hAlg"} /\ result' = "false"
  /\ UNCHANGED <<library, authentic, plaintext_out>>

BCryptDecrypt ==
  /\ step = "decrypt"
  /\ step' = "idle"
  /\ held' = held \ {"hKey", "hAlg"}
  /\ \/ authentic /\ result' = "true" /\ plaintext_out' = "verified"
     \/ result' = "false" /\ UNCHANGED plaintext_out
  /\ UNCHANGED <<library, authentic>>

EngineNext ==
  \/ Begin
  \/ InitContext \/ Update \/ SetTag \/ Final
  \/ OpenAlgorithm \/ ImportKey \/ BCryptDecrypt

EngineTypeOK ==
  /\ library \in Libraries
  /\ held \subseteq {"ctx", "hAlg", "pKeyBlob", "hKey"}
  /\ plaintext_out \in {"old", "unverified", "verified"}
  /\ result \in {"none", "true", "false"}
  /\ result = "true" => plaintext_out = "verified"
=============================================================================
