------------------------------ MODULE KeyExchange ------------------------------
(***************************************************************************)
(* The keys of the effective sink and of the decoder (mylogger/crypt/      *)
(* crypt.cpp, AES_crypt.cpp; the constructor and Log of sinks/effective_-  *)
(* sink.cpp; decode/decode.cpp): ECDH gives the two a common secret, from  *)
(* which AESCrypt makes the key of AES.                                    *)
(*                                                                         *)
(* A string is a sequence of bytes, and a byte two digits in hexadecimal.  *)
(* Some bytes are the characters of digits.  Lengths are those of the code *)
(* on a smaller scale, and so is the base.  A key pair is known by its     *)
(* private key, of which the public key is a copy here.                    *)
(***************************************************************************)
EXTENDS Integers, Sequences, SequencesExt

CONSTANTS
    Base,           \* 16
    DigitOf,        \* what digit each byte that is the character of one stands for
    SecretLength,   \* AgreedValueLength()
    KeyLengths,     \* the lengths of keys that AES takes
    ServerPairs, ClientPairs,
    IVs,
    MaxLogs         \* bound: items logged

Byte == 0..(Base * Base - 1)
Strings(n) == [1..n -> Byte]

\* DigitOf has a character for each digit; no server has the key pair of a client.

VARIABLES
    secret,         \* what each server and client pair agree on
    server,         \* the decoder's private key, in hexadecimal
    pub_key_,       \* Conf::pub_key_, in hexadecimal
    client_pub_key_,
    key_,           \* AESCrypt::key_ of the sink's crypt_
    logged,         \* items given to Log so far
    cached,         \* what Log wrote to the cache
    at              \* where the sink is: "down", "up" or "threw"

vars == <<secret, server, pub_key_, client_pub_key_, key_, logged, cached, at>>

-----------------------------------------------------------------------------

Character(d) == CHOOSE c \in DOMAIN DigitOf : DigitOf[c] = d

\* HexEncoder
BinaryKeyToHex(s) ==
    FlattenSeq([i \in DOMAIN s |-> <<Character(s[i] \div Base), Character(s[i] % Base)>>])

\* HexDecoder passes over what is not a digit, and drops a digit left alone.
HexKeyToBinary(s) ==
    LET digits == SelectSeq(s, LAMBDA c : c \in DOMAIN DigitOf)
    IN  [i \in 1..(Len(digits) \div 2) |->
            DigitOf[digits[2 * i - 1]] * Base + DigitOf[digits[2 * i]]]

\* Agree finds the other's public key invalid, or both sides have the secret.
Invalid == <<"invalid">>
GenerateECDHSharedKey(pri, pub) ==
    IF {pri, pub} \in DOMAIN secret THEN secret[{pri, pub}] ELSE Invalid

\* Any pair that no server has may come of it.
GenerateECDHKey == ClientPairs

\* AESCrypt(key)
AESCrypt(key) == HexKeyToBinary(key)

\* AES throws on a key of another length.
Usable(key) == Len(key) \in KeyLengths

GenerateIV == {BinaryKeyToHex(iv) : iv \in IVs}

\* The ciphertext, behind the IV it was made with.
Encrypt(item, key, iv) == [iv |-> HexKeyToBinary(iv), data |-> [key |-> key, item |-> item]]

-----------------------------------------------------------------------------

Init ==
    /\ secret \in [{{s, c} : s \in ServerPairs, c \in ClientPairs} -> Strings(SecretLength)]
    /\ server \in {BinaryKeyToHex(s) : s \in ServerPairs}
    /\ pub_key_ \in {server, <<>>}
    /\ client_pub_key_ = <<>> /\ key_ = <<>>
    /\ logged = 0 /\ cached = <<>> /\ at = "down"

\* The constructor of the sink: a key pair, then the key for AES.
Construct ==
    /\ at = "down"
    /\ \E pair \in GenerateECDHKey :
          LET shared == GenerateECDHSharedKey(pair, HexKeyToBinary(pub_key_)) IN
          /\ client_pub_key_' = pair
          /\ IF shared = Invalid THEN at' = "threw" /\ UNCHANGED key_
                                 ELSE at' = "up" /\ key_' = AESCrypt(shared)
    /\ UNCHANGED <<secret, server, pub_key_, logged, cached>>

\* Log: an item reaches the cache unless Encrypt throws.
Log ==
    /\ at = "up"
    /\ logged < MaxLogs
    /\ logged' = logged + 1
    /\ IF Usable(key_) THEN \E iv \in GenerateIV : cached' = Append(cached, Encrypt(logged + 1, key_, iv))
                       ELSE UNCHANGED cached
    /\ UNCHANGED <<secret, server, pub_key_, client_pub_key_, key_, at>>

Next == Construct \/ Log
Spec == Init /\ [][Next]_vars

-----------------------------------------------------------------------------
(***************************************************************************)
(* Properties.                                                             *)
(***************************************************************************)

\* The decoder's key, and what it makes of a ciphertext: nothing if it throws.
DecoderKey == AESCrypt(GenerateECDHSharedKey(HexKeyToBinary(server), client_pub_key_))
Opened(data, key) == IF Usable(key) /\ data.key = key THEN <<data.item>> ELSE <<>>
Decrypt(cipher) == Opened(cipher.data, DecoderKey)

\* What Log is given is in the cache, encrypted, and the decoder has the key to it.
LoggedItemEncrypted ==
    /\ Len(cached) = logged
    /\ \A i \in DOMAIN cached : Decrypt(cached[i]) = <<i>>
=============================================================================
