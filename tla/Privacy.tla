------------------------------ MODULE Privacy ------------------------------
(* The keyed hashes that stand for client IP, user agent and origin in an      *)
(* event (rust/src/privacy.rs).  A text or a salt is a sequence of bytes: what *)
(* separates the three kinds of hash is how the bytes of their tags differ.    *)
(* HMAC-SHA-256 is taken to be injective: a hash is the pair of its key and    *)
(* its message.                                                               *)
EXTENDS Naturals, Sequences

Byte == 0..255

(* b"provii-ip-v0" *)
IP_DOMAIN_TAG == <<112, 114, 111, 118, 105, 105, 45, 105, 112, 45, 118, 48>>

(* b"provii-ua-v0" *)
UA_DOMAIN_TAG == <<112, 114, 111, 118, 105, 105, 45, 117, 97, 45, 118, 48>>

(* b"provii-origin-v0" *)
ORIGIN_DOMAIN_TAG ==
    <<112, 114, 111, 118, 105, 105, 45, 111, 114, 105, 103, 105, 110, 45, 118, 48>>

MIN_SALT_LENGTH == 32

HmacSha256(salt, message) == [key |-> salt, message |-> message]

hash_ip(ip, salt) == HmacSha256(salt, IP_DOMAIN_TAG \o ip)

hash_user_agent(ua, salt) == HmacSha256(salt, UA_DOMAIN_TAG \o ua)

hash_origin(origin, salt) == HmacSha256(salt, ORIGIN_DOMAIN_TAG \o origin)

TooShort == "PrivacySaltTooShort"
AllZeros == "PrivacySaltAllZeros"

(* PrivacyContext::new: the salt of the context, or an error. *)
new(salt) ==
    CASE Len(salt) < MIN_SALT_LENGTH -> TooShort
      [] Len(salt) >= MIN_SALT_LENGTH /\ \A n \in 1..Len(salt) : salt[n] = 0 -> AllZeros
      [] OTHER -> salt
============================================================================
