---------------------------- MODULE FlashPackage ----------------------------
(* The flash package of a sensor (scripts/make_flash_package.py): the seed  *)
(* is taken out of a key file by looking for the last marker 04 20, and     *)
(* certificate, seed and zone are laid out behind each other.  A file is a  *)
(* sequence of bytes.                                                       *)
EXTENDS Integers, Sequences

CONSTANTS Nil,                     \* the script fails
          RAW_ED25519_KEY_BYTES,   \* 32
          ZONE_BYTES,              \* 8
          MaxCert,                 \* 0xFFFF
          MAGIC, Crc(_)

ASSUME PackageAssumption ==
  /\ RAW_ED25519_KEY_BYTES \in Nat \ {0} /\ ZONE_BYTES \in Nat /\ MaxCert \in Nat
  /\ Nil \notin Seq(Int)

Marker == <<4, 32>>

Starts(bytes) == {i \in 1..(Len(bytes) - 1) : SubSeq(bytes, i, i + 1) = Marker}

MarkerAt(bytes) == CHOOSE i \in Starts(bytes) : \A j \in Starts(bytes) : j <= i

(* PEM is the base 64 of DER and is decoded before the search: der is what  *)
(* the search runs on, and a file of exactly 32 bytes is the seed itself.   *)
extract_raw_ed25519_private_key(file, der) ==
  IF Len(file) = RAW_ED25519_KEY_BYTES THEN file
  ELSE IF Starts(der) # {} /\ Len(der) >= MarkerAt(der) + 1 + RAW_ED25519_KEY_BYTES
       THEN SubSeq(der, MarkerAt(der) + 2, MarkerAt(der) + 1 + RAW_ED25519_KEY_BYTES)
  ELSE Nil

Zeros(n) == [i \in 1..n |-> 0]

(* Slip: the zone is not padded.                                            *)
encode_zone_short(zone) == zone

encode_zone(zone) ==
  IF zone = <<>> \/ Len(zone) > ZONE_BYTES THEN Nil ELSE zone \o Zeros(ZONE_BYTES - Len(zone))

build_package(cert, raw_key, zone) ==
  IF Len(cert) > MaxCert \/ encode_zone(zone) = Nil THEN Nil
  ELSE LET body == <<MAGIC, Len(cert)>> \o cert \o raw_key \o encode_zone(zone)
       IN  Append(body, Crc(body))

(* main: the package written, or nothing.                                   *)
Package(cert, file, der, zone) ==
  LET raw_key == extract_raw_ed25519_private_key(file, der)
  IN  IF raw_key = Nil THEN Nil ELSE build_package(cert, raw_key, zone)
=============================================================================
