------------------------------- MODULE KeyForms --------------------------------
(***************************************************************************)
(* Keys and signatures out of texts: the loaders of key_types.cpp,         *)
(* snode_info.cpp and signature.cpp and of the python binding.  A text is  *)
(* its length, what its characters belong to and how many '=' it ends in;  *)
(* what a loader does is how many bytes it writes to its target.           *)
(***************************************************************************)
EXTENDS Integers

CONSTANTS
  MaxLen,  \* bound: characters of a text
  Threw,   \* the loader threw an exception, nothing is returned
  Overrun, \* the loader ran past the end of text and target: undefined
  Unused   \* the text has not been given to a loader

ASSUME BoundAssumption ==
  /\ MaxLen \in Nat
  /\ Threw \notin Int /\ Overrun \notin Int /\ Unused \notin Int
  /\ Overrun \notin {Threw, Unused}

VARIABLES text, loader, written

loadvars == <<text, loader, written>>

(* Hex digits are base64 characters.                                       *)
Text == {s \in [len : 0..MaxLen, hex : BOOLEAN, b64 : BOOLEAN, b32z : BOOLEAN,
                pads : 0..2] :
           /\ s.hex => s.b64
           /\ s.pads > 0 => ~s.hex /\ ~s.b32z
           /\ s.pads <= s.len}

-------------------------------------------------------------------------------
(* oxenc, external                                                         *)

(* Padding is optional, but has to fill up a group of four.                *)
is_base64(s) ==
  s.b64 /\ s.len % 4 # 1 /\ (s.pads > 0 => s.len % 4 = 0)

from_hex_size(n)    == n \div 2
(* The decoder takes two characters at a time until it is at the end,      *)
(* which it never is if their number is odd.  It looks up a digit of any   *)
(* character: callers are to ask is_hex first.                             *)
from_hex(s) == IF s.len % 2 = 1 THEN Overrun ELSE from_hex_size(s.len)
from_base64_size(s) == ((s.len - s.pads) * 6) \div 8
from_base32z_size(n) == (n * 5) \div 8

-------------------------------------------------------------------------------
(* Loaders                                                                 *)

(* Wrong variant, for mutation only: 44 characters with or without '='.    *)
key_in_base64_loose(s) == s.len \in {43, 44} /\ is_base64(s)

key_in_base64(s) ==
  (s.len = 43 \/ (s.len = 44 /\ s.pads > 0)) /\ is_base64(s)

(* The form goes by the length; everything else leaves the null key.       *)
parse_pubkey(s) ==
  CASE s.len = 32             -> 32
    [] s.len = 64 /\ s.hex    -> from_hex(s)
    [] key_in_base64(s)       -> from_base64_size(s)
    [] s.len = 52 /\ s.b32z   -> from_base32z_size(s.len)
    [] OTHER                  -> 0

load_from_hex(s, length) ==
  IF s.hex /\ s.len = 2 * length THEN from_hex(s) ELSE Threw

load_from_bytes(s, length) == IF s.len = length THEN length ELSE Threw

(* The python binding: keys of a Parser, and the arguments of XEd25519.    *)
set_key(s, length) == IF s.len # length THEN Threw ELSE s.len
uview(s, required_size) ==
  IF required_size # 0 /\ s.len # required_size THEN Threw ELSE s.len

(* SNodeInfo's own loader, for members of length bytes, does not ask what  *)
(* the characters are, and halves the length of the text.                  *)
LoadFromHex(s, length) ==
  IF from_hex_size(s.len) > length THEN Threw ELSE from_hex(s)

signature_from_base64(s) ==
  IF is_base64(s) /\ (s.len = 86 \/ (s.len = 88 /\ s.pads = 2))
    THEN from_base64_size(s) ELSE Threw

-------------------------------------------------------------------------------
Loaders == {"parse_pubkey", "from_hex", "from_bytes", "set_key", "LoadFromHex",
            "signature", "key_arg", "signature_arg"}

(* Bytes of what is loaded.                                                *)
Target(l) == IF l \in {"signature", "signature_arg"} THEN 64 ELSE 32

Load(l) ==
  /\ written = Unused
  /\ loader' = l
  /\ written' = CASE l = "parse_pubkey" -> parse_pubkey(text)
                  [] l = "from_hex"     -> load_from_hex(text, Target(l))
                  [] l = "from_bytes"   -> load_from_bytes(text, Target(l))
                  [] l = "set_key"      -> set_key(text, Target(l))
                  [] l = "LoadFromHex"  -> LoadFromHex(text, Target(l))
                  [] l = "signature"    -> signature_from_base64(text)
                  [] l \in {"key_arg", "signature_arg"} -> uview(text, Target(l))
  /\ UNCHANGED text

LoadInit == text \in Text /\ loader = "none" /\ written = Unused

LoadNext == \E l \in Loaders : Load(l)

LoadSpec == LoadInit /\ [][LoadNext]_loadvars

-------------------------------------------------------------------------------
(* No loader writes behind the key or the signature it loads, whatever the *)
(* text, but for one: SNodeInfo's for an odd number of characters that     *)
(* would fit, the odd one not counted.                                     *)
WithinTargetUnlessOddHex ==
  \/ written \in {Unused, Threw} \cup 0..Target(loader)
  \/ /\ written = Overrun /\ loader = "LoadFromHex"
     /\ text.len % 2 = 1 /\ text.len <= 2 * Target(loader) + 1

(* What key_types.hpp says of parse_pubkey: it "Returns a null pk (i.e.    *)
(* operator bool() returns false) and warns on invalid input".  Not so for *)
(* 44 characters of base64 that end in two '=': 31 bytes are written.      *)
NullUnlessKey ==
  loader = "parse_pubkey" => written \in {0, Target(loader)}
===============================================================================
