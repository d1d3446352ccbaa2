------------------------------- MODULE BundleFormat -------------------------------
(***************************************************************************)
(* What both daemons check of names, encodings and arguments around a      *)
(* .exec bundle: safe_exec_name (response.rs in the daemon, handler.rs in  *)
(* the executor), hex (five copies), the argument schema (args.rs) and     *)
(* the model's reply contract (response.rs).  Text is the sequence of its  *)
(* characters or, for a reply, of its tokens.                              *)
(***************************************************************************)
EXTENDS Integers, Sequences, SequencesExt

CONSTANTS
  MAX_NAME,    \* 128, the longest exec name
  Letter,      \* ASCII letters and digits that occur in names
  FullMatch    \* [pattern -> set of values that match \A(?:pattern)\z]

ASSUME BundleFormatAssumption == Letter \subseteq STRING \ {"/"}

SafeChar == Letter \union {".", "_", "-"}
HasDotDot(name) == \E i \in 1 .. Len(name) - 1 : name[i] = "." /\ name[i + 1] = "."

(* handler.rs and response.rs: the same rule, written twice. *)
safe_exec_name(name) ==
  /\ Len(name) \in 1 .. MAX_NAME
  /\ name # <<".">> /\ ~HasDotDot(name)
  /\ Range(name) \subseteq SafeChar
response_safe_exec_name(name) ==
  /\ Len(name) \in 1 .. MAX_NAME
  /\ name # <<".">> /\ ~HasDotDot(name)
  /\ Range(name) \subseteq SafeChar

(* resolve_bundle: bundle_dir.join("{name}.exec") is a file of bundle_dir  *)
(* itself, whose suffix keeps it from being "." or "..", unless a          *)
(* separator makes the name a path of its own.                             *)
in_bundle_dir(name) == name # <<>> /\ "/" \notin Range(name)

(* str::trim *)
Blank == {" ", "\n"}
trimmed(text) ==
  LET ink == {i \in DOMAIN text : text[i] \notin Blank}
  IN  IF ink = {} THEN <<>> ELSE SubSeq(text, Min(ink), Max(ink))

-----------------------------------------------------------------------------
HexDigit == <<"0", "1", "2", "3", "4", "5", "6", "7", "8", "9", "a", "b", "c", "d", "e", "f">>
Upper == [A |-> "a", B |-> "b", C |-> "c", D |-> "d", E |-> "e", F |-> "f"]
lowercase(c) == IF c \in DOMAIN Upper THEN Upper[c] ELSE c
BadNibble == 16
nibble(c) ==
  IF lowercase(c) \in Range(HexDigit)
  THEN (CHOOSE i \in 1 .. 16 : HexDigit[i] = lowercase(c)) - 1
  ELSE BadNibble
encode(bytes) ==
  [i \in 1 .. 2 * Len(bytes) |->
     IF i % 2 = 1 THEN HexDigit[(bytes[(i + 1) \div 2] \div 16) + 1]
     ELSE HexDigit[(bytes[i \div 2] % 16) + 1]]
(* Each copy trims first: key files end in a newline. *)
decodable(text) ==
  LET s == trimmed(text)
  IN  Len(s) % 2 = 0 /\ \A i \in DOMAIN s : nibble(s[i]) # BadNibble
decode(text) ==
  LET s == trimmed(text)
  IN  [i \in 1 .. Len(s) \div 2 |-> 16 * nibble(s[2 * i - 1]) + nibble(s[2 * i])]

-----------------------------------------------------------------------------
(* args.rs validate: undeclared names first, then the schema in name order.*)
(* spec.regex is "none", a pattern, or "bad" when it does not compile.     *)
undeclared(schema, provided) == DOMAIN provided \ DOMAIN schema
missing(schema, provided, name) == name \notin DOMAIN provided /\ schema[name].required
uncompilable(schema, provided, name) ==
  name \in DOMAIN provided /\ schema[name].regex = "bad"
mismatch(schema, provided, name) ==
  /\ name \in DOMAIN provided
  /\ schema[name].regex \in DOMAIN FullMatch
  /\ provided[name] \notin FullMatch[schema[name].regex]
validate_declared_only(schema, provided) ==
  IF \E name \in DOMAIN schema : missing(schema, provided, name) THEN "ArgRejected" ELSE "ok"
validate(schema, provided) ==
  LET failing == {name \in DOMAIN schema : \/ missing(schema, provided, name)
                                           \/ uncompilable(schema, provided, name)
                                           \/ mismatch(schema, provided, name)}
  IN  CASE undeclared(schema, provided) # {} -> "ArgRejected"
        [] undeclared(schema, provided) = {} /\ failing = {} -> "ok"
        [] OTHER -> IF uncompilable(schema, provided, Min(failing)) THEN "BadArgRegex"
                    ELSE "ArgRejected"

-----------------------------------------------------------------------------
(* response.rs.  A reply is its text as tokens ("fence", newline, blank,     *)
(* prose, a JSON object), whether the session's canary occurs in it,       *)
(* whether it is over the size cap, and what the object holds.             *)
Fence == "fence"

strip_one_fence(text) ==
  LET t == trimmed(text)
      newlines == {i \in DOMAIN t : t[i] = "\n"}
      body == trimmed(IF newlines = {} THEN <<>> ELSE SubSeq(t, Min(newlines) + 1, Len(t)))
  IN  CASE t = <<>> -> t
        [] t # <<>> /\ Head(t) # Fence -> t
        [] OTHER -> IF body # <<>> /\ Last(body) = Fence THEN trimmed(Front(body)) ELSE body

ObjectOutcome(o) ==
  CASE o.action = <<"ask">> -> IF o.question THEN "Ask" ELSE "BadShape"
    [] o.action = <<"refuse">> -> IF o.reason THEN "Refuse" ELSE "BadShape"
    [] OTHER -> IF response_safe_exec_name(o.action) THEN "Invoke" ELSE "UnsafeExecName"
parse_model_response(reply) ==
  CASE reply.canary -> "CanaryLeaked"
    [] ~reply.canary /\ trimmed(reply.text) = <<>> -> "Empty"
    [] ~reply.canary /\ trimmed(reply.text) # <<>> /\ reply.too_large -> "TooLarge"
    [] OTHER -> IF strip_one_fence(reply.text) = <<"object">> /\ ~reply.object.unknown_fields
                THEN ObjectOutcome(reply.object) ELSE "NotContractJson"
=============================================================================
