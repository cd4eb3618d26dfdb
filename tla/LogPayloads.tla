------------------------------ MODULE LogPayloads ------------------------------
(***************************************************************************)
(* What becomes of payloads in the logs: LoggingInterceptor shortens the   *)
(* bodies, queries and error details of requests, AxiosService redacts the *)
(* data it sends and receives before its debug lines.  Payloads are JSON   *)
(* values: texts of some length, other scalars, lists, and objects with    *)
(* keys; a big number stands for what cannot be cloned through JSON.       *)
(*                                                                         *)
(* The functions that walk a payload recursively are recursive functions   *)
(* on Payloads: JSON values are trees, so a part is nested less deeply     *)
(* than what it is part of.                                                *)
(***************************************************************************)
EXTENDS Integers, Sequences

CONSTANTS
  Payloads,       \* JSON values, with their parts
  MaxNesting,     \* a bound of how deeply they are nested
  Nesting,        \* payload -> how deeply it is nested, at most
  Bodies,         \* what a client may send
  Data,           \* what is sent and received through AxiosService
  Paths,          \* lists of child numbers, to name a part of a payload
  BodyPreset, QueryPreset, DetailsPreset,  \* the HTTP_LOG_*_SANITIZE_PRESETs
  SensitiveKeys,  \* SENSITIVE_KEYS, in lower case
  LowerCase       \* key -> the key in lower case

Text(length) == [kind |-> "text", length |-> length]
Scalar == [kind |-> "scalar"]
BigNumber == [kind |-> "bigint"]
List(items) == [kind |-> "list", items |-> items]
Object(keys, values) == [kind |-> "object", keys |-> keys, values |-> values]
Marker(what) == [kind |-> "marker", what |-> what]

(* The keys of objects; the last one is sanitizeHttpLogPayload's.          *)
Keys == DOMAIN LowerCase \cup {"__truncated"}

(* What JSON.stringify can write, given the parts.                         *)
Json(Parts) ==
  [kind: {"text"}, length: Nat] \cup {Scalar} \cup [kind: {"list"}, items: Seq(Parts)] \cup
  {object \in [kind: {"object"}, keys: Seq(Keys), values: Seq(Parts)] :
     Len(object.keys) = Len(object.values)}

NestedBelow(n) == {value \in Payloads : Nesting[value] < n}

Presets == [maxDepth: Nat, maxArrayItems: Nat, maxObjectKeys: Nat, maxStringLength: Nat]
ASSUME PayloadConstants ==
  /\ {BodyPreset, QueryPreset, DetailsPreset} \subseteq Presets
  /\ MaxNesting \in Nat
  /\ Nesting \in [Payloads -> 0..MaxNesting]
  /\ \A value \in Payloads : value \in Json(NestedBelow(Nesting[value])) \cup {BigNumber}
  /\ Bodies \cup Data \subseteq Payloads
  /\ Paths \subseteq Seq(Nat)

VARIABLES
  payload,  \* the object in memory that a line is written about
  entry     \* the line: what wrote it and what it holds

logVars == <<payload, entry>>

NoLine == [by |-> "nobody", holds |-> Scalar]
LogInit == payload \in Bodies \cup Data /\ entry = NoLine

-----------------------------------------------------------------------------
(* LoggingInterceptor's sanitizeHttpLogPayload.  No object of a tree is    *)
(* seen twice.                                                             *)
AllShown(limit, n) == 1..n
Shown(limit, n) == 1..(IF n > limit THEN limit ELSE n)

(* The function sanitize inside, where sanitized is what it makes of the   *)
(* parts.                                                                  *)
Kept(sanitized, values, depth, limit) ==
  [i \in Shown(limit, Len(values)) |-> sanitized[values[i]][depth + 1]]

SanitizeList(sanitized, items, depth, limit) ==
  LET kept == Kept(sanitized, items, depth, limit)
  IN List(IF Len(items) > limit THEN Append(kept, Marker("more items")) ELSE kept)

SanitizeObject(sanitized, object, depth, limit) ==
  LET kept == Kept(sanitized, object.values, depth, limit)
      keys == [i \in DOMAIN kept |-> object.keys[i]]
  IN IF Len(object.keys) > limit
     THEN Object(Append(keys, "__truncated"), Append(kept, Marker("more keys")))
     ELSE Object(keys, kept)

SanitizeValue(sanitized, value, depth, preset) ==
  IF depth > preset.maxDepth THEN Marker("max depth reached")
  ELSE CASE value.kind = "text" ->
              IF value.length > preset.maxStringLength
              THEN [kind |-> "cut text", length |-> preset.maxStringLength] ELSE value
         [] value.kind = "list" ->
              SanitizeList(sanitized, value.items, depth, preset.maxArrayItems)
         [] value.kind = "object" ->
              SanitizeObject(sanitized, value, depth, preset.maxObjectKeys)
         [] OTHER -> value

Sanitize(preset) ==
  LET sanitized[value \in Payloads] ==
        [depth \in Nat |-> SanitizeValue(sanitized, value, depth, preset)]
  IN sanitized

SanitizeHttpLogPayload(value, preset) == Sanitize(preset)[value][0]

Omitted == Marker("unsupported content type")

(* The body of a multipart or binary request is left out altogether.       *)
LogRequestBody ==
  /\ payload \in Bodies
  /\ \E holds \in {SanitizeHttpLogPayload(payload, BodyPreset), Omitted} :
       entry' = [by |-> "body", holds |-> holds]
  /\ UNCHANGED payload

LogRequestQuery ==
  /\ payload \in Bodies
  /\ entry' = [by |-> "query", holds |-> SanitizeHttpLogPayload(payload, QueryPreset)]
  /\ UNCHANGED payload

LogErrorDetails ==
  /\ payload \in Bodies
  /\ entry' = [by |-> "details", holds |-> SanitizeHttpLogPayload(payload, DetailsPreset)]
  /\ UNCHANGED payload

-----------------------------------------------------------------------------
(* redactSensitiveData.                                                    *)
IsSensitive(key) == LowerCase[key] \in SensitiveKeys
Stars == [kind |-> "stars", digits |-> 0]
LastDigits == [kind |-> "stars", digits |-> 4]

(* A card number keeps its last four digits, if it has more.               *)
CardNumberRedacted(text) == IF text.length > 4 THEN LastDigits ELSE Stars
RedactionHandler(key, text) ==
  IF LowerCase[key] = "cardnumber" THEN CardNumberRedacted(text) ELSE Stars

(* The loop over the keys of an object, and redactObject, where redacted   *)
(* is what it makes of the parts.                                          *)
RedactKeys(redacted, object) ==
  [i \in DOMAIN object.values |->
     IF IsSensitive(object.keys[i]) /\ object.values[i].kind = "text"
     THEN RedactionHandler(object.keys[i], object.values[i]) ELSE redacted[object.values[i]]]

RedactValue(redacted, value) ==
  CASE value.kind = "list" -> List([i \in DOMAIN value.items |-> redacted[value.items[i]]])
    [] value.kind = "object" -> Object(value.keys, RedactKeys(redacted, value))
    [] OTHER -> value

RedactTopLevel(value) == RedactValue([part \in Payloads |-> part], value)
RedactObject(value) ==
  LET redacted[part \in Payloads] == RedactValue(redacted, part) IN redacted[value]

(* Whether JSON.stringify succeeds: nothing in the value is a big number.  *)
Copyable(levels) ==
  LET copyable[n \in 0..levels] ==
        IF n = 0 THEN {} ELSE Json(copyable[n - 1]) \cup {Stars, LastDigits}
  IN copyable
Serializable(value) == value \in Copyable(MaxNesting + 1)[MaxNesting + 1]

(* Bodies and queries are parsed from a request, error details are written *)
(* to a response: sanitize's String(value) meets no big number there.      *)
ASSUME BodiesAreJson == \A value \in Bodies : Serializable(value)

(* Whether safeClone returns a copy, and whether that copy is redacted.    *)
SharedClone(data) == [copied |-> FALSE, success |-> Serializable(data)]
SafeClone(data) == [copied |-> Serializable(data), success |-> Serializable(data)]

RedactSensitiveData(data) == IF SafeClone(data).success THEN RedactObject(data) ELSE data

(* What stringifyLimited cannot serialize it does not show.                *)
StringifyLimited(value) == IF Serializable(value) THEN value ELSE Marker("unserializable")

LogData ==
  /\ payload \in Data
  /\ entry' = [by |-> "data", holds |-> StringifyLimited(RedactSensitiveData(payload))]
  /\ payload' = IF SafeClone(payload).success /\ ~SafeClone(payload).copied
                THEN RedactObject(payload) ELSE payload

LogNext == LogRequestBody \/ LogRequestQuery \/ LogErrorDetails \/ LogData
LogSpec == LogInit /\ [][LogNext]_logVars

-----------------------------------------------------------------------------
(* Properties.                                                             *)

(* The values, shortened ones among them, that a preset leaves as they are *)
(* when Parts are what it leaves inside, and when left levels are allowed. *)
Shortened ==
  [kind: {"cut text"}, length: Nat] \cup
  {Marker(what) : what \in {"max depth reached", "more items", "more keys"}}
Within(value, preset) ==
  /\ value.kind \in {"text", "cut text"} => value.length <= preset.maxStringLength
  /\ value.kind = "list" => Len(value.items) <= preset.maxArrayItems
  /\ value.kind = "object" => Len(value.keys) <= preset.maxObjectKeys
FittingOver(Parts, preset) ==
  {value \in Json(Parts) \cup {BigNumber} \cup Shortened : Within(value, preset)}
Fitting(preset) ==
  LET fitting[left \in 0..preset.maxDepth + 1] ==
        IF left = 0 THEN {} ELSE FittingOver(fitting[left - 1], preset)
  IN fitting
FitsPreset(value, preset) == value \in Fitting(preset)[preset.maxDepth + 1]

(* The preset with room for the markers, which take an item, a key or a level. *)
WithMarkers(preset) ==
  [maxDepth |-> preset.maxDepth + 1, maxArrayItems |-> preset.maxArrayItems + 1,
   maxObjectKeys |-> preset.maxObjectKeys + 1, maxStringLength |-> preset.maxStringLength]

PresetOf == [body |-> BodyPreset, query |-> QueryPreset, details |-> DetailsPreset]

(* What the interceptor writes of a body, a query or an error is the whole *)
(* of it exactly when it fits the preset, and otherwise never more than    *)
(* the preset and its markers: neither does a small body lose a part nor   *)
(* does a large one, in whatever dimension, fill the log                   *)
(* (sanitizeHttpLogPayload).                                               *)
LinesFit ==
  entry.by \in DOMAIN PresetOf /\ entry.holds # Omitted =>
    LET preset == PresetOf[entry.by]
    IN /\ FitsPreset(payload, preset) <=> entry.holds = payload
       /\ FitsPreset(entry.holds, WithMarkers(preset))

(* What one passes on a path into a value, and whether the value has the   *)
(* children the path asks for.                                             *)
Children(value) ==
  CASE value.kind = "list" -> value.items
    [] value.kind = "object" -> value.values
    [] OTHER -> <<>>
Trail(value, path) ==
  LET trail[n \in 0..Len(path)] ==
        IF n = 0 THEN value ELSE Children(trail[n - 1])[path[n]]
  IN trail
LeadsInto(path, value) ==
  \A n \in 1..Len(path) : path[n] \in DOMAIN Children(Trail(value, path)[n - 1])

(* A part of the data, the value it is in, and its number there.           *)
IsSecret(part, parent, number) ==
  parent.kind = "object" /\ IsSensitive(parent.keys[number]) /\ part.kind = "text"

SameNode(own, shown) ==
  CASE own.kind = "list" -> shown.kind = "list" /\ Len(shown.items) = Len(own.items)
    [] own.kind = "object" ->
         /\ shown.kind = "object" /\ shown.keys = own.keys
         /\ Len(shown.values) = Len(own.values)
    [] OTHER -> shown = own

ShownAt(path, data, line) ==
  LET n == Len(path)
      own == Trail(data, path)
      shown == Trail(line, path)
  IN IF n > 0 /\ IsSecret(own[n], own[n - 1], path[n])
     THEN shown[n] = RedactionHandler(own[n - 1].keys[path[n]], own[n])
     ELSE SameNode(own[n], shown[n])

(* At whatever depth, in lists or objects, the line shows the data with    *)
(* the texts directly under a sensitive key redacted and everything else   *)
(* as it is; data that cannot be cloned, and so not redacted, is not shown *)
(* either; and the data itself, which is sent or returned after the line,  *)
(* is never redacted (redactSensitiveData before stringifyLimited).        *)
RedactionExact ==
  [][entry'.by = "data" =>
       /\ payload' = payload
       /\ IF Serializable(payload)
          THEN \A path \in Paths :
                 LeadsInto(path, payload) =>
                   LeadsInto(path, entry'.holds) /\ ShownAt(path, payload, entry'.holds)
          ELSE entry'.holds = Marker("unserializable")]_logVars
=============================================================================
