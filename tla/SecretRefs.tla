------------------------------ MODULE SecretRefs ------------------------------
(***************************************************************************)
(* References to secrets in a pipeline's document                          *)
(* (src/common/src/secrets): found, read once per path, and replaced by    *)
(* what was read. Values are JSON values as in Reshape, whose objects are  *)
(* keyed by sequences of names: one name in a document, several for the    *)
(* dotted keys of a flattened secret. A string that starts with secret::   *)
(* is <<"ref", r>>, wherever it stands.                                    *)
(***************************************************************************)
EXTENDS Reshape

JRef(spelling, path, field) ==
  <<"ref", [spelling |-> spelling, path |-> path, field |-> field]>>
JNumber(s) == <<"number", s>>
JBool(s)   == <<"bool", s>>

\* The provider's names, in any spelling; another name is no reference at all and the
\* string stays where it is.
KindOfSpelling ==
  [s \in {"vault", "hashicorp", "azure", "gcp"} |->
     CASE s \in {"vault", "hashicorp"} -> "vault" [] OTHER -> s]
WellFormed(v) == KindOf(v) = "ref" /\ v[2].spelling \in DOMAIN KindOfSpelling

\* SecretRef's Display, by which a reference and its value find each other.
KeyByPath(r) == [kind |-> KindOfSpelling[r.spelling], path |-> r.path, field |-> <<>>]
Key(r) == [kind |-> KindOfSpelling[r.spelling], path |-> r.path, field |-> r.field]

RECURSIVE CollectSecretRefs(_)
CollectSecretRefs(v) ==
  CASE KindOf(v) = "object" -> UNION {CollectSecretRefs(v[2][k]) : k \in DOMAIN v[2]}
    [] KindOf(v) = "array"  -> UNION {CollectSecretRefs(v[2][i]) : i \in DOMAIN v[2]}
    [] OTHER                -> IF WellFormed(v) THEN {v[2]} ELSE {}

\* coerce_yaml_scalar: what looks like a boolean or a number becomes one.
CoerceYamlScalar(v) ==
  CASE v = JText("true") -> JBool("true")
    [] v = JText("5432") -> JNumber("5432")
    [] OTHER             -> v

\* Every value becomes a text, an object the text of its JSON.
JTextOf(v) == <<"text of", v>>
AsText(v) ==
  CASE KindOf(v) \in {"number", "bool"} -> JText(v[2])
    [] KindOf(v) = "object"            -> JTextOf(v)
    [] OTHER                           -> v

RECURSIVE KeysBelow(_)
KeysBelow(v) ==
  IF KindOf(v) # "object" THEN {}
  ELSE DOMAIN v[2] \cup UNION {{k \o below : below \in KeysBelow(v[2][k])} : k \in DOMAIN v[2]}

RECURSIVE AtKey(_, _)
AtKey(v, key) ==
  IF key = <<>> THEN v ELSE AtKey(v[2][<<key[1]>>], Tail(key))

\* parse_structured_value: an object by all its keys, dotted ones too; a plain value by
\* the empty key. Vault's own objects are taken apart at the top only.
FieldsOf(kind, secret) ==
  IF KindOf(secret) # "object" THEN [k \in {<<>>} |-> AsText(secret)]
  ELSE [k \in IF kind = "vault" THEN DOMAIN secret[2] ELSE KeysBelow(secret) |->
          AsText(AtKey(secret, k))]

\* What a reference stands for; Nothing is an error, of which there is one for a missing
\* configuration of its provider, a path that cannot be read and a missing field.
ResolveRef(r, configured, store) ==
  LET kind == KindOfSpelling[r.spelling]
      data == FieldsOf(kind, store[r.path])
  IN  CASE kind \notin configured \/ r.path \notin DOMAIN store -> Nothing
        [] r.field # <<>> -> IF r.field \in DOMAIN data THEN CoerceYamlScalar(data[r.field]) ELSE Nothing
        [] DOMAIN data = {<<>>} -> CoerceYamlScalar(data[<<>>])
        [] OTHER -> JObject(data)

\* substitute_secrets. What replaces an entry of an object is looked through again when
\* it is an object itself.
RECURSIVE SubstituteSecrets(_, _)
SubstituteSecrets(v, resolution) ==
  LET replaced(w) == IF WellFormed(w) /\ Key(w[2]) \in DOMAIN resolution
                     THEN resolution[Key(w[2])] ELSE w
      entry(w) == IF KindOf(replaced(w)) = "object" \/ replaced(w) = w
                  THEN SubstituteSecrets(replaced(w), resolution) ELSE replaced(w)
  IN  CASE KindOf(v) = "object" -> JObject([k \in DOMAIN v[2] |-> entry(v[2][k])])
        [] KindOf(v) = "array"  -> JArray([i \in DOMAIN v[2] |-> SubstituteSecrets(v[2][i], resolution)])
        [] OTHER                -> replaced(v)

\* resolve_secrets_in_value: all of them or none.
ResolveSecrets(doc, configured, store) ==
  LET refs == CollectSecretRefs(doc)
      resolution == [key \in {Key(r) : r \in refs} |->
                       ResolveRef(CHOOSE r \in refs : Key(r) = key, configured, store)]
  IN  IF \E key \in DOMAIN resolution : resolution[key] = Nothing THEN Nothing
      ELSE SubstituteSecrets(doc, resolution)

-----------------------------------------------------------------------------
\* A connection's secret with a nested part, a plain one, one that is a number, one whose
\* text happens to be a reference, and a connection's secret with such a text in it.
Store ==
  [p \in {"db", "plain", "port", "chained", "login"} |->
     CASE p = "db" -> JObject([k \in {<<"user">>, <<"port">>, <<"ssl">>} |->
                        CASE k = <<"user">> -> JText("etl") [] k = <<"port">> -> JNumber("5432")
                          [] OTHER -> JObject([m \in {<<"mode">>} |-> JText("true")])])
       [] p = "plain"   -> JText("pw")
       [] p = "port"    -> JText("5432")
       [] p = "chained" -> JRef("vault", "plain", <<>>)
       [] p = "login"   -> JObject([k \in {<<"user">>, <<"pass">>} |->
                        IF k = <<"user">> THEN JText("etl") ELSE JRef("vault", "plain", <<>>)])]

RefInputs ==
  {JRef(s, p, <<>>) : s \in {"vault", "hashicorp", "azure", "nobody"}, p \in {"db", "plain", "port", "chained", "login", "gone"}}
    \cup {JRef(s, "db", f) : s \in {"hashicorp", "vault", "azure", "gcp"}, f \in {<<"user">>, <<"port">>, <<"ssl">>, <<"ssl", "mode">>}}
    \cup {JText("plain host")}

SecretCases ==
  [algo : {"secrets"}, host : RefInputs, pass : RefInputs, 
   option : {JText("x"), JRef("azure", "db", <<"port">>), JRef("vault", "login", <<>>)},
   configured : {{"vault"}, {"vault", "azure", "gcp"}}]

Document(c) ==
  JObject([k \in {<<"host">>, <<"auth">>, <<"list">>} |->
             CASE k = <<"host">> -> c.host
               [] k = <<"auth">> -> JObject([m \in {<<"pass">>} |-> c.pass])
               [] OTHER          -> JArray(<<c.option>>)])

\* A reference can be resolved when its provider is configured, its path exists, and its
\* field is in the secret: below the top only for the providers that are not Vault.
Resolvable(r, configured) ==
  LET kind == KindOfSpelling[r.spelling]
  IN  /\ kind \in configured
      /\ r.path \in DOMAIN Store
      /\ r.field \in KeysBelow(Store[r.path]) \cup {<<>>}
      /\ kind = "vault" => Len(r.field) <= 1

\* What a reference to a single text brings
Brings(r) == CoerceYamlScalar(AsText(AtKey(Store[r.path], r.field)))

\* What has to stand where v stood.  A secret that is an object keeps the texts of its
\* scalars only, and dotted keys beside the nested ones; such a text that is a reference is
\* replaced if it is one of those to be resolved.
Stands(v, w, resolved) ==
  IF ~WellFormed(v) THEN w = v
  ELSE LET there == AtKey(Store[v[2].path], v[2].field)
       IN  IF KindOf(there) # "object" \/ v[2].field # <<>> THEN w = Brings(v[2])
           ELSE \A k \in {k \in DOMAIN there[2] : KindOf(there[2][k]) # "object"} :
                  LET text == there[2][k]
                  IN  w[2][k] = IF WellFormed(text) /\ Key(text[2]) \in resolved
                                THEN Brings(text[2]) ELSE AsText(text)

\* Resolution replaces every reference by the value of its own field, however its
\* provider is spelled, and nothing else.  A text that came out of a secret is looked at
\* again only as an entry of a secret that became an entry of the document, not of a list:
\* it is replaced if the document has the same reference elsewhere, and else stays.  If a
\* reference of the document cannot be resolved the document is refused.
ReferencesResolved(c) ==
  LET given == {v \in {c.host, c.pass, c.option} : WellFormed(v)}
      keys  == {Key(v[2]) : v \in given}
      out   == ResolveSecrets(Document(c), c.configured, Store)
  IN  /\ (out # Nothing) <=> \A v \in given : Resolvable(v[2], c.configured)
      /\ out # Nothing =>
           /\ Stands(c.host, AtKey(out, <<"host">>), keys)
           /\ Stands(c.pass, AtKey(out, <<"auth", "pass">>), keys)
           /\ Stands(c.option, AtKey(out, <<"list">>)[2][1], {})
=============================================================================
