--------------------------- MODULE StartupProofs ---------------------------
(***************************************************************************)
(* Configuration loading for any set of Hadoop options and any sequence of *)
(* settings: what Config::load and the Python constructor make of the      *)
(* file, the environment and the arguments; and the path mapper for keys   *)
(* of any length under any root.                                           *)
(*                                                                         *)
(* Both launchers end up with the same choice of source per field          *)
(* (ChoiceOf); they differ in what is validated, and the cache switch is   *)
(* the only field that validation of another one looks at.                 *)
(*                                                                         *)
(* A path is determined by its list of segments: split turns a slash into  *)
(* a concatenation of lists (SplitAtSlash), normalize_abs returns a path   *)
(* made of plain segments only (NormalizeType) and leaves such a path      *)
(* alone (NormalizeAbsolute), and being under a directory is having its    *)
(* segments in front (AbsoluteUnder).                                      *)
(***************************************************************************)
EXTENDS Startup, KeyOrderProofs

Sources == {"args", "env", "file"}

\* The settings g can be made: by sources that know the field, with values it can have.
Legal(fi, g) ==
  /\ \A source, f : Has(g, source, f) =>
       /\ source \in Sources /\ f \in Settable(source)
       /\ g[<<source, f>>] \in Values(source, f)
       /\ source = "file" => fi = "ok"

\* The inductive invariant.
ConfigInv ==
  /\ launcher \in {"main", "python"} /\ file \in {"none", "unreadable", "malformed", "ok"}
  /\ Legal(file, given)
  /\ loaded # None => loaded = loads(launcher, file, given)

-----------------------------------------------------------------------------
(* Config::load.                                                           *)

BaseOf(fi, g) == IF fi = "none" THEN from_env(g) ELSE from_toml(g)

ConfigOf(fi, g, flags) == switched(overridden(BaseOf(fi, g), g), g, flags)

Typo(g) == Has(g, "env", "enabled") /\ g[<<"env", "enabled">>] = "junk"

Readable(fi, g) == fi = "none" \/ (fi = "ok" /\ \A f \in Required : Has(g, "file", f))

\* When load succeeds, and with what.
LEMMA LoadResult ==
  ASSUME NEW fi \in {"none", "unreadable", "malformed", "ok"}, NEW g, NEW flags \in BOOLEAN
  PROVE  /\ load(fi, g, flags).ok \in BOOLEAN
         /\ load(fi, g, flags).ok <=> /\ Readable(fi, g) /\ ~Typo(g)
                                      /\ validate(ConfigOf(fi, g, flags))
         /\ load(fi, g, flags).ok =>
              load(fi, g, flags) = [ok |-> TRUE, config |-> ConfigOf(fi, g, flags)]
<1> DEFINE c == ConfigOf(fi, g, flags)
<1>1. load(fi, g, flags) =
        CASE fi = "unreadable" -> [ok |-> FALSE, error |-> "ReadFile"]
          [] fi = "malformed" \/ (fi = "ok" /\ \E f \in Required : ~Has(g, "file", f)) ->
               [ok |-> FALSE, error |-> "ParseToml"]
          [] Has(g, "env", "enabled") /\ g[<<"env", "enabled">>] = "junk" ->
               [ok |-> FALSE, error |-> "Invalid"]
          [] ~validate(c) -> [ok |-> FALSE, error |-> "Missing or Invalid"]
          [] OTHER -> [ok |-> TRUE, config |-> c]
  BY DEF load, ConfigOf, BaseOf
<1> HIDE DEF c
<1>2. CASE Readable(fi, g) /\ ~Typo(g) /\ validate(c)
  <2>1. load(fi, g, flags) = [ok |-> TRUE, config |-> c]
    BY <1>1, <1>2 DEF Readable, Typo
  <2> QED BY <1>2, <2>1 DEF c
<1>3. CASE ~(Readable(fi, g) /\ ~Typo(g) /\ validate(c))
  <2>1. \E e : load(fi, g, flags) = [ok |-> FALSE, error |-> e]
    BY <1>1, <1>3 DEF Readable, Typo
  <2> QED BY <1>3, <2>1 DEF c
<1> QED BY <1>2, <1>3

\* The source a field is taken from: arguments over file or environment; for the switch
\* the environment over the file, and the arguments if they are looked at.
ChoiceOf(fi, g, args, f) ==
  IF args /\ Has(g, "args", f) THEN From(g, "args", f)
  ELSE IF f = "enabled" /\ Has(g, "env", f) THEN From(g, "env", f)
  ELSE BaseOf(fi, g)[f]

Chosen(fi, g, f) == ChoiceOf(fi, g, TRUE, f)

LEMMA ConfigFields ==
  ASSUME NEW fi, NEW g, NEW flags \in BOOLEAN, NEW f \in Field
  PROVE  /\ ConfigOf(fi, g, flags)[f] = ChoiceOf(fi, g, f # "enabled" \/ flags, f)
         /\ DOMAIN ConfigOf(fi, g, flags) = Field
<1> DEFINE over == overridden(BaseOf(fi, g), g)
<1>1. over = [x \in Field |-> IF x # "enabled" /\ Has(g, "args", x)
                                THEN From(g, "args", x) ELSE BaseOf(fi, g)[x]]
  BY DEF overridden
<1>2. "enabled" \in Field
  BY DEF Field
<1> HIDE DEF over
<1>3. CASE Has(g, IF flags /\ Has(g, "args", "enabled") THEN "args" ELSE "env", "enabled")
  <2>1. ConfigOf(fi, g, flags) =
          [over EXCEPT !["enabled"] =
             From(g, IF flags /\ Has(g, "args", "enabled") THEN "args" ELSE "env", "enabled")]
    BY <1>3 DEF ConfigOf, switched, over
  <2> QED BY <1>1, <1>2, <1>3, <2>1 DEF ChoiceOf
<1>4. CASE ~Has(g, IF flags /\ Has(g, "args", "enabled") THEN "args" ELSE "env", "enabled")
  <2>1. ConfigOf(fi, g, flags) = over
    BY <1>4 DEF ConfigOf, switched, over
  <2> QED BY <1>1, <1>2, <1>4, <2>1 DEF ChoiceOf
<1> QED BY <1>3, <1>4

\* A launcher that looks at the switch among the arguments takes every field by choice.
LEMMA MainFields ==
  ASSUME NEW fi, NEW g, NEW f \in Field
  PROVE  ConfigOf(fi, g, TRUE)[f] = Chosen(fi, g, f)
<1>1. ConfigOf(fi, g, TRUE)[f] = ChoiceOf(fi, g, f # "enabled" \/ TRUE, f)
  BY ConfigFields
<1> QED BY <1>1 DEF Chosen, ChoiceOf

LEMMA SwitchField ==
  ASSUME NEW fi, NEW g
  PROVE  ConfigOf(fi, g, TRUE)["enabled"] = Chosen(fi, g, "enabled")
<1>1. "enabled" \in Field
  BY DEF Field
<1> QED BY <1>1, MainFields

\* What a launcher gets: the same choice for every field, whichever it is.
LEMMA LoadsResult ==
  ASSUME NEW la \in {"main", "python"}, NEW fi \in {"none", "unreadable", "malformed", "ok"},
         NEW g, loads(la, fi, g).ok
  PROVE  /\ Readable(fi, g) /\ ~Typo(g) /\ validate(ConfigOf(fi, g, la = "main"))
         /\ \A f \in Field : loads(la, fi, g).config[f] = Chosen(fi, g, f)
<1>1. CASE la = "main"
  <2>1. loads(la, fi, g) = load(fi, g, TRUE)
    BY <1>1 DEF loads
  <2> DEFINE l == load(fi, g, TRUE)
             c == ConfigOf(fi, g, TRUE)
  <2>2. /\ l.ok <=> Readable(fi, g) /\ ~Typo(g) /\ validate(c)
        /\ l.ok => l = [ok |-> TRUE, config |-> c]
    BY LoadResult
  <2>3. \A f \in Field : c[f] = Chosen(fi, g, f)
    BY MainFields
  <2>4. validate(c) => validate(ConfigOf(fi, g, la = "main"))
    BY <1>1
  <2> HIDE DEF l, c
  <2>5. loads(la, fi, g) = l /\ l.ok
    BY <2>1 DEF l
  <2>6. loads(la, fi, g).config = c
    BY <2>2, <2>5
  <2> QED BY <2>2, <2>3, <2>4, <2>5, <2>6
<1>2. CASE la = "python"
  <2> DEFINE l == load(fi, g, FALSE)
  <2>1. loads(la, fi, g) = IF l.ok /\ Has(g, "args", "enabled")
                            THEN [l EXCEPT !.config["enabled"] = From(g, "args", "enabled")]
                            ELSE l
    BY <1>2 DEF loads, python_new
  <2>2. l.ok \in BOOLEAN
    BY LoadResult
  <2> HIDE DEF l
  <2>3. l.ok
    BY <2>1, <2>2
  <2>4. /\ l = [ok |-> TRUE, config |-> ConfigOf(fi, g, FALSE)]
        /\ Readable(fi, g) /\ ~Typo(g) /\ validate(ConfigOf(fi, g, FALSE))
    BY <2>3, LoadResult DEF l
  <2>5. \A f \in Field : loads(la, fi, g).config[f] = Chosen(fi, g, f)
    <3> TAKE f \in Field
    <3> DEFINE c == ConfigOf(fi, g, FALSE)
    <3>1. c[f] = ChoiceOf(fi, g, f # "enabled", f) /\ DOMAIN c = Field
      BY ConfigFields
    <3> HIDE DEF c
    <3>2. CASE Has(g, "args", "enabled")
      <4>1. loads(la, fi, g) = [l EXCEPT !.config = [l.config EXCEPT !["enabled"] =
                                                       From(g, "args", "enabled")]]
        BY <2>1, <2>3, <3>2
      <4>2. loads(la, fi, g).config = [c EXCEPT !["enabled"] = From(g, "args", "enabled")]
        BY <2>4, <4>1 DEF c
      <4> QED BY <3>1, <3>2, <4>2 DEF Chosen, ChoiceOf
    <3>3. CASE ~Has(g, "args", "enabled")
      <4>1. loads(la, fi, g).config = c
        BY <2>1, <2>4, <3>3 DEF c
      <4> QED BY <3>1, <3>3, <4>1 DEF Chosen, ChoiceOf
    <3> QED BY <3>2, <3>3
  <2> QED BY <1>2, <2>4, <2>5
<1> QED BY <1>1, <1>2

-----------------------------------------------------------------------------
(* What a successful load has chosen.                                      *)

\* What the file, or without one the environment, says of a field.
LEMMA BaseFields ==
  ASSUME NEW fi \in {"none", "ok"}, NEW g, NEW f \in Field
  PROVE  LET b == BaseOf(fi, g)[f] IN
         \/ b.from = "default"
              /\ (fi = "ok" => ~Has(g, "file", f))
              /\ (fi = "none" => f \notin Required \/ \E r \in Required : ~Has(g, "env", r))
              /\ (f \in Required \cup Ttls \cup Capacities \cup {"max_concurrent_requests"} =>
                    b.val = "some")
              /\ (f = "enabled" => b.val = "off")
         \/ b.from = "file" /\ fi = "ok" /\ Has(g, "file", f) /\ b.val = g[<<"file", f>>]
         \/ b.from = "env" /\ fi = "none" /\ Has(g, "env", f) /\ b.val = g[<<"env", f>>]
              /\ f \in Required
<1>0. /\ Default(f).from = "default"
      /\ f \in Required \cup Ttls \cup Capacities \cup {"max_concurrent_requests"} =>
           Default(f).val = "some"
      /\ f = "enabled" => Default(f).val = "off"
  BY StartupAssumption DEF Default, Required, Optional, Ttls, Capacities
<1>1. CASE fi = "ok"
  <2>1. BaseOf(fi, g)[f] = IF Has(g, "file", f) THEN From(g, "file", f)
                           ELSE IF f = "expose_upstream_errors"
                                  THEN [from |-> "default", val |-> "off"]
                           ELSE Default(f)
    BY <1>1 DEF BaseOf, from_toml
  <2>2. CASE Has(g, "file", f)
    BY <1>1, <2>1, <2>2 DEF From
  <2>3. CASE ~Has(g, "file", f) /\ f = "expose_upstream_errors"
    BY <1>1, <2>1, <2>3 DEF Required, Ttls, Capacities
  <2>4. CASE ~Has(g, "file", f) /\ f # "expose_upstream_errors"
    BY <1>0, <1>1, <2>1, <2>4
  <2> QED BY <2>2, <2>3, <2>4
<1>2. CASE fi = "none"
  <2>1. BaseOf(fi, g)[f] = IF (\A r \in Required : Has(g, "env", r)) /\ f \in Required
                             THEN From(g, "env", f) ELSE Default(f)
    BY <1>2 DEF BaseOf, from_env
  <2>2. CASE (\A r \in Required : Has(g, "env", r)) /\ f \in Required
    BY <1>2, <2>1, <2>2 DEF From
  <2>3. CASE ~((\A r \in Required : Has(g, "env", r)) /\ f \in Required)
    BY <1>0, <1>2, <2>1, <2>3
  <2> QED BY <2>2, <2>3
<1> QED BY <1>1, <1>2

LEMMA FromFields ==
  ASSUME NEW g, NEW source, NEW f
  PROVE  From(g, source, f).from = source /\ From(g, source, f).val = g[<<source, f>>]
BY DEF From

\* A value comes from the highest source that offers one.
LEMMA ChoiceIsHighest ==
  ASSUME NEW fi \in {"none", "ok"}, NEW g, Legal(fi, g), NEW f \in Field,
         NEW c, c = Chosen(fi, g, f)
  PROVE  /\ c.from \in Sources \cup {"default"}
         /\ c.from # "default" => Has(g, c.from, f) /\ c.val = g[<<c.from, f>>]
         /\ c.from # "args" => ~Has(g, "args", f)
         /\ c.from \in {"file", "default"} /\ Has(g, "env", f) =>
              f # "enabled" /\ (fi = "ok" \/ \E r \in Required : ~Has(g, "env", r))
         /\ c.from = "default" => ~Has(g, "file", f)
         /\ c.from = "default" =>
              (f \in Required \cup Ttls \cup Capacities \cup {"max_concurrent_requests"} =>
                 c.val = "some")
<1> DEFINE b == BaseOf(fi, g)[f]
<1>1. CASE Has(g, "args", f)
  <2>1. c = From(g, "args", f)
    BY <1>1 DEF Chosen, ChoiceOf
  <2>2. c.from = "args" /\ c.val = g[<<"args", f>>]
    BY <2>1, FromFields
  <2> QED BY <1>1, <2>2 DEF Sources
<1>2. CASE ~Has(g, "args", f) /\ f = "enabled" /\ Has(g, "env", f)
  <2>1. c = From(g, "env", f)
    BY <1>2 DEF Chosen, ChoiceOf
  <2>2. c.from = "env" /\ c.val = g[<<"env", f>>]
    BY <2>1, FromFields
  <2> QED BY <1>2, <2>2 DEF Sources
<1>3. CASE ~Has(g, "args", f) /\ ~(f = "enabled" /\ Has(g, "env", f))
  <2>1. c = b
    BY <1>3 DEF Chosen, ChoiceOf
  <2>2. Has(g, "env", f) => f \in Required \cup {"enabled"}
    BY DEF Legal, Settable
  <2>3. fi = "none" => ~Has(g, "file", f)
    BY DEF Legal
  <2> HIDE DEF b
  <2>4. \/ b.from = "default"
             /\ (fi = "ok" => ~Has(g, "file", f))
             /\ (fi = "none" => f \notin Required \/ \E r \in Required : ~Has(g, "env", r))
             /\ (f \in Required \cup Ttls \cup Capacities \cup {"max_concurrent_requests"} =>
                   b.val = "some")
        \/ b.from = "file" /\ fi = "ok" /\ Has(g, "file", f) /\ b.val = g[<<"file", f>>]
        \/ b.from = "env" /\ fi = "none" /\ Has(g, "env", f) /\ b.val = g[<<"env", f>>]
    BY BaseFields DEF b
  <2> QED BY <1>3, <2>1, <2>2, <2>3, <2>4 DEF Sources
<1> QED BY <1>1, <1>2, <1>3

\* A chosen value is one its field can have, or the default.
LEMMA ChoiceIsLegal ==
  ASSUME NEW fi \in {"none", "ok"}, NEW g, Legal(fi, g), NEW f \in Field,
         NEW c, c = Chosen(fi, g, f)
  PROVE  /\ f \in Required => c.val \in {"some", "empty", "illegal"}
                              /\ (f # "bucket_name" => c.val # "illegal")
         /\ f \in Ttls \cup Capacities \cup {"max_concurrent_requests"} =>
              c.val \in {"some", "zero"}
<1>1. /\ c.from # "default" => Has(g, c.from, f) /\ c.val = g[<<c.from, f>>]
      /\ c.from = "default" =>
           (f \in Required \cup Ttls \cup Capacities \cup {"max_concurrent_requests"} =>
              c.val = "some")
  BY ChoiceIsHighest
<1>2. c.from # "default" => c.val \in Values(c.from, f)
  BY <1>1 DEF Legal
<1>3. f \in Required => \A x : Values(x, f) \subseteq {"some", "empty", "illegal"}
                             /\ (f # "bucket_name" => "illegal" \notin Values(x, f))
  BY DEF Values, Required, Ttls, Capacities
<1>4. f \in Ttls \cup Capacities \cup {"max_concurrent_requests"} =>
        \A x : Values(x, f) \subseteq {"some", "zero"}
  BY DEF Values, Required, Ttls, Capacities
<1> QED BY <1>1, <1>2, <1>3, <1>4

\* The settings without the cache switch: the same fields, and the switch at its default.
Unswitched(g) == [s \in {t \in DOMAIN g : t[2] # "enabled"} |-> g[s]]

LEMMA UnswitchedFields ==
  ASSUME NEW fi \in {"none", "ok"}, NEW g, Legal(fi, g), NEW f \in Field
  PROVE  /\ f # "enabled" =>
              Chosen(fi, Unswitched(g), f) = Chosen(fi, g, f)
         /\ f = "enabled" => Chosen(fi, Unswitched(g), f) = Default(f)
<1> DEFINE h == Unswitched(g)
<1>1. \A source, x : Has(h, source, x) <=> Has(g, source, x) /\ x # "enabled"
  BY DEF Unswitched, Has
<1>2. \A source, x : Has(h, source, x) => h[<<source, x>>] = g[<<source, x>>]
  BY DEF Unswitched, Has
<1> HIDE DEF h
<1>3. \A source, x : Has(h, source, x) => From(h, source, x) = From(g, source, x)
  BY <1>2 DEF From
<1>4. \A r \in Required : r # "enabled"
  BY DEF Required
<1>5. (\A r \in Required : Has(h, "env", r)) <=> (\A r \in Required : Has(g, "env", r))
  BY <1>1, <1>4
<1>6. CASE fi = "ok"
  <2>1. \A k : BaseOf(fi, k)[f] = IF Has(k, "file", f) THEN From(k, "file", f)
                                  ELSE IF f = "expose_upstream_errors"
                                         THEN [from |-> "default", val |-> "off"]
                                  ELSE Default(f)
    BY <1>6 DEF BaseOf, from_toml
  <2>2. f # "enabled" => BaseOf(fi, h)[f] = BaseOf(fi, g)[f]
    BY <1>1, <1>3, <2>1
  <2>3. f = "enabled" => BaseOf(fi, h)[f] = Default(f)
    BY <1>1, <2>1
  <2>4. f # "enabled" => Chosen(fi, h, f) = Chosen(fi, g, f)
    BY <1>1, <1>3, <2>2 DEF Chosen, ChoiceOf
  <2>5. f = "enabled" => Chosen(fi, h, f) = Default(f)
    BY <1>1, <2>3 DEF Chosen, ChoiceOf
  <2> QED BY <2>4, <2>5 DEF h
<1>7. CASE fi = "none"
  <2>1. \A k : BaseOf(fi, k)[f] = IF (\A r \in Required : Has(k, "env", r)) /\ f \in Required
                                    THEN From(k, "env", f) ELSE Default(f)
    BY <1>7 DEF BaseOf, from_env
  <2>2. f # "enabled" => BaseOf(fi, h)[f] = BaseOf(fi, g)[f]
    BY <1>1, <1>3, <1>5, <2>1
  <2>3. f = "enabled" => BaseOf(fi, h)[f] = Default(f)
    BY <1>4, <2>1
  <2>4. f # "enabled" => Chosen(fi, h, f) = Chosen(fi, g, f)
    BY <1>1, <1>3, <2>2 DEF Chosen, ChoiceOf
  <2>5. f = "enabled" => Chosen(fi, h, f) = Default(f)
    BY <1>1, <2>3 DEF Chosen, ChoiceOf
  <2> QED BY <2>4, <2>5 DEF h
<1> QED BY <1>6, <1>7

\* What is validated, field by field: the chosen values, and the switch as load saw it.
LEMMA ValidateFields ==
  ASSUME NEW fi, NEW g, NEW flags \in BOOLEAN
  PROVE  validate(ConfigOf(fi, g, flags)) <=>
           /\ \A f \in Required : Chosen(fi, g, f).val # "empty"
           /\ Chosen(fi, g, "max_concurrent_requests").val # "zero"
           /\ ConfigOf(fi, g, flags)["enabled"].val = "on"
                /\ Chosen(fi, g, "listing_ttl_ms").val # "zero" =>
                Chosen(fi, g, "listing_capacity_entries").val # "zero"
           /\ Chosen(fi, g, "bucket_name").val # "illegal"
<1> DEFINE c == ConfigOf(fi, g, flags)
<1>1. \A f \in Field : f # "enabled" => c[f] = Chosen(fi, g, f)
  <2> SUFFICES ASSUME NEW f \in Field, f # "enabled" PROVE c[f] = Chosen(fi, g, f)
    OBVIOUS
  <2>1. c[f] = ChoiceOf(fi, g, f # "enabled" \/ flags, f)
    BY ConfigFields
  <2> QED BY <2>1 DEF Chosen, ChoiceOf
<1>2. /\ Required \subseteq Field /\ "enabled" \notin Required /\ "bucket_name" \in Required
      /\ {"max_concurrent_requests", "listing_ttl_ms", "listing_capacity_entries"}
           \subseteq Field
  BY DEF Field, Required, Ttls, Capacities
<1> HIDE DEF c
<1>3. /\ \A f \in Required : c[f] = Chosen(fi, g, f)
      /\ c["max_concurrent_requests"] = Chosen(fi, g, "max_concurrent_requests")
      /\ c["listing_ttl_ms"] = Chosen(fi, g, "listing_ttl_ms")
      /\ c["listing_capacity_entries"] = Chosen(fi, g, "listing_capacity_entries")
      /\ c["bucket_name"] = Chosen(fi, g, "bucket_name")
  BY <1>1, <1>2
<1>4. validate(c) <=>
           /\ \A f \in Required : Chosen(fi, g, f).val # "empty"
           /\ Chosen(fi, g, "max_concurrent_requests").val # "zero"
           /\ c["enabled"].val = "on"
                /\ Chosen(fi, g, "listing_ttl_ms").val # "zero" =>
                Chosen(fi, g, "listing_capacity_entries").val # "zero"
           /\ Chosen(fi, g, "bucket_name").val # "illegal"
  BY <1>3 DEF validate
<1> QED BY <1>4 DEF c

-----------------------------------------------------------------------------
(* The invariant holds: settings stay legal, and what is loaded is what    *)
(* the settings say until the gateway takes it over.                       *)

LEMMA InitEstablishes == Init => ConfigInv
<1> SUFFICES ASSUME Init PROVE ConfigInv
  OBVIOUS
<1>1. Legal(file, given)
  <2>1. SUFFICES ASSUME NEW source, NEW f, Has(given, source, f)
                 PROVE  /\ source \in Sources /\ f \in Settable(source)
                        /\ given[<<source, f>>] \in Values(source, f)
                        /\ source = "file" => file = "ok"
    BY DEF Legal
  <2>2. given # <<>>
    BY <2>1 DEF Has
  <2>3. PICK src \in {"file", "env"} : given = [s \in {src} \X Required |-> "some"]
    BY <2>2 DEF Init
  <2>4. source = src /\ f \in Required /\ given[<<source, f>>] = "some"
    BY <2>1, <2>3 DEF Has
  <2>5. "some" \in Values(source, f)
    BY <2>4 DEF Values, Required
  <2>6. f \in Settable(source)
    BY <2>4 DEF Settable, Field
  <2>7. source = "file" => file = "ok"
    <3>1. <<source, f>> \in DOMAIN given /\ <<source, f>>[1] = source
      BY <2>1 DEF Has
    <3> QED BY <3>1 DEF Init
  <2> QED BY <2>4, <2>5, <2>6, <2>7 DEF Sources
<1> QED BY <1>1 DEF Init, ConfigInv

LEMMA SetLegal ==
  ASSUME NEW source \in Sources, NEW f \in Settable(source), NEW v \in Values(source, f),
         ConfigInv, Set(source, f, v)
  PROVE  ConfigInv'
<1> DEFINE p == <<source, f>>
<1>1. given' = [x \in DOMAIN given \cup {p} |-> IF x = p THEN v ELSE given[x]]
  BY DEF Set
<1>2. Legal(file, given')
  <2>1. SUFFICES ASSUME NEW src, NEW y, Has(given', src, y)
                 PROVE  /\ src \in Sources /\ y \in Settable(src)
                        /\ given'[<<src, y>>] \in Values(src, y)
                        /\ src = "file" => file = "ok"
    BY DEF Legal
  <2>2. CASE <<src, y>> = p
    <3>1. src = source /\ y = f /\ given'[<<src, y>>] = v
      BY <1>1, <2>2
    <3> QED BY <3>1 DEF Set
  <2>3. CASE <<src, y>> # p
    <3>1. Has(given, src, y) /\ given'[<<src, y>>] = given[<<src, y>>]
      BY <1>1, <2>1, <2>3 DEF Has
    <3> QED BY <3>1 DEF ConfigInv, Legal
  <2> QED BY <2>2, <2>3
<1> QED BY <1>2 DEF ConfigInv, Set, mapperVars

LEMMA UnsetLegal ==
  ASSUME NEW s, ConfigInv, Unset(s)
  PROVE  ConfigInv'
<1>1. \A src, y : Has(given', src, y) =>
        Has(given, src, y) /\ given'[<<src, y>>] = given[<<src, y>>]
  BY DEF Unset, Has
<1>2. Legal(file, given')
  BY <1>1 DEF ConfigInv, Legal
<1> QED BY <1>2 DEF ConfigInv, Unset

\* Every step keeps ConfigInv.
LEMMA StepPreserves == ConfigInv /\ [Next]_<<configVars, mapperVars>> => ConfigInv'
<1> SUFFICES ASSUME ConfigInv, [Next]_<<configVars, mapperVars>> PROVE ConfigInv'
  OBVIOUS
<1>1. ASSUME NEW source \in {"args", "env", "file"}, NEW f \in Settable(source),
             NEW v \in Values(source, f), Set(source, f, v)
      PROVE  ConfigInv'
  BY <1>1, SetLegal DEF Sources
<1>2. ASSUME NEW s \in DOMAIN given, Unset(s) PROVE ConfigInv'
  BY <1>2, UnsetLegal
<1>3. CASE Load
  BY <1>3 DEF Load, ConfigInv
<1>4. CASE New
  <2>1. given' = <<>> /\ loaded' = None /\ launcher' = "main" /\ file' = "none"
    BY <1>4 DEF New
  <2>2. Legal("none", <<>>)
    BY DEF Legal, Has
  <2> QED BY <2>1, <2>2 DEF ConfigInv
<1>5. CASE UNCHANGED configVars
  BY <1>5 DEF ConfigInv, configVars
<1> QED BY <1>1, <1>2, <1>3, <1>4, <1>5 DEF Next

\* At every moment the settings are ones the sources can make, and what has been loaded
\* is Config::load (or the Python constructor) of the settings as they are.
THEOREM Invariance == Spec => []ConfigInv
<1>1. Init => ConfigInv
  BY InitEstablishes
<1>2. ConfigInv /\ [Next]_<<configVars, mapperVars>> => ConfigInv'
  BY StepPreserves
<1> QED BY <1>1, <1>2, PTL DEF Spec

-----------------------------------------------------------------------------
(* The properties.                                                         *)

LEMMA Sound == ConfigInv => LoadedIsSound
<1> SUFFICES ASSUME ConfigInv, loaded # None, loaded.ok PROVE LoadedIsSound
  BY DEF LoadedIsSound
<1>1. loaded = loads(launcher, file, given) /\ Legal(file, given)
  BY DEF ConfigInv
<1>2. /\ Readable(file, given)
      /\ validate(ConfigOf(file, given, launcher = "main"))
      /\ \A f \in Field : loaded.config[f] = Chosen(file, given, f)
  BY <1>1, LoadsResult DEF ConfigInv
<1>3. file \in {"none", "ok"}
  BY <1>2 DEF Readable
<1>4. ASSUME NEW f \in Field
      PROVE  LET c == loaded.config[f]
                 above == CASE c.from = "args" -> {}
                            [] c.from = "env"  -> {"args"}
                            [] c.from = "file" -> {"args", "env"}
                            [] OTHER -> {"args", "env", "file"}
             IN  /\ \A source \in above : ~Offers(source, f)
                 /\ c.from # "default" => given[<<c.from, f>>] = c.val
  <2> DEFINE c == loaded.config[f]
             above == CASE c.from = "args" -> {}
                        [] c.from = "env"  -> {"args"}
                        [] c.from = "file" -> {"args", "env"}
                        [] OTHER -> {"args", "env", "file"}
  <2>1. c = Chosen(file, given, f)
    BY <1>2, <1>4
  <2> HIDE DEF c
  <2>2. /\ c.from \in Sources \cup {"default"}
        /\ c.from # "default" => Has(given, c.from, f) /\ c.val = given[<<c.from, f>>]
        /\ c.from # "args" => ~Has(given, "args", f)
        /\ c.from \in {"file", "default"} /\ Has(given, "env", f) =>
             f # "enabled" /\ (file = "ok" \/ \E r \in Required : ~Has(given, "env", r))
        /\ c.from = "default" => ~Has(given, "file", f)
    BY <1>1, <1>3, <1>4, <2>1, ChoiceIsHighest
  <2>3. /\ above \subseteq Sources
        /\ "args" \in above => c.from # "args"
        /\ "env" \in above => c.from \in {"file", "default"}
        /\ "file" \in above => c.from = "default"
    BY <2>2 DEF Sources
  <2> HIDE DEF above
  <2>4. \A source \in above : ~Offers(source, f)
    BY <1>3, <2>2, <2>3 DEF Sources, Offers
  <2>5. /\ \A source \in above : ~Offers(source, f)
        /\ c.from # "default" => given[<<c.from, f>>] = c.val
    BY <2>2, <2>4
  <2> QED BY <2>5 DEF c, above
<1>5. /\ Required \subseteq Field /\ "bucket_name" \in Required
      /\ {"max_concurrent_requests", "listing_ttl_ms", "listing_capacity_entries", "enabled"}
           \subseteq Field
      /\ {"listing_ttl_ms", "listing_capacity_entries", "max_concurrent_requests"}
           \subseteq Ttls \cup Capacities \cup {"max_concurrent_requests"}
  BY DEF Field, Required, Ttls, Capacities
<1>6. /\ \A f \in Required : Chosen(file, given, f).val # "empty"
      /\ Chosen(file, given, "max_concurrent_requests").val # "zero"
      /\ ConfigOf(file, given, launcher = "main")["enabled"].val = "on"
           /\ Chosen(file, given, "listing_ttl_ms").val # "zero" =>
           Chosen(file, given, "listing_capacity_entries").val # "zero"
      /\ Chosen(file, given, "bucket_name").val # "illegal"
  BY <1>2, ValidateFields
<1>7. \A f \in Field :
        /\ f \in Required => /\ loaded.config[f].val \in {"some", "empty", "illegal"}
                             /\ f # "bucket_name" => loaded.config[f].val # "illegal"
        /\ f \in Ttls \cup Capacities \cup {"max_concurrent_requests"} =>
             loaded.config[f].val \in {"some", "zero"}
  BY <1>1, <1>2, <1>3, ChoiceIsLegal
<1>8. \A f \in Required : loaded.config[f].val = "some"
  BY <1>2, <1>5, <1>6, <1>7
<1>9. loaded.config["max_concurrent_requests"].val = "some"
  BY <1>2, <1>5, <1>6, <1>7
<1>10. launcher = "main" /\ loaded.config["enabled"].val = "on" =>
         \/ loaded.config["listing_capacity_entries"].val = "some"
         \/ loaded.config["listing_ttl_ms"].val = "zero"
  <2> SUFFICES ASSUME launcher = "main", loaded.config["enabled"].val = "on",
                      loaded.config["listing_ttl_ms"].val # "zero"
               PROVE  loaded.config["listing_capacity_entries"].val = "some"
    OBVIOUS
  <2>1. ConfigOf(file, given, TRUE)["enabled"] = Chosen(file, given, "enabled")
    BY SwitchField
  <2>2. ConfigOf(file, given, launcher = "main") = ConfigOf(file, given, TRUE)
    OBVIOUS
  <2>3. ConfigOf(file, given, launcher = "main")["enabled"].val = "on"
    BY <1>2, <1>5, <2>1, <2>2
  <2> QED BY <1>2, <1>5, <1>6, <1>7, <2>3
<1> QED BY <1>4, <1>8, <1>9, <1>10 DEF LoadedIsSound

LEMMA KillSwitch == ConfigInv => KillSwitchHolds
<1> DEFINE h == Unswitched(given)
           never == load(file, h, TRUE)
<1> SUFFICES ASSUME ConfigInv, loaded # None, Has(given, "args", "enabled"),
                    given[<<"args", "enabled">>] = "off"
             PROVE  /\ loaded.ok => Off(loaded.config) /\ ~Typo(given)
                    /\ loaded.ok => never.ok /\ \A f \in Field \ {"enabled"} :
                                                  never.config[f] = loaded.config[f]
                    /\ launcher = "main" /\ never.ok => loaded.ok \/ Typo(given)
  BY DEF KillSwitchHolds, Typo, Unswitched
<1>1. /\ loaded = loads(launcher, file, given) /\ Legal(file, given)
      /\ launcher \in {"main", "python"} /\ file \in {"none", "unreadable", "malformed", "ok"}
  BY DEF ConfigInv
<1>2. /\ Required \subseteq Field /\ "enabled" \in Field /\ "enabled" \notin Required
      /\ "bucket_name" \in Required
      /\ {"max_concurrent_requests", "listing_ttl_ms", "listing_capacity_entries"}
           \subseteq Field \ {"enabled"}
  BY DEF Field, Required, Ttls, Capacities
\* The settings without the switch are as readable, and nothing in them is mistyped.
<1>3. (Readable(file, h) <=> Readable(file, given)) /\ ~Typo(h)
  <2>1. \A source, x : Has(h, source, x) <=> Has(given, source, x) /\ x # "enabled"
    BY DEF Unswitched, Has
  <2> HIDE DEF h
  <2> QED BY <1>2, <2>1 DEF Readable, Typo
<1>4. Readable(file, given) =>
        /\ \A f \in Field \ {"enabled"} : Chosen(file, h, f) = Chosen(file, given, f)
        /\ ConfigOf(file, h, TRUE)["enabled"].val = "off"
  <2> SUFFICES ASSUME Readable(file, given)
               PROVE  /\ \A f \in Field \ {"enabled"} :
                           Chosen(file, h, f) = Chosen(file, given, f)
                      /\ ConfigOf(file, h, TRUE)["enabled"].val = "off"
    OBVIOUS
  <2>1. file \in {"none", "ok"}
    BY DEF Readable
  <2>2. \A f \in Field : /\ f # "enabled" => Chosen(file, h, f) = Chosen(file, given, f)
                         /\ f = "enabled" => Chosen(file, h, f) = Default(f)
    BY <1>1, <2>1, UnswitchedFields
  <2>3. ConfigOf(file, h, TRUE)["enabled"] = Chosen(file, h, "enabled")
    BY SwitchField
  <2> HIDE DEF h
  <2>4. ConfigOf(file, h, TRUE)["enabled"] = Default("enabled")
    BY <1>2, <2>2, <2>3
  <2>5. Default("enabled").val = "off"
    BY StartupAssumption DEF Default, Optional
  <2> QED BY <2>2, <2>4, <2>5
\* The same values are validated, the switch aside.
<1>5. ASSUME Readable(file, given), NEW flags \in BOOLEAN
      PROVE  validate(ConfigOf(file, given, flags)) => validate(ConfigOf(file, h, TRUE))
  <2> HIDE DEF h
  <2>1. \A f \in Required : Chosen(file, h, f) = Chosen(file, given, f)
    BY <1>2, <1>4, <1>5
  <2>2. /\ Chosen(file, h, "max_concurrent_requests") =
             Chosen(file, given, "max_concurrent_requests")
        /\ Chosen(file, h, "bucket_name") = Chosen(file, given, "bucket_name")
        /\ ConfigOf(file, h, TRUE)["enabled"].val = "off"
    BY <1>2, <1>4, <1>5
  <2>3. SUFFICES ASSUME validate(ConfigOf(file, given, flags))
                 PROVE  validate(ConfigOf(file, h, TRUE))
    OBVIOUS
  <2>4. /\ \A f \in Required : Chosen(file, given, f).val # "empty"
        /\ Chosen(file, given, "max_concurrent_requests").val # "zero"
        /\ Chosen(file, given, "bucket_name").val # "illegal"
    BY <2>3, ValidateFields
  <2>5. /\ \A f \in Required : Chosen(file, h, f).val # "empty"
        /\ Chosen(file, h, "max_concurrent_requests").val # "zero"
        /\ ConfigOf(file, h, TRUE)["enabled"].val = "on"
             /\ Chosen(file, h, "listing_ttl_ms").val # "zero" =>
             Chosen(file, h, "listing_capacity_entries").val # "zero"
        /\ Chosen(file, h, "bucket_name").val # "illegal"
    BY <2>1, <2>2, <2>4
  <2> QED BY <2>5, ValidateFields
<1>6. /\ never.ok <=> Readable(file, h) /\ ~Typo(h) /\ validate(ConfigOf(file, h, TRUE))
      /\ never.ok => never = [ok |-> TRUE, config |-> ConfigOf(file, h, TRUE)]
  BY <1>1, LoadResult
<1>7. Chosen(file, given, "enabled").val = "off"
  <2>1. Chosen(file, given, "enabled") = From(given, "args", "enabled")
    BY DEF Chosen, ChoiceOf
  <2> QED BY <2>1, FromFields
<1> HIDE DEF never, h
<1>8. CASE loaded.ok
  <2>1. /\ Readable(file, given) /\ ~Typo(given)
        /\ validate(ConfigOf(file, given, launcher = "main"))
        /\ \A f \in Field : loaded.config[f] = Chosen(file, given, f)
    BY <1>1, <1>8, LoadsResult
  <2>2. never.ok /\ never.config = ConfigOf(file, h, TRUE)
    <3>1. (launcher = "main") \in BOOLEAN
      OBVIOUS
    <3>2. validate(ConfigOf(file, h, TRUE))
      BY <1>5, <2>1, <3>1
    <3>3. never.ok
      BY <1>3, <1>6, <2>1, <3>2
    <3>4. never = [ok |-> TRUE, config |-> ConfigOf(file, h, TRUE)]
      BY <1>6, <3>3
    <3>5. never.config = ConfigOf(file, h, TRUE)
      BY <3>4
    <3> QED BY <3>3, <3>5
  <2>3. \A f \in Field \ {"enabled"} : never.config[f] = loaded.config[f]
    <3> SUFFICES ASSUME NEW f \in Field \ {"enabled"}
                 PROVE  never.config[f] = loaded.config[f]
      OBVIOUS
    <3>1. ConfigOf(file, h, TRUE)[f] = Chosen(file, h, f)
      BY MainFields
    <3> QED BY <1>4, <2>1, <2>2, <3>1
  <2>4. loaded.config["enabled"].val = "off"
    BY <1>2, <1>7, <2>1
  <2>5. Off(loaded.config)
    BY <2>4 DEF Off, ttl
  <2> QED BY <1>8, <2>1, <2>2, <2>3, <2>5
<1>9. CASE ~loaded.ok
  <2> SUFFICES ASSUME launcher = "main", never.ok, ~Typo(given) PROVE loaded.ok
    BY <1>9
  <2>1. Readable(file, given) /\ validate(ConfigOf(file, h, TRUE))
    BY <1>3, <1>6
  <2>2. ConfigOf(file, given, TRUE)["enabled"].val = "off"
    <3>1. ConfigOf(file, given, TRUE)["enabled"] = Chosen(file, given, "enabled")
      BY SwitchField
    <3> QED BY <1>7, <3>1
  <2>3. /\ \A f \in Required : Chosen(file, h, f).val # "empty"
        /\ Chosen(file, h, "max_concurrent_requests").val # "zero"
        /\ Chosen(file, h, "bucket_name").val # "illegal"
    BY <2>1, ValidateFields
  <2>4. /\ \A f \in Required : Chosen(file, h, f) = Chosen(file, given, f)
        /\ Chosen(file, h, "max_concurrent_requests") =
             Chosen(file, given, "max_concurrent_requests")
        /\ Chosen(file, h, "bucket_name") = Chosen(file, given, "bucket_name")
    BY <1>2, <1>4, <2>1
  <2>5. /\ \A f \in Required : Chosen(file, given, f).val # "empty"
        /\ Chosen(file, given, "max_concurrent_requests").val # "zero"
        /\ ConfigOf(file, given, TRUE)["enabled"].val = "on"
             /\ Chosen(file, given, "listing_ttl_ms").val # "zero" =>
             Chosen(file, given, "listing_capacity_entries").val # "zero"
        /\ Chosen(file, given, "bucket_name").val # "illegal"
    BY <2>2, <2>3, <2>4
  <2>6. validate(ConfigOf(file, given, TRUE))
    BY <2>5, ValidateFields
  <2>7. loaded = load(file, given, TRUE)
    BY <1>1 DEF loads
  <2> QED BY <1>1, <2>1, <2>6, <2>7, LoadResult
<1> QED BY <1>8, <1>9

\* A loaded configuration takes each field from the highest source that offers it, and
\* can serve (Config::load, overrides, validate), for every set of settings and options.
THEOREM PrecedenceHolds == Spec => []LoadedIsSound
BY Invariance, Sound, PTL

\* --no-cache (cache_enabled=False) wins over every other setting: nothing is cached,
\* and every other field is as if no cache had been mentioned.
THEOREM KillSwitchWins == Spec => []KillSwitchHolds
BY Invariance, KillSwitch, PTL

-----------------------------------------------------------------------------
(* Recursive definitions.                                                  *)

\* Induction up to L, and a function defined by it.
LEMMA Induct ==
  ASSUME NEW L \in Nat, NEW T, 0 \in T, \A n \in 1..L : n - 1 \in T => n \in T
  PROVE  \A n \in 0..L : n \in T
<1> DEFINE U == {n \in 0..L : n \notin T}
<1> SUFFICES ASSUME U # {} PROVE FALSE
  OBVIOUS
<1>1. U \subseteq Nat
  OBVIOUS
<1>2. PICK n \in U : \A y \in U : n <= y
  BY <1>1, LeastNat
<1>3. n \in 1..L /\ n - 1 \in 0..L /\ n - 1 < n
  BY <1>1
<1>4. n - 1 \notin U
  BY <1>1, <1>2, <1>3
<1> QED BY <1>3, <1>4

\* f is what L steps of g make of x.
Iterates(f, L, X, x, g) ==
  f \in [0..L -> X] /\ f[0] = x /\ \A n \in 1..L : f[n] = g[n][f[n - 1]]

\* A function defined by recursion up to L exists.
LEMMA Iteration ==
  ASSUME NEW L \in Nat, NEW X, NEW x \in X, NEW g \in [1..L -> [X -> X]]
  PROVE  \E f : Iterates(f, L, X, x, g)
<1> DEFINE Upto(m, f) == f \in [0..m -> X] /\ f[0] = x /\ \A n \in 1..m : f[n] = g[n][f[n - 1]]
           T == {m \in 0..L : \E f : Upto(m, f)}
<1>1. 0 \in T
  <2>1. Upto(0, [n \in 0..0 |-> x])
    OBVIOUS
  <2>2. \E f : Upto(0, f)
    BY <2>1
  <2> HIDE DEF Upto
  <2> QED BY <2>2
<1>2. ASSUME NEW n \in 1..L, n - 1 \in T PROVE n \in T
  <2>1. PICK f : Upto(n - 1, f)
    BY <1>2
  <2> DEFINE h == [i \in 0..n |-> IF i = n THEN g[n][f[n - 1]] ELSE f[i]]
  <2>2. n - 1 \in 0..(n - 1) /\ f[n - 1] \in X
    BY <2>1
  <2>3. g[n][f[n - 1]] \in X
    BY <2>2
  <2>4. \A i \in 0..n : i # n => i \in 0..(n - 1) /\ f[i] \in X
    BY <2>1
  <2>5. h \in [0..n -> X]
    BY <2>3, <2>4
  <2>6. h[0] = x
    BY <2>1
  <2>7. ASSUME NEW i \in 1..n PROVE h[i] = g[i][h[i - 1]]
    <3>1. i - 1 \in 0..n /\ i - 1 # n /\ i \in 0..n
      OBVIOUS
    <3>2. h[i - 1] = f[i - 1]
      BY <3>1
    <3>3. CASE i = n
      BY <3>1, <3>2, <3>3
    <3>4. CASE i # n
      <4>1. i \in 1..(n - 1) /\ h[i] = f[i]
        BY <3>1, <3>4
      <4> QED BY <2>1, <3>2, <4>1
    <3> QED BY <3>3, <3>4
  <2>8. Upto(n, h)
    BY <2>5, <2>6, <2>7
  <2> HIDE DEF h, Upto
  <2> QED BY <2>8
<1> HIDE DEF T
<1>3. L \in 0..L
  OBVIOUS
<1>4. L \in T
  BY <1>1, <1>2, <1>3, Induct
<1> QED BY <1>4 DEF T, Iterates

-----------------------------------------------------------------------------
(* Splitting a path.                                                       *)

\* Bytes between two slashes.
Segment == {s \in Key : \A i \in 1..Len(s) : s[i] # Slash}

\* What split returns.
Segments == Seq(Segment) \ {<<>>}

\* Feeding a byte leaves slash-free segments, at least one.
LEMMA FedType ==
  ASSUME NEW s \in Segments, NEW b \in Nat
  PROVE  Fed(s, b) \in Segments
<1>1. s \in Seq(Segment) /\ Len(s) \in Nat \ {0}
  BY EmptySeq, LenProperties DEF Segments
<1>2. CASE b = Slash
  <2>1. <<>> \in Segment
    BY DEF Segment, Key
  <2>2. Append(s, <<>>) \in Seq(Segment) /\ Append(s, <<>>) # <<>>
    BY <1>1, <2>1, AppendProperties
  <2> QED BY <1>2, <2>2 DEF Fed, Segments
<1>3. CASE b # Slash
  <2> DEFINE l == s[Len(s)]
             a == Append(l, b)
             t == [s EXCEPT ![Len(s)] = a]
  <2>1. Len(s) \in 1..Len(s) /\ l \in Segment
    BY <1>1, ElementOfSeq
  <2>2. l \in Seq(Nat) /\ \A i \in 1..Len(l) : l[i] # Slash
    BY <2>1 DEF Segment, Key
  <2> HIDE DEF l
  <2>3. /\ a \in Seq(Nat) /\ Len(a) = Len(l) + 1
        /\ (\A i \in 1..Len(l) : a[i] = l[i]) /\ a[Len(l) + 1] = b
    BY <2>2, AppendProperties
  <2>4. Len(l) \in Nat
    BY <2>2
  <2> HIDE DEF a
  <2>5. \A i \in 1..Len(a) : a[i] # Slash
    <3> SUFFICES ASSUME NEW i \in 1..Len(a) PROVE a[i] # Slash
      OBVIOUS
    <3>1. i \in 1..Len(l) \/ i = Len(l) + 1
      BY <2>3, <2>4
    <3> QED BY <1>3, <2>2, <2>3, <3>1
  <2>6. a \in Segment
    BY <2>3, <2>5 DEF Segment, Key
  <2>7. t \in Seq(Segment) /\ Len(t) = Len(s)
    BY <1>1, <2>1, <2>6, ExceptSeq
  <2>8. t # <<>>
    BY <1>1, <2>7
  <2>9. Fed(s, b) = t
    BY <1>3 DEF Fed, a, l
  <2> QED BY <2>7, <2>8, <2>9 DEF Segments
<1> QED BY <1>2, <1>3

\* The recursion of Splits holds, and its values are segments.
LEMMA SplitsIs ==
  ASSUME NEW p \in Key, NEW S, S = Splits(p)
  PROVE  /\ S[0] = << <<>> >>
         /\ \A n \in 1..Len(p) : S[n] = Fed(S[n - 1], p[n])
         /\ \A n \in 0..Len(p) : S[n] \in Segments
<1> DEFINE L == Len(p)
           one == << <<>> >>
           g == [n \in 1..L |-> [s \in Segments |-> Fed(s, p[n])]]
<1>1. L \in Nat /\ \A i \in 1..L : p[i] \in Nat
  BY KeyType
<1>2. one \in Segments
  <2>1. <<>> \in Segment
    BY DEF Segment, Key
  <2> QED BY <2>1 DEF Segments
<1>3. g \in [1..L -> [Segments -> Segments]]
  BY <1>1, FedType
<1>4. \A s \in Segments, n \in 1..L : g[n][s] = Fed(s, p[n])
  OBVIOUS
<1> HIDE DEF g, one
<1>a. PICK f : Iterates(f, L, Segments, one, g)
  BY <1>1, <1>2, <1>3, Iteration
<1>5. f \in [0..L -> Segments] /\ f[0] = one /\ \A n \in 1..L : f[n] = g[n][f[n - 1]]
  BY <1>a DEF Iterates
<1>6. \A n \in 1..L : n - 1 \in 0..L /\ n \in 0..L /\ n # 0
  BY <1>1
<1>7. f = [n \in 0..L |-> IF n = 0 THEN one ELSE Fed(f[n - 1], p[n])]
  <2>1. \A n \in 0..L : f[n] = IF n = 0 THEN one ELSE Fed(f[n - 1], p[n])
    <3> SUFFICES ASSUME NEW n \in 0..L, n # 0 PROVE f[n] = Fed(f[n - 1], p[n])
      BY <1>5
    <3>1. n \in 1..L
      BY <1>1
    <3>2. f[n - 1] \in Segments
      BY <1>5, <1>6, <3>1
    <3> QED BY <1>4, <1>5, <3>1, <3>2
  <2> QED BY <1>5, <2>1
<1>8. S = CHOOSE h : h = [n \in 0..L |-> IF n = 0 THEN one ELSE Fed(h[n - 1], p[n])]
  BY DEF Splits, one
<1>9. S = [n \in 0..L |-> IF n = 0 THEN one ELSE Fed(S[n - 1], p[n])]
  BY <1>7, <1>8
<1>10. S[0] = one /\ \A n \in 1..L : S[n] = Fed(S[n - 1], p[n])
  BY <1>1, <1>6, <1>9
<1>11. \A n \in 0..L : S[n] \in Segments
  <2> DEFINE T == {n \in 0..L : S[n] \in Segments}
  <2>1. 0 \in T
    BY <1>1, <1>2, <1>10
  <2>2. ASSUME NEW n \in 1..L, n - 1 \in T PROVE n \in T
    BY <1>1, <1>6, <1>10, <2>2, FedType
  <2>3. \A n \in 0..L : n \in T
    <3> HIDE DEF T
    <3> QED BY <1>1, <2>1, <2>2, Induct
  <2> QED BY <2>3
<1> QED BY <1>10, <1>11 DEF one

\* Only the last segment grows.
LEMMA FedConcat ==
  ASSUME NEW s \in Segments, NEW t \in Segments, NEW b \in Nat
  PROVE  Fed(s \o t, b) = s \o Fed(t, b)
<1> DEFINE u == s \o t
<1>1. s \in Seq(Segment) /\ t \in Seq(Segment) /\ Len(s) \in Nat /\ Len(t) \in Nat \ {0}
  BY EmptySeq, LenProperties DEF Segments
<1>2. /\ u \in Seq(Segment) /\ Len(u) = Len(s) + Len(t)
      /\ \A i \in 1..(Len(s) + Len(t)) : u[i] = IF i <= Len(s) THEN s[i] ELSE t[i - Len(s)]
  BY <1>1, ConcatProperties
<1>3. u \in Segments
  BY <1>1, <1>2, EmptySeq DEF Segments
<1> DEFINE x == Fed(u, b)
           f == Fed(t, b)
           y == s \o f
<1>4. x \in Seq(Segment) /\ f \in Seq(Segment)
  BY <1>3, FedType DEF Segments
<1>5. /\ y \in Seq(Segment) /\ Len(y) = Len(s) + Len(f)
      /\ \A i \in 1..(Len(s) + Len(f)) : y[i] = IF i <= Len(s) THEN s[i] ELSE f[i - Len(s)]
  BY <1>1, <1>4, ConcatProperties
<1>6. CASE b = Slash
  <2>1. <<>> \in Segment
    BY DEF Segment, Key
  <2>2. /\ f = Append(t, <<>>) /\ x = Append(u, <<>>)
    BY <1>6 DEF Fed
  <2>3. /\ Len(f) = Len(t) + 1 /\ (\A i \in 1..Len(t) : f[i] = t[i]) /\ f[Len(t) + 1] = <<>>
        /\ Len(x) = Len(u) + 1 /\ (\A i \in 1..Len(u) : x[i] = u[i]) /\ x[Len(u) + 1] = <<>>
    BY <1>1, <1>2, <2>1, <2>2, AppendProperties
  <2> HIDE DEF u, x, f, y
  <2>4. Len(x) = Len(y)
    BY <1>1, <1>2, <1>5, <2>3
  <2>5. ASSUME NEW i \in 1..Len(x) PROVE x[i] = y[i]
    <3>1. CASE i <= Len(s)
      <4>1. i \in 1..Len(u) /\ i \in 1..(Len(s) + Len(t)) /\ i \in 1..(Len(s) + Len(f))
        BY <1>1, <1>2, <2>3, <3>1
      <4> QED BY <1>2, <1>5, <2>3, <3>1, <4>1
    <3>2. CASE i > Len(s) /\ i <= Len(u)
      <4>1. i - Len(s) \in 1..Len(t) /\ i \in 1..Len(u) /\ ~(i <= Len(s))
        BY <1>1, <1>2, <3>2
      <4> QED BY <1>1, <1>2, <1>5, <2>3, <2>4, <4>1
    <3>3. CASE i = Len(u) + 1
      <4>1. i - Len(s) = Len(t) + 1 /\ ~(i <= Len(s)) /\ i \in 1..(Len(s) + Len(f))
        BY <1>1, <1>2, <2>3, <3>3
      <4> QED BY <1>5, <2>3, <3>3, <4>1
    <3>4. i <= Len(s) \/ (i > Len(s) /\ i <= Len(u)) \/ i = Len(u) + 1
      <4>1. Len(x) = Len(u) + 1 /\ Len(u) = Len(s) + Len(t)
        BY <1>2, <2>3
      <4>2. Len(s) \in Nat /\ Len(t) \in Nat
        BY <1>1
      <4> QED BY <4>1, <4>2
    <3> QED BY <3>1, <3>2, <3>3, <3>4
  <2>6. x = y
    BY <1>4, <1>5, <2>4, <2>5, SeqEqual
  <2> QED BY <2>6 DEF x, y, u, f
<1>7. CASE b # Slash
  <2> DEFINE l == t[Len(t)]
             a == Append(l, b)
  <2>1. Len(u) \in 1..Len(u) /\ Len(t) \in 1..Len(t) /\ Len(u) - Len(s) = Len(t) /\ ~(Len(u) <= Len(s))
          /\ Len(u) \in 1..(Len(s) + Len(t))
    BY <1>1, <1>2
  <2>2. u[Len(u)] = l
    BY <1>2, <2>1
  <2>3. f = [t EXCEPT ![Len(t)] = a]
    BY <1>7 DEF Fed
  <2>4. x = [u EXCEPT ![Len(u)] = a]
    <3>1. x = [u EXCEPT ![Len(u)] = Append(u[Len(u)], b)]
      BY <1>7 DEF Fed
    <3> HIDE DEF u, l
    <3> QED BY <2>2, <3>1
  <2> HIDE DEF u, x, f, y, a, l
  <2>5. DOMAIN t = 1..Len(t) /\ DOMAIN u = 1..Len(u)
    BY <1>1, <1>2, LenProperties
  <2>6. /\ DOMAIN f = 1..Len(t) /\ DOMAIN x = 1..Len(u)
        /\ \A j \in 1..Len(t) : f[j] = IF j = Len(t) THEN a ELSE t[j]
        /\ \A j \in 1..Len(u) : x[j] = IF j = Len(u) THEN a ELSE u[j]
    BY <2>1, <2>3, <2>4, <2>5
  <2>a. DOMAIN f = 1..Len(f) /\ DOMAIN x = 1..Len(x) /\ Len(f) \in Nat /\ Len(x) \in Nat
    BY <1>4, LenProperties
  <2>b. Len(f) = Len(t) /\ Len(x) = Len(u)
    BY <1>1, <1>2, <2>6, <2>a
  <2>7. Len(x) = Len(y)
    BY <1>2, <1>5, <2>b
  <2>8. ASSUME NEW i \in 1..Len(x) PROVE x[i] = y[i]
    <3>1. CASE i <= Len(s)
      <4>1. i \in 1..(Len(s) + Len(f)) /\ i \in 1..(Len(s) + Len(t)) /\ i # Len(u) /\ i \in 1..Len(u)
        BY <1>1, <1>2, <2>b, <3>1
      <4> QED BY <1>2, <1>5, <2>6, <3>1, <4>1
    <3>2. CASE ~(i <= Len(s))
      <4>1. /\ i \in 1..(Len(s) + Len(f)) /\ i \in 1..(Len(s) + Len(t)) /\ i \in 1..Len(u)
            /\ i - Len(s) \in 1..Len(t) /\ (i = Len(u) <=> i - Len(s) = Len(t))
        BY <1>1, <1>2, <2>b, <3>2
      <4> QED BY <1>2, <1>5, <2>6, <3>2, <4>1
    <3> QED BY <3>1, <3>2
  <2>9. x = y
    BY <1>4, <1>5, <2>7, <2>8, SeqEqual
  <2> QED BY <2>9 DEF x, y, u, f
<1> QED BY <1>6, <1>7

\* A path splits into one segment or more, none with a slash in it.
LEMMA SplitType ==
  ASSUME NEW p \in Key
  PROVE  Split(p) \in Segments /\ Split(p) \in Seq(Segment) /\ Len(Split(p)) \in Nat \ {0}
<1> DEFINE S == Splits(p)
<1>1. Len(p) \in 0..Len(p)
  BY KeyType
<1>2. S[Len(p)] \in Segments
  BY <1>1, SplitsIs
<1>3. Split(p) \in Segments
  BY <1>2 DEF Split
<1> QED BY <1>3, EmptySeq DEF Segments

\* A slash splits.
LEMMA SplitAtSlash ==
  ASSUME NEW a \in Key, NEW b \in Key
  PROVE  Split(Output(a) \o b) = Split(a) \o Split(b)
<1> DEFINE w == Output(a)
           p == w \o b
           A == Splits(a)
           B == Splits(b)
           S == Splits(p)
           M == Len(a)
           N == Len(b)
<1>1. /\ w \in Seq(Nat) /\ Len(w) = M + 1 /\ (\A i \in 1..M : w[i] = a[i]) /\ w[M + 1] = Slash
      /\ M \in Nat /\ N \in Nat /\ b \in Seq(Nat)
  BY OutputKey, KeyType DEF Key
<1>2. /\ p \in Seq(Nat) /\ Len(p) = (M + 1) + N
      /\ \A i \in 1..((M + 1) + N) : p[i] = IF i <= M + 1 THEN w[i] ELSE b[i - (M + 1)]
  <2> HIDE DEF w, M, N
  <2>1. /\ p \in Seq(Nat) /\ Len(p) = Len(w) + Len(b)
        /\ \A i \in 1..(Len(w) + Len(b)) : p[i] = IF i <= Len(w) THEN w[i] ELSE b[i - Len(w)]
    BY <1>1, ConcatProperties
  <2> HIDE DEF p
  <2>2. Len(b) = N
    BY DEF N
  <2> QED BY <1>1, <2>1, <2>2
<1>3. /\ A[0] = << <<>> >> /\ (\A n \in 1..M : A[n] = Fed(A[n - 1], a[n]))
      /\ \A n \in 0..M : A[n] \in Segments
  BY SplitsIs
<1>4. /\ B[0] = << <<>> >> /\ (\A n \in 1..N : B[n] = Fed(B[n - 1], b[n]))
      /\ \A n \in 0..N : B[n] \in Segments
  BY SplitsIs
<1> HIDE DEF p, w
<1>5. /\ S[0] = << <<>> >> /\ \A n \in 1..Len(p) : S[n] = Fed(S[n - 1], p[n])
  <2>1. p \in Key
    BY <1>2 DEF Key
  <2> QED BY <2>1, SplitsIs
<1> HIDE DEF A, B, S, M, N
<1>6. \A n \in 0..M : S[n] = A[n]
  <2> DEFINE T == {n \in 0..M : S[n] = A[n]}
  <2>1. 0 \in T
    <3>1. 0 \in 0..M /\ S[0] = A[0]
      BY <1>1, <1>3, <1>5
    <3> QED BY <3>1
  <2>2. ASSUME NEW n \in 1..M, n - 1 \in T PROVE n \in T
    <3>1. n \in 1..Len(p) /\ n \in 1..((M + 1) + N) /\ n <= M + 1 /\ n \in 0..M
      BY <1>1, <1>2
    <3>2. p[n] = a[n]
      BY <1>1, <1>2, <3>1
    <3>3. S[n - 1] = A[n - 1]
      BY <2>2
    <3>4. S[n] = A[n]
      BY <1>3, <1>5, <3>1, <3>2, <3>3
    <3> QED BY <3>1, <3>4
  <2>3. \A n \in 0..M : n \in T
    <3> HIDE DEF T
    <3> QED BY <1>1, <2>1, <2>2, Induct
  <2> QED BY <2>3
<1>7. A[M] \in Segments /\ M \in 0..M
  BY <1>1, <1>3
<1>8. S[M + 1] = A[M] \o B[0]
  <2>1. M + 1 \in 1..Len(p) /\ M + 1 \in 1..((M + 1) + N) /\ M + 1 <= M + 1 /\ (M + 1) - 1 = M
    BY <1>1, <1>2
  <2>2. p[M + 1] = Slash
    BY <1>1, <1>2, <2>1
  <2>3. S[M + 1] = Fed(A[M], Slash)
    BY <1>5, <1>6, <1>7, <2>1, <2>2
  <2>4. Fed(A[M], Slash) = Append(A[M], <<>>)
    BY DEF Fed
  <2>5. <<>> \in Segment /\ A[M] \in Seq(Segment)
    BY <1>7 DEF Segment, Segments, Key
  <2>6. Append(A[M], <<>>) = A[M] \o << <<>> >>
    BY <2>5, AppendIsConcat
  <2> QED BY <1>4, <2>3, <2>4, <2>6
<1>9. \A n \in 0..N : S[(M + 1) + n] = A[M] \o B[n]
  <2> DEFINE T == {n \in 0..N : S[(M + 1) + n] = A[M] \o B[n]}
  <2>1. 0 \in T
    <3>1. (M + 1) + 0 = M + 1 /\ 0 \in 0..N
      BY <1>1
    <3> QED BY <1>8, <3>1
  <2>2. ASSUME NEW n \in 1..N, n - 1 \in T PROVE n \in T
    <3> DEFINE k == (M + 1) + n
    <3>1. /\ k \in 1..Len(p) /\ k \in 1..((M + 1) + N) /\ ~(k <= M + 1) /\ k - (M + 1) = n
          /\ k - 1 = (M + 1) + (n - 1) /\ n - 1 \in 0..N /\ n \in 0..N
      BY <1>1, <1>2
    <3>2. S[k - 1] = A[M] \o B[n - 1]
      BY <2>2, <3>1
    <3> HIDE DEF k
    <3>3. p[k] = b[n] /\ b[n] \in Nat
      BY <1>1, <1>2, <3>1, KeyType DEF N
    <3>4. S[k] = Fed(A[M] \o B[n - 1], b[n])
      BY <1>5, <3>1, <3>2, <3>3
    <3>5. Fed(A[M] \o B[n - 1], b[n]) = A[M] \o Fed(B[n - 1], b[n])
      BY <1>4, <1>7, <3>1, <3>3, FedConcat
    <3>6. S[k] = A[M] \o B[n]
      BY <1>4, <3>4, <3>5
    <3> QED BY <3>1, <3>6 DEF k
  <2>3. \A n \in 0..N : n \in T
    <3> HIDE DEF T
    <3> QED BY <1>1, <2>1, <2>2, Induct
  <2> QED BY <2>3
<1>10. S[Len(p)] = A[M] \o B[N]
  <2>1. N \in 0..N
    BY <1>1
  <2> QED BY <1>2, <1>9, <2>1
<1> QED BY <1>10 DEF Split, S, A, B, M, N, p, w

\* The empty key, as a key and as a segment.
LEMMA EmptySegment ==
  <<>> \in Segment /\ <<>> \in Key /\ << <<>> >> \in Seq(Segment) /\ << <<>> >> \in Segments
<1>1. <<>> \in Segment /\ <<>> \in Key
  BY DEF Segment, Key
<1> QED BY <1>1 DEF Segments

\* A path without a slash is one segment.
LEMMA SplitSegment ==
  ASSUME NEW a \in Segment
  PROVE  Split(a) = <<a>>
<1> DEFINE L == Len(a)
           S == Splits(a)
<1>1. a \in Key /\ a \in Seq(Nat) /\ L \in Nat /\ \A i \in 1..L : a[i] # Slash /\ a[i] \in Nat
  BY KeyType DEF Segment, Key
<1>2. S[0] = << <<>> >> /\ \A n \in 1..L : S[n] = Fed(S[n - 1], a[n])
  BY <1>1, SplitsIs
<1> DEFINE T == {n \in 0..L : S[n] = <<SubSeq(a, 1, n)>>}
<1>3. 0 \in T
  <2>1. SubSeq(a, 1, 0) = <<>> /\ 0 \in 0..L
    BY <1>1, SubSeqEmpty
  <2> HIDE DEF S
  <2> QED BY <1>2, <2>1
<1>4. ASSUME NEW n \in 1..L, n - 1 \in T PROVE n \in T
  <2> DEFINE x == SubSeq(a, 1, n - 1)
             c == a[n]
  <2>1. S[n - 1] = <<x>> /\ n \in 0..L
    BY <1>1, <1>4
  <2>2. c # Slash /\ c \in Nat
    BY <1>1
  <2>3. S[n] = Fed(<<x>>, c)
    BY <1>2, <2>1
  <2>4. x \in Seq(Nat)
    <3>1. \A i \in 1..(n - 1) : a[i] \in Nat
      BY <1>1
    <3> QED BY <1>1, <3>1, SubSeqProperties
  <2>5. SubSeq(a, 1, n) = x \o <<c>>
    <3>1. 1 \in 1..L /\ n \in 1..L
      BY <1>1
    <3> QED BY <1>1, <3>1, SubSeqRecursiveSecond
  <2> HIDE DEF x, c, S
  <2>6. Append(x, c) = x \o <<c>>
    BY <2>2, <2>4, AppendIsConcat
  <2>7. Fed(<<x>>, c) = <<Append(x, c)>>
    BY <2>2 DEF Fed
  <2>8. S[n] = <<SubSeq(a, 1, n)>>
    BY <2>3, <2>5, <2>6, <2>7
  <2> QED BY <2>1, <2>8
<1>5. L \in T
  <2>1. L \in 0..L
    BY <1>1
  <2> HIDE DEF T
  <2> QED BY <1>1, <1>3, <1>4, <2>1, Induct
<1>6. SubSeq(a, 1, L) = a
  BY <1>1, SubSeqFull
<1> QED BY <1>5, <1>6 DEF Split

-----------------------------------------------------------------------------
(* Joining segments.                                                       *)

\* The recursion of Joins holds, and its values are keys.
LEMMA JoinsIs ==
  ASSUME NEW w \in Seq(Key), NEW J, J = Joins(w)
  PROVE  /\ J[0] = <<>>
         /\ \A n \in 1..Len(w) : J[n] = Output(J[n - 1]) \o w[n]
         /\ \A n \in 0..Len(w) : J[n] \in Key
<1> DEFINE L == Len(w)
           g == [n \in 1..L |-> [k \in Key |-> Output(k) \o w[n]]]
<1>1. L \in Nat /\ \A i \in 1..L : w[i] \in Key
  BY ElementOfSeq, LenProperties
<1>2. <<>> \in Key
  BY EmptySegment
<1>b. \A k \in Key, n \in 1..L : Output(k) \o w[n] \in Key
  BY <1>1, OutputKey, ConcatKey
<1>3. g \in [1..L -> [Key -> Key]]
  BY <1>b
<1>4. \A k \in Key, n \in 1..L : g[n][k] = Output(k) \o w[n]
  OBVIOUS
<1> HIDE DEF g
<1>a. PICK f : Iterates(f, L, Key, <<>>, g)
  BY <1>1, <1>2, <1>3, Iteration
<1>5. f \in [0..L -> Key] /\ f[0] = <<>> /\ \A n \in 1..L : f[n] = g[n][f[n - 1]]
  BY <1>a DEF Iterates
<1>6. \A n \in 1..L : n - 1 \in 0..L /\ n \in 0..L /\ n # 0
  BY <1>1
<1>7. f = [n \in 0..L |-> IF n = 0 THEN <<>> ELSE Output(f[n - 1]) \o w[n]]
  <2>1. \A n \in 0..L : f[n] = IF n = 0 THEN <<>> ELSE Output(f[n - 1]) \o w[n]
    <3> SUFFICES ASSUME NEW n \in 0..L, n # 0 PROVE f[n] = Output(f[n - 1]) \o w[n]
      BY <1>5
    <3>1. n \in 1..L
      BY <1>1
    <3>2. f[n - 1] \in Key
      BY <1>5, <1>6, <3>1
    <3> QED BY <1>4, <1>5, <3>1, <3>2
  <2> QED BY <1>5, <2>1
<1>8. J = CHOOSE h : h = [n \in 0..L |-> IF n = 0 THEN <<>> ELSE Output(h[n - 1]) \o w[n]]
  BY DEF Joins
<1>9. J = [n \in 0..L |-> IF n = 0 THEN <<>> ELSE Output(J[n - 1]) \o w[n]]
  BY <1>7, <1>8
<1>10. J[0] = <<>> /\ \A n \in 1..L : J[n] = Output(J[n - 1]) \o w[n]
  BY <1>1, <1>6, <1>9
<1>11. \A n \in 0..L : J[n] \in Key
  <2> DEFINE T == {n \in 0..L : J[n] \in Key}
  <2>1. 0 \in T
    BY <1>1, <1>2, <1>10
  <2>2. ASSUME NEW n \in 1..L, n - 1 \in T PROVE n \in T
    BY <1>b, <1>6, <1>10, <2>2
  <2>3. \A n \in 0..L : n \in T
    <3> HIDE DEF T
    <3> QED BY <1>1, <2>1, <2>2, Induct
  <2> QED BY <2>3
<1> QED BY <1>10, <1>11

\* Segments are keys.
LEMMA SegmentsAreKeys ==
  ASSUME NEW w \in Seq(Segment)
  PROVE  w \in Seq(Key) /\ Len(w) \in Nat /\ \A i \in 1..Len(w) : w[i] \in Segment /\ w[i] \in Key
<1>1. Segment \subseteq Key
  BY DEF Segment
<1> QED BY <1>1, SeqMonotonic, ElementOfSeq, LenProperties

\* Lists of segments can be put together in any order.
LEMMA SegmentsAssociate ==
  ASSUME NEW s \in Seq(Segment), NEW t \in Seq(Segment), NEW v \in Seq(Segment)
  PROVE  (s \o t) \o v = s \o (t \o v)
<1> DEFINE S == Segment
<1> HIDE DEF S
<1>1. s \in Seq(S) /\ t \in Seq(S) /\ v \in Seq(S)
  BY DEF S
<1> QED BY <1>1, ConcatAssociative

\* Splitting what was joined gives the segments back.
LEMMA SplitJoins ==
  ASSUME NEW w \in Seq(Segment), NEW n \in 0..Len(w)
  PROVE  Split(Joins(w)[n]) = << <<>> >> \o SubSeq(w, 1, n)
<1> DEFINE L == Len(w)
           J == Joins(w)
           one == << <<>> >>
<1>1. w \in Seq(Key) /\ L \in Nat /\ \A i \in 1..L : w[i] \in Segment /\ w[i] \in Key
  BY SegmentsAreKeys
<1>2. /\ J[0] = <<>> /\ (\A i \in 1..L : J[i] = Output(J[i - 1]) \o w[i])
      /\ \A i \in 0..L : J[i] \in Key
  BY <1>1, JoinsIs
<1>3. one \in Seq(Segment)
  BY EmptySegment
<1> HIDE DEF one, J
<1> DEFINE T == {i \in 0..L : Split(J[i]) = one \o SubSeq(w, 1, i)}
<1>4. 0 \in T
  <2>1. SubSeq(w, 1, 0) = <<>> /\ 0 \in 0..L
    BY <1>1, SubSeqEmpty
  <2>2. one \o <<>> = one
    BY <1>3, ConcatEmptySeq
  <2>3. Split(<<>>) = one
    BY EmptySegment, SplitSegment DEF one
  <2> QED BY <1>2, <2>1, <2>2, <2>3
<1>5. ASSUME NEW i \in 1..L, i - 1 \in T PROVE i \in T
  <2> DEFINE x == SubSeq(w, 1, i - 1)
  <2>1. Split(J[i - 1]) = one \o x /\ i \in 0..L /\ i - 1 \in 0..L
    BY <1>1, <1>5
  <2>2. Split(J[i]) = Split(J[i - 1]) \o Split(w[i])
    BY <1>1, <1>2, <2>1, SplitAtSlash
  <2>3. Split(w[i]) = <<w[i]>> /\ <<w[i]>> \in Seq(Segment)
    BY <1>1, SplitSegment
  <2>4. x \in Seq(Segment)
    <3>1. \A j \in 1..(i - 1) : w[j] \in Segment
      BY <1>1
    <3> QED BY <1>1, <3>1, SubSeqProperties
  <2>5. SubSeq(w, 1, i) = x \o <<w[i]>>
    <3>1. 1 \in 1..L /\ i \in 1..L
      BY <1>1
    <3> QED BY <3>1, SubSeqRecursiveSecond
  <2> HIDE DEF x
  <2>6. (one \o x) \o <<w[i]>> = one \o (x \o <<w[i]>>)
    <3> DEFINE u == <<w[i]>>
    <3>1. u \in Seq(Segment)
      BY <2>3
    <3> HIDE DEF u
    <3>2. (one \o x) \o u = one \o (x \o u)
      BY <1>3, <2>4, <3>1, SegmentsAssociate, Zenon
    <3> QED BY <3>2 DEF u
  <2>7. Split(J[i]) = one \o SubSeq(w, 1, i)
    BY <2>1, <2>2, <2>3, <2>5, <2>6
  <2> QED BY <2>1, <2>7
<1>6. n \in T
  <2> HIDE DEF T
  <2> QED BY <1>1, <1>4, <1>5, Induct
<1> QED BY <1>6 DEF one, J

\* The segments of an absolute path are its parts, after the empty one.
LEMMA SplitAbsolute ==
  ASSUME NEW w \in Seq(Segment)
  PROVE  /\ Absolute(w) \in Key
         /\ w # <<>> => Split(Absolute(w)) = << <<>> >> \o w
         /\ w = <<>> => Split(Absolute(w)) = << <<>> >> \o << <<>> >>
<1>1. w \in Seq(Key) /\ Len(w) \in 0..Len(w)
  BY SegmentsAreKeys
<1>2. CASE w # <<>>
  <2>1. Absolute(w) = Joins(w)[Len(w)]
    BY <1>2 DEF Absolute
  <2>2. SubSeq(w, 1, Len(w)) = w
    BY SubSeqFull
  <2> QED BY <1>1, <1>2, <2>1, <2>2, SplitJoins, JoinsIs
<1>3. CASE w = <<>>
  <2>1. Absolute(w) = Output(<<>>) \o <<>>
    <3>1. Output(<<>>) = <<Slash>> /\ Output(<<>>) \in Key
      <4>1. Output(<<>>) = <<Slash>>
        BY DEF Output
      <4>2. Output(<<>>) \in Key
        BY EmptySegment, OutputKey
      <4> QED BY <4>1, <4>2
    <3>2. Output(<<>>) \o <<>> = Output(<<>>)
      BY <3>1, ConcatEmptySeq DEF Key
    <3> QED BY <1>3, <3>1, <3>2 DEF Absolute
  <2>2. Split(<<>>) = << <<>> >>
    BY EmptySegment, SplitSegment
  <2>3. Output(<<>>) \in Key
    BY EmptySegment, OutputKey
  <2>4. Absolute(w) \in Key
    BY <2>1, <2>3, EmptySegment, ConcatKey
  <2>5. Split(Output(<<>>) \o <<>>) = << <<>> >> \o << <<>> >>
    BY <2>2, EmptySegment, SplitAtSlash
  <2> QED BY <1>3, <2>1, <2>4, <2>5
<1> QED BY <1>2, <1>3

-----------------------------------------------------------------------------
(* Normalizing.                                                            *)

\* The segments normalize_abs keeps.
PlainSegment == {s \in Segment : Plain(s)}

\* What normalize_abs keeps of the segments.
Kept(segs) == Takens(segs)[Len(segs)]

\* Plain segments are segments.
LEMMA PlainsAre ==
  ASSUME NEW w \in Seq(PlainSegment)
  PROVE  /\ w \in Seq(Segment) /\ w \in Seq(Key) /\ w # None /\ Len(w) \in Nat
         /\ \A i \in 1..Len(w) : w[i] \in PlainSegment /\ w[i] \in Segment
<1>1. PlainSegment \subseteq Segment
  BY DEF PlainSegment
<1>2. w \in Seq(Segment)
  BY <1>1, SeqMonotonic
<1>3. w \in Seq(Key) /\ Len(w) \in Nat
  BY <1>2, SegmentsAreKeys
<1>4. w # None
  BY <1>3, PathAssumption
<1>5. \A i \in 1..Len(w) : w[i] \in PlainSegment
  BY ElementOfSeq
<1> QED BY <1>1, <1>2, <1>3, <1>4, <1>5

\* Taking a segment keeps plain segments, or rejects.
LEMMA TakenType ==
  ASSUME NEW q \in Seq(PlainSegment) \cup {None}, NEW s \in Segment
  PROVE  Taken(q, s) \in Seq(PlainSegment) \cup {None}
<1>1. CASE q = None
  BY <1>1 DEF Taken
<1>2. CASE q # None
  <2>1. q \in Seq(PlainSegment)
    BY <1>2
  <2>2. CASE s \in {<<>>, <<Dot>>}
    BY <1>2, <2>1, <2>2 DEF Taken
  <2>3. CASE s \notin {<<>>, <<Dot>>} /\ s = <<Dot, Dot>>
    <3>1. Taken(q, s) = IF q = <<>> THEN None ELSE SubSeq(q, 1, Len(q) - 1)
      BY <1>2, <2>3 DEF Taken
    <3>2. SubSeq(q, 1, Len(q) - 1) \in Seq(PlainSegment)
      <4>1. Len(q) \in Nat /\ Len(q) - 1 \in Int /\ \A i \in 1..(Len(q) - 1) : i \in 1..Len(q)
        BY <2>1, LenProperties
      <4>2. \A i \in 1..(Len(q) - 1) : q[i] \in PlainSegment
        BY <2>1, <4>1, ElementOfSeq
      <4> QED BY <4>1, <4>2, SubSeqProperties
    <3> QED BY <3>1, <3>2
  <2>4. CASE s \notin {<<>>, <<Dot>>} /\ s # <<Dot, Dot>>
    <3>1. Taken(q, s) = Append(q, s)
      BY <1>2, <2>4 DEF Taken
    <3>2. s \in PlainSegment
      BY <2>4 DEF PlainSegment, Plain
    <3> QED BY <2>1, <3>1, <3>2, AppendProperties
  <2> QED BY <2>2, <2>3, <2>4
<1> QED BY <1>1, <1>2

\* The recursion of Takens holds, and its values are plain segments or None.
LEMMA TakensIs ==
  ASSUME NEW w \in Seq(Segment), NEW P, P = Takens(w)
  PROVE  /\ P[0] = <<>>
         /\ \A n \in 1..Len(w) : P[n] = Taken(P[n - 1], w[n])
         /\ \A n \in 0..Len(w) : P[n] \in Seq(PlainSegment) \cup {None}
<1> DEFINE L == Len(w)
           X == Seq(PlainSegment) \cup {None}
           g == [n \in 1..L |-> [q \in X |-> Taken(q, w[n])]]
<1>1. L \in Nat /\ \A i \in 1..L : w[i] \in Segment
  BY SegmentsAreKeys
<1>2. <<>> \in X
  BY EmptySeq
<1>b. \A q \in X, n \in 1..L : Taken(q, w[n]) \in X
  BY <1>1, TakenType
<1> HIDE DEF X
<1>3. g \in [1..L -> [X -> X]]
  BY <1>b
<1>4. \A q \in X, n \in 1..L : g[n][q] = Taken(q, w[n])
  OBVIOUS
<1> HIDE DEF g
<1>a. PICK f : Iterates(f, L, X, <<>>, g)
  BY <1>1, <1>2, <1>3, Iteration
<1>5. f \in [0..L -> X] /\ f[0] = <<>> /\ \A n \in 1..L : f[n] = g[n][f[n - 1]]
  BY <1>a DEF Iterates
<1>6. \A n \in 1..L : n - 1 \in 0..L /\ n \in 0..L /\ n # 0
  BY <1>1
<1>7. f = [n \in 0..L |-> IF n = 0 THEN <<>> ELSE Taken(f[n - 1], w[n])]
  <2>1. \A n \in 0..L : f[n] = IF n = 0 THEN <<>> ELSE Taken(f[n - 1], w[n])
    <3> SUFFICES ASSUME NEW n \in 0..L, n # 0 PROVE f[n] = Taken(f[n - 1], w[n])
      BY <1>5
    <3>1. n \in 1..L
      BY <1>1
    <3>2. f[n - 1] \in X
      BY <1>5, <1>6, <3>1
    <3> QED BY <1>4, <1>5, <3>1, <3>2
  <2> QED BY <1>5, <2>1
<1>8. P = CHOOSE h : h = [n \in 0..L |-> IF n = 0 THEN <<>> ELSE Taken(h[n - 1], w[n])]
  BY DEF Takens
<1>9. P = [n \in 0..L |-> IF n = 0 THEN <<>> ELSE Taken(P[n - 1], w[n])]
  BY <1>7, <1>8
<1>10. P[0] = <<>> /\ \A n \in 1..L : P[n] = Taken(P[n - 1], w[n])
  BY <1>1, <1>6, <1>9
<1>11. \A n \in 0..L : P[n] \in X
  <2> DEFINE T == {n \in 0..L : P[n] \in X}
  <2>1. 0 \in T
    BY <1>1, <1>2, <1>10
  <2>2. ASSUME NEW n \in 1..L, n - 1 \in T PROVE n \in T
    BY <1>b, <1>6, <1>10, <2>2
  <2>3. \A n \in 0..L : n \in T
    <3> HIDE DEF T
    <3> QED BY <1>1, <2>1, <2>2, Induct
  <2> QED BY <2>3
<1> QED BY <1>10, <1>11 DEF X

\* What is kept is plain.
LEMMA KeptType ==
  ASSUME NEW w \in Seq(Segment)
  PROVE  Kept(w) \in Seq(PlainSegment) \cup {None}
<1>1. Len(w) \in 0..Len(w)
  BY SegmentsAreKeys
<1> QED BY <1>1, TakensIs DEF Kept

\* Segments are taken one after the other.
LEMMA TakensConcat ==
  ASSUME NEW s \in Seq(Segment), NEW t \in Seq(Segment)
  PROVE  /\ \A n \in 0..Len(s) : Takens(s \o t)[n] = Takens(s)[n]
         /\ \A n \in 1..Len(t) : Takens(s \o t)[Len(s) + n] = Taken(Takens(s \o t)[Len(s) + (n - 1)], t[n])
         /\ Kept(s \o t) = Takens(s \o t)[Len(s) + Len(t)]
         /\ Takens(s \o t)[Len(s)] = Kept(s)
<1> DEFINE u == s \o t
           P == Takens(u)
           Q == Takens(s)
           M == Len(s)
           N == Len(t)
<1>1. M \in Nat /\ N \in Nat
  BY LenProperties
<1>2. /\ u \in Seq(Segment) /\ Len(u) = M + N
      /\ \A i \in 1..(M + N) : u[i] = IF i <= M THEN s[i] ELSE t[i - M]
  BY ConcatProperties
<1>3. Q[0] = <<>> /\ \A n \in 1..M : Q[n] = Taken(Q[n - 1], s[n])
  BY TakensIs
<1> HIDE DEF u
<1>4. P[0] = <<>> /\ \A n \in 1..(M + N) : P[n] = Taken(P[n - 1], u[n])
  <2>1. P[0] = <<>> /\ \A n \in 1..Len(u) : P[n] = Taken(P[n - 1], u[n])
    BY <1>2, TakensIs
  <2> QED BY <1>2, <2>1
<1> HIDE DEF P, Q, M, N
<1>5. \A n \in 0..M : P[n] = Q[n]
  <2> DEFINE T == {n \in 0..M : P[n] = Q[n]}
  <2>1. 0 \in T
    <3>1. 0 \in 0..M /\ P[0] = Q[0]
      BY <1>1, <1>3, <1>4
    <3> QED BY <3>1
  <2>2. ASSUME NEW n \in 1..M, n - 1 \in T PROVE n \in T
    <3>1. n \in 1..(M + N) /\ n <= M /\ n \in 0..M
      BY <1>1
    <3>2. u[n] = s[n] /\ P[n - 1] = Q[n - 1]
      BY <1>2, <2>2, <3>1
    <3>3. P[n] = Q[n]
      BY <1>3, <1>4, <3>1, <3>2
    <3> QED BY <3>1, <3>3
  <2>3. \A n \in 0..M : n \in T
    <3> HIDE DEF T
    <3> QED BY <1>1, <2>1, <2>2, Induct
  <2> QED BY <2>3
<1>6. ASSUME NEW n \in 1..N PROVE P[M + n] = Taken(P[M + (n - 1)], t[n])
  <2>1. /\ M + n \in 1..(M + N) /\ ~(M + n <= M) /\ (M + n) - M = n /\ (M + n) - 1 = M + (n - 1)
    BY <1>1
  <2>2. u[M + n] = t[n]
    BY <1>2, <2>1
  <2>3. P[M + n] = Taken(P[(M + n) - 1], u[M + n])
    BY <1>4, <2>1
  <2> QED BY <2>1, <2>2, <2>3
<1>7. M \in 0..M
  BY <1>1
<1>8. Kept(u) = P[M + N] /\ P[M] = Kept(s)
  BY <1>2, <1>5, <1>7 DEF Kept, P, Q, M
<1> QED BY <1>5, <1>6, <1>8 DEF u, P, Q, M, N

\* Plain segments are all kept.
LEMMA KeptPlain ==
  ASSUME NEW s \in Seq(Segment), Kept(s) # None, NEW t \in Seq(PlainSegment)
  PROVE  Kept(s \o t) = Kept(s) \o t
<1> DEFINE P == Takens(s \o t)
           q == Kept(s)
           M == Len(s)
           N == Len(t)
           T == {n \in 0..N : P[M + n] = q \o SubSeq(t, 1, n)}
<1>1. M \in Nat /\ N \in Nat /\ t \in Seq(Segment) /\ \A i \in 1..N : t[i] \in PlainSegment
  BY LenProperties, PlainsAre
<1>2. q \in Seq(PlainSegment)
  BY KeptType
<1>3. /\ \A n \in 1..N : P[M + n] = Taken(P[M + (n - 1)], t[n])
      /\ Kept(s \o t) = P[M + N]
      /\ P[M] = q
  BY <1>1, TakensConcat
<1> HIDE DEF P, q
<1>4. 0 \in T
  <2>1. SubSeq(t, 1, 0) = <<>> /\ 0 \in 0..N /\ M + 0 = M
    BY <1>1, SubSeqEmpty
  <2>2. q \o <<>> = q
    BY <1>2, ConcatEmptySeq
  <2> QED BY <1>3, <2>1, <2>2
<1>5. ASSUME NEW n \in 1..N, n - 1 \in T PROVE n \in T
  <2> DEFINE x == SubSeq(t, 1, n - 1)
             e == t[n]
  <2>1. P[M + (n - 1)] = q \o x /\ n \in 0..N
    BY <1>1, <1>5
  <2>2. e \in PlainSegment
    BY <1>1
  <2>3. x \in Seq(PlainSegment)
    <3>1. \A j \in 1..(n - 1) : t[j] \in PlainSegment
      BY <1>1
    <3> QED BY <1>1, <3>1, SubSeqProperties
  <2>4. SubSeq(t, 1, n) = x \o <<e>>
    <3>1. 1 \in 1..N /\ n \in 1..N
      BY <1>1
    <3> QED BY <3>1, SubSeqRecursiveSecond
  <2>5. P[M + n] = Taken(q \o x, e)
    BY <1>3, <2>1
  <2> HIDE DEF x, e
  <2>6. q \o x \in Seq(PlainSegment)
    BY <1>2, <2>3, ConcatProperties
  <2>7. Taken(q \o x, e) = Append(q \o x, e)
    <3>1. q \o x # None /\ Plain(e)
      BY <2>2, <2>6, PlainsAre DEF PlainSegment
    <3> QED BY <3>1 DEF Taken, Plain
  <2>8. Append(q \o x, e) = (q \o x) \o <<e>>
    BY <2>2, <2>6, AppendIsConcat
  <2>9. (q \o x) \o <<e>> = q \o (x \o <<e>>)
    <3> DEFINE v == <<e>>
    <3>1. v \in Seq(PlainSegment)
      BY <2>2
    <3> HIDE DEF v
    <3>2. q \in Seq(Segment) /\ x \in Seq(Segment) /\ v \in Seq(Segment)
      BY <1>2, <2>3, <3>1, PlainsAre
    <3>3. (q \o x) \o v = q \o (x \o v)
      BY <3>2, SegmentsAssociate
    <3> QED BY <3>3 DEF v
  <2>10. P[M + n] = q \o SubSeq(t, 1, n)
    BY <2>4, <2>5, <2>7, <2>8, <2>9
  <2> QED BY <2>1, <2>10
<1>6. N \in T
  <2>1. N \in 0..N
    BY <1>1
  <2> HIDE DEF T
  <2> QED BY <1>1, <1>4, <1>5, <2>1, Induct
<1>7. SubSeq(t, 1, N) = t
  BY <1>1, SubSeqFull
<1> QED BY <1>3, <1>6, <1>7 DEF q

\* An empty segment changes nothing.
LEMMA KeptEmpty ==
  ASSUME NEW s \in Seq(Segment)
  PROVE  Kept(s \o << <<>> >>) = Kept(s)
<1> DEFINE one == << <<>> >>
           P == Takens(s \o one)
           M == Len(s)
<1>1. one \in Seq(Segment) /\ Len(one) = 1 /\ one[1] = <<>> /\ M \in Nat
  BY EmptySegment, LenProperties
<1> HIDE DEF one
<1>2. P[M + 1] = Taken(P[M + (1 - 1)], one[1]) /\ Kept(s \o one) = P[M + 1] /\ P[M] = Kept(s)
  <2>1. 1 \in 1..Len(one)
    BY <1>1
  <2> QED BY <1>1, <2>1, TakensConcat
<1> HIDE DEF P
<1>3. M + (1 - 1) = M
  BY <1>1
<1>4. Taken(Kept(s), <<>>) = Kept(s)
  BY DEF Taken
<1> QED BY <1>1, <1>2, <1>3, <1>4 DEF one

\* An absolute path of plain segments is its own normal form.
LEMMA KeptAbsolute ==
  ASSUME NEW w \in Seq(PlainSegment)
  PROVE  Kept(<< <<>> >> \o w) = w /\ Kept(Split(Absolute(w))) = w
<1> DEFINE one == << <<>> >>
<1>1. one \in Seq(Segment) /\ w \in Seq(Segment) /\ w # None
  BY EmptySegment, PlainsAre
<1>2. Kept(one) = <<>>
  <2>1. <<>> \in Seq(Segment) /\ Len(<<>>) = 0 /\ <<>> \o one = one
    BY <1>1, ConcatEmptySeq
  <2>2. Kept(<<>>) = <<>>
    BY <2>1, TakensIs DEF Kept
  <2>3. Kept(<<>> \o << <<>> >>) = Kept(<<>>)
    BY <2>1, KeptEmpty
  <2> QED BY <2>1, <2>2, <2>3
<1>3. <<>> # None
  BY EmptySegment, PathAssumption
<1>4. <<>> \o w = w
  BY <1>1, ConcatEmptySeq
<1>5. Kept(one \o w) = w
  <2> HIDE DEF one
  <2>1. Kept(one) # None
    BY <1>2, <1>3
  <2>2. Kept(one \o w) = Kept(one) \o w
    BY <1>1, <2>1, KeptPlain
  <2> QED BY <1>2, <1>4, <2>2
<1>6. CASE w # <<>>
  <2>1. Split(Absolute(w)) = one \o w
    BY <1>1, <1>6, SplitAbsolute
  <2> QED BY <1>5, <2>1
<1>7. CASE w = <<>>
  <2>1. Split(Absolute(w)) = one \o one
    BY <1>1, <1>7, SplitAbsolute
  <2>2. Kept(one \o one) = Kept(one)
    BY <1>1, KeptEmpty
  <2> QED BY <1>2, <1>5, <1>7, <2>1, <2>2
<1> QED BY <1>6, <1>7

\* normalize_abs leaves a path in normal form as it is.
LEMMA NormalizeAbsolute ==
  ASSUME NEW w \in Seq(PlainSegment)
  PROVE  /\ normalize_abs(Absolute(w)) = Absolute(w)
         /\ Absolute(w) \in Key /\ Absolute(w) # None
         /\ Absolute(w) = <<Slash>> <=> w = <<>>
<1>1. w \in Seq(Segment) /\ w # None
  BY PlainsAre
<1>2. Absolute(w) \in Key
  BY <1>1, SplitAbsolute
<1>3. Absolute(w) # None
  BY <1>2, PathAssumption
<1>4. normalize_abs(Absolute(w)) = Absolute(w)
  BY <1>1, KeptAbsolute DEF normalize_abs, Kept
<1>5. Absolute(<<>>) = <<Slash>>
  BY DEF Absolute
<1>6. ASSUME Absolute(w) = <<Slash>> PROVE w = <<>>
  <2>1. <<>> \in Seq(PlainSegment)
    BY EmptySeq
  <2>2. Kept(Split(Absolute(<<>>))) = <<>> /\ Kept(Split(Absolute(w))) = w
    BY <2>1, KeptAbsolute
  <2> QED BY <1>5, <1>6, <2>2
<1> QED BY <1>2, <1>3, <1>4, <1>5, <1>6

\* What normalize_abs returns is in normal form.
LEMMA NormalizeType ==
  ASSUME NEW p \in Key, normalize_abs(p) # None
  PROVE  \E w \in Seq(PlainSegment) : normalize_abs(p) = Absolute(w) /\ w = Kept(Split(p))
<1>1. Split(p) \in Seq(Segment)
  BY SplitType
<1>2. Kept(Split(p)) \in Seq(PlainSegment) \cup {None}
  BY <1>1, KeptType
<1> QED BY <1>2 DEF normalize_abs, Kept

\* Below a root in normal form the segments of the key come after the root's.
LEMMA JoinRootSplits ==
  ASSUME NEW q \in Seq(PlainSegment), NEW k \in Key
  PROVE  /\ join_root(Absolute(q), k) \in Key
         /\ Split(join_root(Absolute(q), k)) = << <<>> >> \o (q \o Split(k))
         /\ Split(join_root(Absolute(q), k)) = (<< <<>> >> \o q) \o Split(k)
         /\ join_root(Absolute(q), k)
              = (IF Absolute(q) = <<Slash>> THEN Absolute(q) ELSE Output(Absolute(q))) \o k
<1> DEFINE one == << <<>> >>
           r == Absolute(q)
           j == join_root(r, k)
           s == Split(k)
<1>1. q \in Seq(Segment) /\ one \in Seq(Segment) /\ s \in Seq(Segment) /\ r \in Key
        /\ (r = <<Slash>> <=> q = <<>>)
  BY PlainsAre, EmptySegment, SplitType, NormalizeAbsolute
<1>2. (one \o q) \o s = one \o (q \o s)
  <2> HIDE DEF one, s
  <2> QED BY <1>1, SegmentsAssociate
<1>3. CASE q = <<>>
  <2>1. r = <<Slash>> /\ Output(<<>>) = <<Slash>>
    BY <1>1, <1>3 DEF Output
  <2>2. j = Output(<<>>) \o k
    BY <2>1 DEF join_root
  <2>3. Output(<<>>) \in Key /\ <<>> \in Key
    BY EmptySegment, OutputKey
  <2>4. j \in Key
    BY <2>2, <2>3, ConcatKey
  <2>5. Split(j) = Split(<<>>) \o s
    BY <2>2, <2>3, SplitAtSlash
  <2>6. Split(<<>>) = one
    BY EmptySegment, SplitSegment
  <2>7. one \o q = one
    BY <1>1, <1>3, ConcatEmptySeq
  <2> HIDE DEF one, s, j, r
  <2>8. Split(j) = (one \o q) \o s
    BY <2>5, <2>6, <2>7
  <2>9. j = (IF r = <<Slash>> THEN r ELSE Output(r)) \o k
    BY <2>1, <2>2
  <2> QED BY <1>2, <2>4, <2>8, <2>9 DEF one, s, j, r
<1>4. CASE q # <<>>
  <2>1. r # <<Slash>>
    BY <1>1, <1>4
  <2>2. Output(r) = r \o <<Slash>>
    BY <1>1, AppendIsConcat DEF Output, Key, Slash
  <2>3. j = Output(r) \o k
    BY <2>1, <2>2 DEF join_root
  <2>4. Output(r) \in Key
    BY <1>1, OutputKey
  <2>5. j \in Key
    BY <2>3, <2>4, ConcatKey
  <2>6. Split(j) = Split(r) \o s
    BY <1>1, <2>3, SplitAtSlash
  <2>7. Split(r) = one \o q
    BY <1>1, <1>4, SplitAbsolute
  <2> HIDE DEF one, s, j, r
  <2>8. Split(j) = (one \o q) \o s
    BY <2>6, <2>7
  <2>9. j = (IF r = <<Slash>> THEN r ELSE Output(r)) \o k
    BY <2>1, <2>3
  <2> QED BY <1>2, <2>5, <2>8, <2>9 DEF one, s, j, r
<1> QED BY <1>3, <1>4

\* A key of plain segments, or one with a slash behind it, adds them to the root's.
LEMMA NormalizeBelow ==
  ASSUME NEW q \in Seq(PlainSegment), NEW k \in Key, Split(k) \in Seq(PlainSegment)
  PROVE  /\ q \o Split(k) \in Seq(PlainSegment)
         /\ normalize_abs(join_root(Absolute(q), k)) = Absolute(q \o Split(k))
         /\ normalize_abs(join_root(Absolute(q), Output(k))) = Absolute(q \o Split(k))
<1> DEFINE one == << <<>> >>
           s == Split(k)
           w == q \o s
           r == Absolute(q)
<1>1. w \in Seq(PlainSegment)
  BY ConcatProperties
<1>2. w \in Seq(Segment) /\ w # None /\ one \in Seq(Segment) /\ q \in Seq(Segment) /\ s \in Seq(Segment)
  BY <1>1, EmptySegment, PlainsAre
<1>3. Kept(one \o w) = w
  BY <1>1, KeptAbsolute
<1>4. Split(join_root(r, k)) = one \o w
  BY JoinRootSplits
<1>5. normalize_abs(join_root(r, k)) = Absolute(w)
  <2> HIDE DEF w, one, r
  <2> QED BY <1>2, <1>3, <1>4 DEF normalize_abs, Kept
<1>6. Output(k) \in Key /\ Split(Output(k)) = s \o one
  <2>1. Output(k) \in Key /\ Output(k) \o <<>> = Output(k)
    BY OutputKey, ConcatEmptySeq DEF Key
  <2>2. Split(Output(k) \o <<>>) = s \o Split(<<>>)
    BY EmptySegment, SplitAtSlash
  <2>3. Split(<<>>) = one
    BY EmptySegment, SplitSegment
  <2> QED BY <2>1, <2>2, <2>3
<1>7. Split(join_root(r, Output(k))) = (one \o q) \o (s \o one)
  <2>1. Split(join_root(r, Output(k))) = (one \o q) \o Split(Output(k))
    BY <1>6, JoinRootSplits
  <2> QED BY <1>6, <2>1
<1>8. (one \o q) \o (s \o one) = (one \o w) \o one
  <2> HIDE DEF one, s
  <2>1. one \o q \in Seq(Segment)
    BY <1>2, ConcatProperties
  <2>2. (one \o q) \o (s \o one) = ((one \o q) \o s) \o one
    BY <1>2, <2>1, SegmentsAssociate
  <2>3. (one \o q) \o s = one \o w
    BY <1>2, SegmentsAssociate
  <2> QED BY <2>2, <2>3
<1>9. Kept((one \o w) \o one) = w
  <2>1. one \o w \in Seq(Segment)
    <3> HIDE DEF one, w
    <3> QED BY <1>2, ConcatProperties
  <2>2. Kept((one \o w) \o << <<>> >>) = Kept(one \o w)
    <3> HIDE DEF one, w
    <3> QED BY <2>1, KeptEmpty
  <2> QED BY <1>3, <2>2
<1>10. normalize_abs(join_root(r, Output(k))) = Absolute(w)
  <2> HIDE DEF w, one, r, s
  <2> QED BY <1>2, <1>7, <1>8, <1>9 DEF normalize_abs, Kept
<1> QED BY <1>1, <1>5, <1>10

-----------------------------------------------------------------------------
(* Below a directory.                                                      *)

\* A key starts with its first part.
LEMMA StartsConcat ==
  ASSUME NEW a \in Key, NEW b \in Key
  PROVE  StartsWith(a \o b, a)
<1>1. Len(a) \in Nat /\ Len(b) \in Nat
  BY KeyType
<1>2. Len(a \o b) = Len(a) + Len(b) /\ \A i \in 1..Len(a) : (a \o b)[i] = a[i]
  BY ConcatKey
<1> QED BY <1>1, <1>2 DEF StartsWith

\* StartsWith is transitive.
LEMMA StartsTransitive ==
  ASSUME NEW a \in Key, NEW b \in Key, NEW c \in Key, StartsWith(a, b), StartsWith(b, c)
  PROVE  StartsWith(a, c)
<1>1. Len(a) \in Nat /\ Len(b) \in Nat /\ Len(c) \in Nat
  BY KeyType
<1>2. Len(c) <= Len(b) /\ Len(b) <= Len(a)
  BY DEF StartsWith
<1>3. Len(c) <= Len(a)
  BY <1>1, <1>2
<1>4. ASSUME NEW j \in 1..Len(c) PROVE a[j] = c[j]
  <2>1. j \in 1..Len(b)
    BY <1>1, <1>2
  <2> QED BY <2>1 DEF StartsWith
<1> QED BY <1>3, <1>4 DEF StartsWith

\* What follows a prefix.
LEMMA StartsRest ==
  ASSUME NEW p \in Key, NEW a \in Key, StartsWith(p, a), NEW b, b = SubSeq(p, Len(a) + 1, Len(p))
  PROVE  b \in Key /\ p = a \o b
<1>1. Len(p) \in Nat /\ Len(a) \in Nat /\ \A i \in 1..Len(p) : p[i] \in Nat
  BY KeyType
<1>2. Len(a) <= Len(p) /\ \A j \in 1..Len(a) : p[j] = a[j]
  BY DEF StartsWith
<1>3. p \in Seq(Nat) /\ a \in Seq(Nat)
  BY DEF Key
<1>4. b \in Seq(Nat)
  <2>1. \A i \in (Len(a) + 1)..Len(p) : p[i] \in Nat
    BY <1>1
  <2>2. Len(a) + 1 \in Int /\ Len(p) \in Int
    BY <1>1
  <2> QED BY <2>1, <2>2, SubSeqProperties
<1> DEFINE x == SubSeq(p, 1, Len(a))
<1>5. x = a
  <2>1. Len(a) \in 0..Len(p) /\ x = Prefix(p, Len(a))
    BY <1>1, <1>2 DEF Prefix
  <2>2. x \in Key /\ Len(x) = Len(a) /\ \A i \in 1..Len(a) : x[i] = p[i]
    BY <2>1, PrefixKey
  <2> HIDE DEF x
  <2>3. x \in Seq(Nat) /\ \A i \in 1..Len(x) : x[i] = a[i]
    BY <1>2, <2>2 DEF Key
  <2> QED BY <1>3, <2>2, <2>3, SeqEqual
<1>6. x \o SubSeq(p, Len(a) + 1, Len(p)) = SubSeq(p, 1, Len(p))
  <2>1. 1 \in 1..(Len(p) + 1) /\ Len(a) \in (1 - 1)..Len(p) /\ Len(p) \in Len(a)..Len(p)
    BY <1>1, <1>2
  <2> QED BY <1>3, <2>1, ConcatAdjacentSubSeq
<1>7. SubSeq(p, 1, Len(p)) = p
  BY <1>3, SubSeqFull
<1> QED BY <1>4, <1>5, <1>6, <1>7 DEF Key

\* Joining more segments leads below.
LEMMA JoinsGrow ==
  ASSUME NEW q \in Seq(Segment), NEW t \in Seq(Segment)
  PROVE  /\ \A n \in 0..Len(q) : Joins(q \o t)[n] = Joins(q)[n]
         /\ \A n \in 1..Len(t) :
              StartsWith(Joins(q \o t)[Len(q) + n], Output(Joins(q)[Len(q)]))
<1> DEFINE u == q \o t
           J == Joins(u)
           Q == Joins(q)
           M == Len(q)
           N == Len(t)
<1>1. M \in Nat /\ N \in Nat /\ q \in Seq(Key)
  BY SegmentsAreKeys
<1>2. /\ u \in Seq(Segment) /\ Len(u) = M + N
      /\ \A i \in 1..(M + N) : u[i] = IF i <= M THEN q[i] ELSE t[i - M]
  BY ConcatProperties
<1>3. /\ Q[0] = <<>> /\ (\A n \in 1..M : Q[n] = Output(Q[n - 1]) \o q[n])
      /\ \A n \in 0..M : Q[n] \in Key
  BY <1>1, JoinsIs
<1> HIDE DEF u
<1>4. /\ J[0] = <<>> /\ (\A n \in 1..(M + N) : J[n] = Output(J[n - 1]) \o u[n])
      /\ (\A n \in 0..(M + N) : J[n] \in Key) /\ \A n \in 1..(M + N) : u[n] \in Key
  <2>1. u \in Seq(Key) /\ \A n \in 1..Len(u) : u[n] \in Key
    BY <1>2, SegmentsAreKeys
  <2>2. /\ J[0] = <<>> /\ (\A n \in 1..Len(u) : J[n] = Output(J[n - 1]) \o u[n])
        /\ \A n \in 0..Len(u) : J[n] \in Key
    BY <2>1, JoinsIs
  <2> HIDE DEF J, M, N
  <2> QED BY <1>2, <2>1, <2>2
<1> HIDE DEF J, Q, M, N
<1>5. \A n \in 0..M : J[n] = Q[n]
  <2> DEFINE T == {n \in 0..M : J[n] = Q[n]}
  <2>1. 0 \in T
    <3>1. 0 \in 0..M /\ J[0] = Q[0]
      BY <1>1, <1>3, <1>4
    <3> QED BY <3>1
  <2>2. ASSUME NEW n \in 1..M, n - 1 \in T PROVE n \in T
    <3>1. n \in 1..(M + N) /\ n <= M /\ n \in 0..M
      BY <1>1
    <3>2. u[n] = q[n] /\ J[n - 1] = Q[n - 1]
      BY <1>2, <2>2, <3>1
    <3>3. J[n] = Q[n]
      BY <1>3, <1>4, <3>1, <3>2
    <3> QED BY <3>1, <3>3
  <2>3. \A n \in 0..M : n \in T
    <3> HIDE DEF T
    <3> QED BY <1>1, <2>1, <2>2, Induct
  <2> QED BY <2>3
<1> DEFINE o == Output(Q[M])
<1>6. M \in 0..M /\ Q[M] \in Key /\ o \in Key
  BY <1>1, <1>3, OutputKey
<1> HIDE DEF o
<1>7. \A n \in 0..N : n # 0 => StartsWith(J[M + n], o)
  <2> DEFINE T == {n \in 0..N : n # 0 => StartsWith(J[M + n], o)}
  <2>1. 0 \in T
    BY <1>1
  <2>2. ASSUME NEW n \in 1..N, n - 1 \in T PROVE n \in T
    <3> DEFINE k == M + n
               b == J[k - 1]
    <3>1. k \in 1..(M + N) /\ k - 1 \in 0..(M + N) /\ k \in 0..(M + N) /\ k - 1 = M + (n - 1)
      BY <1>1
    <3>2. J[k] = Output(b) \o u[k] /\ b \in Key /\ u[k] \in Key /\ J[k] \in Key
      BY <1>4, <3>1
    <3> HIDE DEF b
    <3>3. Output(b) \in Key /\ StartsWith(J[k], Output(b))
      BY <3>2, OutputKey, StartsConcat
    <3>4. CASE n = 1
      <4>1. k - 1 = M
        BY <1>1, <3>4
      <4>2. Output(b) = o
        BY <1>5, <1>6, <4>1 DEF b, o
      <4> QED BY <3>3, <4>2
    <3>5. CASE n # 1
      <4>1. n - 1 # 0 /\ n - 1 \in 0..N
        BY <1>1, <3>5
      <4>2. StartsWith(J[M + (n - 1)], o)
        BY <2>2, <4>1
      <4>3. StartsWith(b, o)
        BY <3>1, <4>2 DEF b
      <4>4. StartsWith(Output(b), b)
        <5>1. Len(Output(b)) = Len(b) + 1 /\ \A i \in 1..Len(b) : Output(b)[i] = b[i]
          BY <3>2, OutputKey
        <5>2. Len(b) \in Nat
          BY <3>2, KeyType
        <5> QED BY <5>1, <5>2 DEF StartsWith
      <4>5. StartsWith(J[k], b)
        BY <3>2, <3>3, <4>4, StartsTransitive
      <4>6. StartsWith(J[k], o)
        BY <1>6, <3>2, <4>3, <4>5, StartsTransitive
      <4> QED BY <4>6
    <3> QED BY <3>4, <3>5
  <2>3. \A n \in 0..N : n \in T
    <3> HIDE DEF T
    <3> QED BY <1>1, <2>1, <2>2, Induct
  <2> QED BY <2>3
<1>8. \A n \in 1..N : StartsWith(J[M + n], o)
  BY <1>7
<1> QED BY <1>5, <1>8 DEF u, J, Q, M, N, o

\* A path of more plain segments is under the path of fewer.
LEMMA AbsoluteUnder ==
  ASSUME NEW q \in Seq(PlainSegment), NEW t \in Seq(PlainSegment)
  PROVE  q \o t \in Seq(PlainSegment) /\ Under(Absolute(q \o t), Absolute(q))
<1> DEFINE u == q \o t
<1>1. q \in Seq(Segment) /\ t \in Seq(Segment) /\ Len(t) \in Nat /\ Len(q) \in Nat
  BY PlainsAre
<1>2. u \in Seq(PlainSegment) /\ Len(u) = Len(q) + Len(t)
  BY ConcatProperties
<1>3. CASE q = <<>>
  <2>1. Absolute(q) = <<Slash>>
    BY <1>3 DEF Absolute
  <2> QED BY <1>2, <2>1 DEF Under
<1>4. CASE t = <<>>
  <2>1. u = q
    BY <1>4, ConcatEmptySeq
  <2>2. Under(Absolute(u), Absolute(q))
    <3> HIDE DEF u
    <3> QED BY <2>1 DEF Under
  <2> QED BY <1>2, <2>2
<1>5. CASE q # <<>> /\ t # <<>>
  <2>1. Len(t) \in 1..Len(t) /\ Len(q) \in 0..Len(q)
    BY <1>1, <1>5, EmptySeq
  <2>2. u # <<>>
    BY <1>1, <1>2, <2>1
  <2>3. StartsWith(Joins(u)[Len(q) + Len(t)], Output(Joins(q)[Len(q)]))
    BY <1>1, <2>1, JoinsGrow
  <2> HIDE DEF u
  <2>4. Absolute(u) = Joins(u)[Len(q) + Len(t)] /\ Absolute(q) = Joins(q)[Len(q)]
    BY <1>2, <1>5, <2>2 DEF Absolute
  <2>5. Under(Absolute(u), Absolute(q))
    BY <2>3, <2>4 DEF Under
  <2> QED BY <1>2, <2>5 DEF u
<1> QED BY <1>3, <1>4, <1>5

\* An absolute path begins with a slash.
LEMMA AbsoluteLeads ==
  ASSUME NEW w \in Seq(PlainSegment)
  PROVE  /\ Len(Absolute(w)) \in Nat \ {0} /\ Absolute(w)[1] = Slash
         /\ StartsWith(Absolute(w), <<Slash>>)
<1> DEFINE p == Absolute(w)
<1>1. w \in Seq(Segment) /\ Len(w) \in Nat /\ p \in Key
  BY PlainsAre, NormalizeAbsolute
<1>2. Len(p) \in Nat
  BY <1>1, KeyType
<1>3. StartsWith(p, <<Slash>>)
  <2>1. CASE w = <<>>
    <3>1. p = <<Slash>>
      BY <2>1 DEF Absolute
    <3> QED BY <3>1 DEF StartsWith
  <2>2. CASE w # <<>>
    <3>1. Len(w) \in 1..Len(w) /\ <<>> \in Seq(Segment) /\ <<>> \o w = w /\ <<>> \in Seq(Key)
      BY <1>1, <2>2, EmptySeq, ConcatEmptySeq
    <3>2. Len(<<>>) = 0 /\ Len(<<>>) + Len(w) = Len(w)
      BY <1>1
    <3>3. StartsWith(Joins(<<>> \o w)[Len(<<>>) + Len(w)], Output(Joins(<<>>)[Len(<<>>)]))
      BY <1>1, <3>1, JoinsGrow
    <3>4. Joins(<<>>)[0] = <<>>
      BY <3>1, JoinsIs
    <3>5. Output(<<>>) = <<Slash>>
      BY DEF Output
    <3>6. StartsWith(Joins(w)[Len(w)], <<Slash>>)
      BY <3>1, <3>2, <3>3, <3>4, <3>5
    <3> QED BY <2>2, <3>6 DEF Absolute
  <2> QED BY <2>1, <2>2
<1> HIDE DEF p
<1>4. Len(p) >= 1 /\ p[1] = Slash
  BY <1>3 DEF StartsWith
<1> QED BY <1>2, <1>3, <1>4 DEF p

-----------------------------------------------------------------------------
(* Keys.                                                                   *)

\* trim_start_matches leaves a key, and one that does not begin with a slash as it is.
LEMMA TrimmedType ==
  ASSUME NEW k \in Key
  PROVE  /\ Trimmed(k) \in Key
         /\ k # <<>> /\ k[1] # Slash => Trimmed(k) = k
<1> DEFINE L == Len(k)
           T == {i \in 1..L : k[i] = Slash}
           Stops(n) == (\A i \in 1..n : k[i] = Slash) /\ (n < L => k[n + 1] # Slash)
           c == CHOOSE n \in 0..L : Stops(n)
<1>1. L \in Nat /\ (\A i \in 1..L : k[i] \in Nat) /\ k \in Seq(Nat)
  BY KeyType DEF Key
<1>2. \E n \in 0..L : (\A i \in 1..n : i \in T) /\ (n < L => n + 1 \notin T)
  <2> HIDE DEF T
  <2> QED BY <1>1, SplitPoint
<1>3. \E n \in 0..L : Stops(n)
  <2>1. PICK n \in 0..L : (\A i \in 1..n : i \in T) /\ (n < L => n + 1 \notin T)
    BY <1>2
  <2>2. \A i \in 1..n : k[i] = Slash
    BY <2>1
  <2>3. n < L => n + 1 \in 1..L
    BY <1>1
  <2>4. n < L => k[n + 1] # Slash
    BY <2>1, <2>3
  <2> QED BY <2>2, <2>4
<1>4. Trimmed(k) = SubSeq(k, c + 1, L)
  BY DEF Trimmed
<1> HIDE DEF Stops
<1>5. c \in 0..L /\ Stops(c)
  BY <1>3
<1> HIDE DEF c
<1>6. Trimmed(k) \in Key
  <2>1. \A i \in (c + 1)..L : k[i] \in Nat
    BY <1>1, <1>5
  <2>2. c + 1 \in Int /\ L \in Int
    BY <1>1, <1>5
  <2> HIDE DEF L
  <2> QED BY <1>4, <2>1, <2>2, SubSeqProperties DEF Key
<1>7. ASSUME k # <<>>, k[1] # Slash PROVE Trimmed(k) = k
  <2>1. c = 0
    <3>1. ~(1 \in 1..c)
      BY <1>5, <1>7 DEF Stops
    <3> QED BY <1>1, <1>5, <3>1
  <2>2. SubSeq(k, 1, L) = k
    BY <1>1, SubSeqFull
  <2>3. c + 1 = 1
    BY <2>1
  <2> QED BY <1>4, <2>2, <2>3
<1> QED BY <1>6, <1>7

\* A key whose first segment is not empty does not begin with a slash.
LEMMA FirstPlain ==
  ASSUME NEW k \in Key, Plain(Split(k)[1])
  PROVE  k # <<>> /\ k[1] # Slash /\ Trimmed(k) = k
<1> DEFINE one == << <<>> >>
<1>1. Split(<<>>) = one /\ one[1] = <<>> /\ ~Plain(<<>>)
  BY EmptySegment, SplitSegment DEF Plain
<1>2. k # <<>>
  BY <1>1
<1>3. ASSUME k[1] = Slash PROVE FALSE
  <2> DEFINE o == Output(<<>>)
             b == SubSeq(k, Len(o) + 1, Len(k))
             s == Split(b)
  <2>1. o = <<Slash>> /\ o \in Key
    <3>1. o = <<Slash>>
      BY DEF Output
    <3>2. o \in Key
      BY EmptySegment, OutputKey
    <3> QED BY <3>1, <3>2
  <2>2. Len(k) \in Nat /\ Len(k) # 0
    BY <1>2, KeyType, EmptySeq DEF Key
  <2>3. StartsWith(k, <<Slash>>)
    <3>1. Len(<<Slash>>) = 1 /\ <<Slash>>[1] = Slash /\ Len(k) >= 1
      BY <2>2
    <3>2. \A j \in 1..1 : j = 1
      OBVIOUS
    <3> QED BY <1>3, <3>1, <3>2 DEF StartsWith
  <2> HIDE DEF o
  <2>a. o \in Key /\ StartsWith(k, o)
    BY <2>1, <2>3
  <2>4. b \in Key /\ k = o \o b
    BY <2>a, StartsRest
  <2> HIDE DEF b
  <2>5. Split(k) = one \o s
    BY <1>1, <2>4, EmptySegment, SplitAtSlash DEF o
  <2>6. one \in Seq(Segment) /\ Len(one) = 1 /\ s \in Seq(Segment) /\ Len(s) \in Nat
    BY <2>4, EmptySegment, SplitType
  <2> HIDE DEF one, s
  <2>7. 1 \in 1..(Len(one) + Len(s)) /\ 1 <= Len(one)
    BY <2>6
  <2>8. (one \o s)[1] = one[1]
    BY <2>6, <2>7, ConcatProperties
  <2> QED BY <1>1, <2>5, <2>8
<1>4. k[1] # Slash
  BY <1>3
<1> QED BY <1>2, <1>4, TrimmedType

\* A path found for a key is in normal form, below the root.
LEMMA FoundPath ==
  ASSUME NEW q \in Seq(PlainSegment), NEW k \in Key, NEW p,
         p = key_to_hdfs_path(Absolute(q), k), p # None
  PROVE  Under(p, Absolute(q)) /\ \E w \in Seq(PlainSegment) : p = Absolute(w)
<1> DEFINE j == join_root(Absolute(q), Trimmed(k))
<1>1. j \in Key
  BY TrimmedType, JoinRootSplits
<1>2. p = normalize_abs(j) /\ Under(p, Absolute(q))
  BY DEF key_to_hdfs_path
<1> HIDE DEF j
<1>3. \E w \in Seq(PlainSegment) : normalize_abs(j) = Absolute(w) /\ w = Kept(Split(j))
  BY <1>1, <1>2, NormalizeType
<1> QED BY <1>2, <1>3

\* The path of a key of plain segments, with or without a slash behind it.
LEMMA ObjectPath ==
  ASSUME NEW q \in Seq(PlainSegment), NEW k \in Key, Split(k) \in Seq(PlainSegment)
  PROVE  /\ key_to_hdfs_path(Absolute(q), k) = Absolute(q \o Split(k))
         /\ key_to_hdfs_path(Absolute(q), Output(k)) = Absolute(q \o Split(k))
<1> DEFINE s == Split(k)
           r == Absolute(q)
           x == Absolute(q \o s)
           o == Output(k)
<1>1. s \in Seq(PlainSegment) /\ Len(s) \in Nat \ {0}
  BY SplitType
<1>2. Plain(s[1])
  <2>1. 1 \in 1..Len(s)
    BY <1>1
  <2> HIDE DEF s
  <2>2. s[1] \in PlainSegment
    BY <1>1, <2>1, ElementOfSeq
  <2> QED BY <2>2 DEF PlainSegment
<1>3. k # <<>> /\ k[1] # Slash /\ Trimmed(k) = k
  BY <1>2, FirstPlain
<1>4. o \in Key /\ o # <<>> /\ o[1] # Slash
  <2>1. /\ o \in Key /\ Len(o) = Len(k) + 1 /\ \A i \in 1..Len(k) : o[i] = k[i]
    BY OutputKey
  <2>2. Len(k) \in Nat /\ Len(k) # 0
    BY <1>3, KeyType, EmptySeq DEF Key
  <2>3. 1 \in 1..Len(k)
    BY <2>2
  <2> HIDE DEF o
  <2>4. Len(o) # 0 /\ Len(<<>>) = 0
    BY <2>1, <2>2
  <2> QED BY <1>3, <2>1, <2>3, <2>4
<1>5. Trimmed(o) = o
  BY <1>4, TrimmedType
<1>6. /\ normalize_abs(join_root(r, k)) = x /\ normalize_abs(join_root(r, o)) = x
      /\ q \o s \in Seq(PlainSegment)
  BY NormalizeBelow
<1>7. x # None
  BY <1>6, NormalizeAbsolute
<1>8. Under(x, r)
  BY <1>1, AbsoluteUnder
<1> HIDE DEF o, s, x, r
<1>9. key_to_hdfs_path(r, k) = x
  BY <1>3, <1>6, <1>7, <1>8 DEF key_to_hdfs_path
<1>10. key_to_hdfs_path(r, o) = x
  BY <1>4, <1>5, <1>6, <1>7, <1>8 DEF key_to_hdfs_path
<1> QED BY <1>9, <1>10 DEF o, s, x, r

\* Of plain segments both halves are.
LEMMA HalvesPlain ==
  ASSUME NEW s \in Seq(Segment), NEW t \in Seq(Segment), s \o t \in Seq(PlainSegment)
  PROVE  s \in Seq(PlainSegment) /\ t \in Seq(PlainSegment)
<1> DEFINE u == s \o t
           M == Len(s)
           N == Len(t)
<1>1. /\ M \in Nat /\ N \in Nat /\ Len(u) = M + N
      /\ \A i \in 1..(M + N) : u[i] = IF i <= M THEN s[i] ELSE t[i - M]
  BY ConcatProperties, LenProperties
<1>2. \A i \in 1..(M + N) : u[i] \in PlainSegment
  <2> HIDE DEF M, N
  <2>1. u \in Seq(PlainSegment)
    OBVIOUS
  <2> HIDE DEF u
  <2> QED BY <1>1, <2>1, ElementOfSeq
<1> HIDE DEF u
<1>3. \A i \in 1..M : s[i] \in PlainSegment
  <2> SUFFICES ASSUME NEW i \in 1..M PROVE s[i] \in PlainSegment
    OBVIOUS
  <2>1. i \in 1..(M + N) /\ i <= M
    BY <1>1
  <2> QED BY <1>1, <1>2, <2>1
<1>4. \A i \in 1..N : t[i] \in PlainSegment
  <2> SUFFICES ASSUME NEW i \in 1..N PROVE t[i] \in PlainSegment
    OBVIOUS
  <2>1. M + i \in 1..(M + N) /\ ~(M + i <= M) /\ (M + i) - M = i
    BY <1>1
  <2>2. u[M + i] = t[i]
    BY <1>1, <2>1
  <2> QED BY <1>2, <2>1, <2>2
<1>5. SubSeq(s, 1, M) = s /\ SubSeq(t, 1, N) = t
  BY SubSeqFull
<1> HIDE DEF M, N
<1>6. 1 \in Int /\ M \in Int /\ N \in Int
  BY <1>1
<1>7. SubSeq(s, 1, M) \in Seq(PlainSegment)
  BY <1>3, <1>6, SubSeqProperties
<1>8. SubSeq(t, 1, N) \in Seq(PlainSegment)
  BY <1>4, <1>6, SubSeqProperties
<1> QED BY <1>5, <1>7, <1>8

-----------------------------------------------------------------------------
(* The three properties of a mapper whose root is in normal form.          *)

\* The inductive invariant of the mapper.
RootInv ==
  /\ key \in Key
  /\ root = None \/ \E q \in Seq(PlainSegment) : root = Absolute(q)

\* StaysUnderRoot follows: FoundPath, and the segments of a normal form.
LEMMA PathsStayUnder == RootInv => StaysUnderRoot
<1> DEFINE path == IF root = None THEN None ELSE key_to_hdfs_path(root, key)
<1> SUFFICES ASSUME RootInv, path # None
             PROVE  /\ root = <<Slash>> \/ path = root
                         \/ (Len(path) > Len(root) /\ StartsWith(path, root) /\ path[Len(root) + 1] = Slash)
                    /\ path[1] = Slash
                    /\ path # <<Slash>> => \A i \in 2..Len(Split(path)) : Plain(Split(path)[i])
  BY DEF StaysUnderRoot
<1>1. root # None /\ path = key_to_hdfs_path(root, key)
  OBVIOUS
<1>2. PICK q \in Seq(PlainSegment) : root = Absolute(q)
  BY <1>1 DEF RootInv
<1>3. key \in Key
  BY DEF RootInv
<1> HIDE DEF path
<1>4. Under(path, root) /\ \E w \in Seq(PlainSegment) : path = Absolute(w)
  BY <1>1, <1>2, <1>3, FoundPath
<1>5. PICK w \in Seq(PlainSegment) : path = Absolute(w)
  BY <1>4
<1>6. path \in Key /\ root \in Key /\ (path = <<Slash>> <=> w = <<>>)
  BY <1>2, <1>5, NormalizeAbsolute
<1>7. root = <<Slash>> \/ path = root
         \/ (Len(path) > Len(root) /\ StartsWith(path, root) /\ path[Len(root) + 1] = Slash)
  BY <1>4, <1>6, StraddlerExact DEF Under
<1>8. path[1] = Slash
  BY <1>5, AbsoluteLeads
<1>9. ASSUME path # <<Slash>>, NEW i \in 2..Len(Split(path)) PROVE Plain(Split(path)[i])
  <2> DEFINE one == << <<>> >>
  <2>1. w # <<>> /\ w \in Seq(Segment) /\ one \in Seq(Segment) /\ Len(one) = 1 /\ Len(w) \in Nat
    BY <1>6, <1>9, PlainsAre, EmptySegment
  <2>2. Split(path) = one \o w
    BY <1>5, <2>1, SplitAbsolute
  <2> HIDE DEF one
  <2>3. /\ Len(one \o w) = 1 + Len(w)
        /\ \A j \in 1..(1 + Len(w)) : (one \o w)[j] = IF j <= 1 THEN one[j] ELSE w[j - 1]
    <3>1. /\ Len(one \o w) = Len(one) + Len(w)
          /\ \A j \in 1..(Len(one) + Len(w)) :
               (one \o w)[j] = IF j <= Len(one) THEN one[j] ELSE w[j - Len(one)]
      BY <2>1, ConcatProperties
    <3> QED BY <2>1, <3>1
  <2>4. i \in 2..(1 + Len(w))
    BY <2>2, <2>3
  <2>5. i \in 1..(1 + Len(w)) /\ ~(i <= 1) /\ i - 1 \in 1..Len(w)
    BY <2>1, <2>4
  <2>6. Split(path)[i] = w[i - 1]
    BY <2>2, <2>3, <2>5
  <2>7. w[i - 1] \in PlainSegment
    BY <2>5, ElementOfSeq
  <2> QED BY <2>6, <2>7 DEF PlainSegment
<1> QED BY <1>7, <1>8, <1>9

\* ListedKeyIsFound follows: what is behind the root splits into the rest of the segments.
LEMMA ListedKeys == RootInv => ListedKeyIsFound
<1> DEFINE path == IF root = None THEN None ELSE key_to_hdfs_path(root, key)
           k == hdfs_path_to_key(root, path)
<1> SUFFICES ASSUME RootInv, path # None, path # root
             PROVE  k \notin {None, <<>>} /\ key_to_hdfs_path(root, k) = path
  BY DEF ListedKeyIsFound
<1>1. root # None /\ path = key_to_hdfs_path(root, key)
  OBVIOUS
<1>2. PICK q \in Seq(PlainSegment) : root = Absolute(q)
  BY <1>1 DEF RootInv
<1>3. key \in Key
  BY DEF RootInv
<1> HIDE DEF path
<1>4. Under(path, root) /\ \E w \in Seq(PlainSegment) : path = Absolute(w)
  BY <1>1, <1>2, <1>3, FoundPath
<1>5. PICK w \in Seq(PlainSegment) : path = Absolute(w)
  BY <1>4
<1>6. /\ path \in Key /\ root \in Key /\ (path = <<Slash>> <=> w = <<>>)
      /\ normalize_abs(path) = path
  BY <1>2, <1>5, NormalizeAbsolute
<1> DEFINE lead == IF root = <<Slash>> THEN root ELSE Output(root)
<1>7. lead \in Key /\ StartsWith(path, lead)
  <2>1. CASE root = <<Slash>>
    BY <1>5, <1>6, <2>1, AbsoluteLeads
  <2>2. CASE root # <<Slash>>
    <3>1. StartsWith(path, Output(root))
      BY <1>4, <2>2 DEF Under
    <3> QED BY <1>6, <2>2, <3>1, OutputKey
  <2> QED BY <2>1, <2>2
<1>8. k = SubSeq(path, Len(lead) + 1, Len(path))
  BY <1>6, <1>7 DEF hdfs_path_to_key
<1>9. w # <<>>
  <2> SUFFICES ASSUME w = <<>> PROVE FALSE
    OBVIOUS
  <2>1. path = <<Slash>> /\ root # <<Slash>> /\ Len(path) = 1
    BY <1>6
  <2>2. StartsWith(path, Output(root)) /\ Len(Output(root)) = Len(root) + 1
    BY <1>6, <1>7, <2>1, OutputKey
  <2>3. Len(root) \in Nat \ {0}
    BY <1>2, AbsoluteLeads
  <2> QED BY <2>1, <2>2, <2>3 DEF StartsWith
<1> HIDE DEF lead, k
<1>10. k \in Key /\ path = lead \o k
  BY <1>6, <1>7, <1>8, StartsRest
<1> DEFINE one == << <<>> >>
           s == Split(k)
<1>11. join_root(root, k) = path /\ Split(path) = one \o (q \o s)
  <2>1. /\ Split(join_root(root, k)) = one \o (q \o s)
        /\ join_root(root, k) = lead \o k
    BY <1>2, <1>10, JoinRootSplits DEF lead
  <2> QED BY <1>10, <2>1
<1>12. /\ one \in Seq(Segment) /\ q \in Seq(Segment) /\ s \in Seq(Segment) /\ w \in Seq(Segment)
       /\ Len(s) \in Nat \ {0}
  BY <1>10, EmptySegment, PlainsAre, SplitType
<1>13. Split(path) = one \o w
  BY <1>5, <1>9, <1>12, SplitAbsolute
<1>14. q \o s = w
  <2> HIDE DEF one, s
  <2> DEFINE v == q \o s
  <2>1. v \in Seq(Segment)
    BY <1>12, ConcatProperties
  <2> HIDE DEF v
  <2>2. one \o v = one \o w
    BY <1>11, <1>13 DEF v
  <2>3. v = w
    BY <1>12, <2>1, <2>2, ConcatSimplifications
  <2> QED BY <2>3 DEF v
<1>15. s \in Seq(PlainSegment)
  <2> HIDE DEF s
  <2>1. q \o s \in Seq(PlainSegment)
    BY <1>14
  <2> QED BY <1>12, <2>1, HalvesPlain
<1>16. Plain(s[1])
  <2> HIDE DEF s
  <2>1. 1 \in 1..Len(s)
    BY <1>12
  <2>2. s[1] \in PlainSegment
    BY <1>15, <2>1, ElementOfSeq
  <2> QED BY <2>2 DEF PlainSegment
<1>17. k # <<>> /\ k # None
  BY <1>10, <1>16, FirstPlain, PathAssumption
<1>18. key_to_hdfs_path(root, k) = path
  <2>1. key_to_hdfs_path(root, k) = Absolute(q \o s)
    BY <1>2, <1>10, <1>15, ObjectPath
  <2> HIDE DEF s
  <2> QED BY <1>5, <1>14, <2>1
<1> QED BY <1>17, <1>18

\* The keys files can have split into plain segments.
LEMMA ObjectKeyPlain ==
  ASSUME NEW k \in ObjectKeys
  PROVE  k \in Key /\ Split(k) \in Seq(PlainSegment)
<1>1. Alphabet \subseteq Nat
  BY PathAssumption DEF Alphabet, Slash, Dot
<1>2. PICK n \in 1..MaxMatch : k \in [1..n -> Alphabet]
  BY DEF ObjectKeys
<1>3. n \in Nat
  BY PathAssumption
<1>4. k \in Key
  <2>1. k \in [1..n -> Nat]
    BY <1>1, <1>2
  <2> QED BY <1>3, <2>1 DEF Key
<1> DEFINE s == Split(k)
<1>5. s \in Seq(Segment) /\ Len(s) \in Nat
  BY <1>4, SplitType
<1>6. \A i \in 1..Len(s) : s[i] \in PlainSegment
  <2>1. \A i \in 1..Len(s) : Plain(s[i])
    BY DEF ObjectKeys
  <2> HIDE DEF s
  <2>2. \A i \in 1..Len(s) : s[i] \in Segment
    BY <1>5, ElementOfSeq
  <2> QED BY <2>1, <2>2 DEF PlainSegment
<1> HIDE DEF s
<1>7. SubSeq(s, 1, Len(s)) = s
  BY <1>5, SubSeqFull
<1>8. SubSeq(s, 1, Len(s)) \in Seq(PlainSegment)
  BY <1>5, <1>6, SubSeqProperties
<1> QED BY <1>4, <1>7, <1>8 DEF s

\* ListStartCovers follows: the prefix's directory part is a list of leading segments.
LEMMA ListingCovers == RootInv => ListStartCovers
<1> DEFINE start == list_start(root, key)
           slashes == {i \in 1..Len(key) : key[i] = Slash}
<1> SUFFICES ASSUME RootInv, root # None, start # None, NEW k \in ObjectKeys, StartsWith(k, key)
             PROVE  Under(key_to_hdfs_path(root, k), start)
  BY DEF ListStartCovers
<1>1. key \in Key /\ Len(key) \in Nat
  BY KeyType DEF RootInv
<1>2. PICK q \in Seq(PlainSegment) : root = Absolute(q)
  BY DEF RootInv
<1>3. k \in Key /\ Split(k) \in Seq(PlainSegment)
  BY ObjectKeyPlain
<1>4. key_to_hdfs_path(root, k) = Absolute(q \o Split(k))
  BY <1>2, <1>3, ObjectPath
<1>5. CASE slashes = {}
  <2>1. start = root
    BY <1>5 DEF list_start
  <2>2. Under(Absolute(q \o Split(k)), Absolute(q))
    BY <1>3, AbsoluteUnder
  <2> HIDE DEF start
  <2> QED BY <1>2, <1>4, <2>1, <2>2
<1>6. CASE slashes # {}
  <2> DEFINE last == CHOOSE i \in slashes : \A j \in slashes : j <= i
  <2>1. start = key_to_hdfs_path(root, Prefix(key, last))
    BY <1>6 DEF list_start
  <2>2. \E i \in slashes : \A j \in slashes : j <= i
    <3>1. slashes \subseteq 1..Len(key)
      OBVIOUS
    <3> HIDE DEF slashes
    <3> QED BY <1>1, <1>6, <3>1, GreatestIndex
  <2>3. last \in slashes
    <3> HIDE DEF slashes
    <3> QED BY <2>2
  <2>4. last \in 1..Len(key) /\ key[last] = Slash
    <3> HIDE DEF last
    <3> QED BY <2>3
  <2> HIDE DEF last, start
  <2> DEFINE a == Prefix(key, last - 1)
             o == Output(a)
             x == Prefix(key, last)
  <2>5. last - 1 \in 0..Len(key) /\ last \in 0..Len(key)
    BY <1>1, <2>4
  <2>6. a \in Key /\ Len(a) = last - 1 /\ \A i \in 1..(last - 1) : a[i] = key[i]
    BY <1>1, <2>5, PrefixKey
  <2>7. x \in Key /\ Len(x) = last /\ \A i \in 1..last : x[i] = key[i]
    BY <1>1, <2>5, PrefixKey
  <2> HIDE DEF a, x
  <2>8. /\ o \in Key /\ Len(o) = Len(a) + 1 /\ (\A i \in 1..Len(a) : o[i] = a[i])
        /\ o[Len(a) + 1] = Slash
    BY <2>6, OutputKey
  <2> HIDE DEF o
  <2>9. \A i \in 1..last : o[i] = key[i]
    <3> SUFFICES ASSUME NEW i \in 1..last PROVE o[i] = key[i]
      OBVIOUS
    <3>1. i \in 1..(last - 1) \/ i = last
      BY <2>5
    <3>2. (last - 1) + 1 = last
      BY <2>5
    <3> QED BY <2>4, <2>6, <2>8, <3>1, <3>2
  <2>10. Len(o) = last
    BY <2>5, <2>6, <2>8
  <2>11. x = o
    <3>1. x \in Seq(Nat) /\ o \in Seq(Nat) /\ Len(x) = Len(o) /\ \A i \in 1..Len(x) : x[i] = o[i]
      BY <2>7, <2>8, <2>9, <2>10 DEF Key
    <3> QED BY <3>1, SeqEqual
  <2>12. StartsWith(key, o)
    BY <2>4, <2>9, <2>10 DEF StartsWith
  <2>13. StartsWith(k, o)
    BY <1>1, <1>3, <2>8, <2>12, StartsTransitive
  <2> DEFINE b == SubSeq(k, Len(o) + 1, Len(k))
  <2>14. b \in Key /\ k = o \o b
    BY <1>3, <2>8, <2>13, StartsRest
  <2> HIDE DEF b
  <2> DEFINE s == Split(a)
             t == Split(b)
  <2>15. Split(k) = s \o t
    BY <2>6, <2>14, SplitAtSlash DEF o
  <2>16. s \in Seq(Segment) /\ t \in Seq(Segment)
    BY <2>6, <2>14, SplitType
  <2> HIDE DEF s, t
  <2>17. s \in Seq(PlainSegment) /\ t \in Seq(PlainSegment)
    <3>1. s \o t \in Seq(PlainSegment)
      BY <1>3, <2>15
    <3> QED BY <2>16, <3>1, HalvesPlain
  <2>18. start = Absolute(q \o s)
    <3>1. key_to_hdfs_path(Absolute(q), Output(a)) = Absolute(q \o Split(a))
      BY <2>6, <2>17, ObjectPath DEF s
    <3> QED BY <1>2, <2>1, <2>11, <3>1 DEF x, o, s
  <2>19. q \o s \in Seq(PlainSegment)
    BY <2>17, ConcatProperties
  <2>20. Under(Absolute((q \o s) \o t), Absolute(q \o s))
    <3> DEFINE v == q \o s
    <3>1. v \in Seq(PlainSegment)
      BY <2>19
    <3> HIDE DEF v
    <3>2. Under(Absolute(v \o t), Absolute(v))
      BY <2>17, <3>1, AbsoluteUnder
    <3> QED BY <3>2 DEF v
  <2>21. (q \o s) \o t = q \o (s \o t)
    <3>1. q \in Seq(Segment)
      BY PlainsAre
    <3> QED BY <2>16, <3>1, SegmentsAssociate
  <2> QED BY <1>4, <2>15, <2>18, <2>20, <2>21
<1> QED BY <1>5, <1>6

\* normalize_root returns a path in normal form.
LEMMA NormalizeRootType ==
  ASSUME NEW r \in Key
  PROVE  \E q \in Seq(PlainSegment) : normalize_root(r) = Absolute(q)
<1> DEFINE p == IF StartsWith(r, <<Slash>>) THEN r ELSE <<Slash>> \o r
<1>1. <<Slash>> \in Key
  BY DEF Key, Slash
<1>2. p \in Key
  BY <1>1, ConcatKey
<1>3. normalize_root(r) = IF normalize_abs(p) = None THEN <<Slash>> ELSE normalize_abs(p)
  BY DEF normalize_root
<1> HIDE DEF p
<1>4. CASE normalize_abs(p) = None
  <2>1. <<>> \in Seq(PlainSegment) /\ Absolute(<<>>) = <<Slash>>
    BY EmptySeq DEF Absolute
  <2> QED BY <1>3, <1>4, <2>1
<1>5. CASE normalize_abs(p) # None
  BY <1>2, <1>3, <1>5, NormalizeType
<1> QED BY <1>4, <1>5

-----------------------------------------------------------------------------
(* The mapper's root is in normal form from the moment it is set.          *)

\* Every step keeps RootInv.
LEMMA StepKeepsRoot == RootInv /\ [Next]_<<configVars, mapperVars>> => RootInv'
<1> SUFFICES ASSUME RootInv, [Next]_<<configVars, mapperVars>> PROVE RootInv'
  OBVIOUS
<1>1. CASE UNCHANGED mapperVars
  BY <1>1 DEF RootInv, mapperVars
<1>2. CASE New
  <2>1. PICK r \in IF loaded.config["hdfs_root"].from = "default" THEN {<<Slash>>} ELSE Roots :
               root' = normalize_root(r)
    BY <1>2 DEF New
  <2>2. <<Slash>> \in Key
    BY DEF Key, Slash
  <2>3. r \in Key
    BY <2>1, <2>2, PathAssumption
  <2>4. \E q \in Seq(PlainSegment) : root' = Absolute(q)
    BY <2>1, <2>3, NormalizeRootType
  <2>5. key' = key
    BY <1>2 DEF New
  <2> QED BY <2>4, <2>5 DEF RootInv
<1>3. CASE Ask
  <2>1. PICK x \in Alphabet : key' = Append(key, x) /\ root' = root
    BY <1>3 DEF Ask
  <2>2. x \in Nat
    BY PathAssumption DEF Alphabet, Slash, Dot
  <2>3. key' \in Key
    BY <2>1, <2>2, AppendProperties DEF RootInv, Key
  <2> QED BY <2>1, <2>3 DEF RootInv
<1>4. UNCHANGED mapperVars \/ New \/ Ask
  BY DEF Next, Set, Unset, Load
<1> QED BY <1>1, <1>2, <1>3, <1>4

\* From start-up on the root is an absolute path without empty, "." or ".." segments
\* (normalize_root), and every key is a byte string.
THEOREM RootNormal == Spec => []RootInv
<1>1. Init => RootInv
  BY EmptySegment DEF Init, RootInv
<1>2. RootInv /\ [Next]_<<configVars, mapperVars>> => RootInv'
  BY StepKeepsRoot
<1> QED BY <1>1, <1>2, PTL DEF Spec

\* Whatever key a client sends and whatever hdfs_root is configured, key_to_hdfs_path
\* answers with a path in normal form at or below the root, or rejects the key.
THEOREM NoPathEscapes == Spec => []StaysUnderRoot
BY RootNormal, PathsStayUnder, PTL

\* The key hdfs_path_to_key prints for a path is one that key_to_hdfs_path takes back to
\* the path, for every root and every path a key can name.
THEOREM ListedKeysResolve == Spec => []ListedKeyIsFound
BY RootNormal, ListedKeys, PTL

\* The directory list_start walks from contains every object whose key matches the
\* prefix, for every root and prefix.
THEOREM WalkCoversPrefix == Spec => []ListStartCovers
BY RootNormal, ListingCovers, PTL
=============================================================================
