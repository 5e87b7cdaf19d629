--------------------------- MODULE MCAmalgamation ---------------------------
EXTENDS SingleHeader

Directive_(path, quoted, when) ==
    [path |-> path, quoted |-> quoted, comment |-> FALSE, when |-> when]

Angle(path) == Directive_(path, FALSE, FALSE)

(* Trees of two sources and two headers with the same name in two          *)
(* directories, where a quoted name, one in angle brackets and a longer    *)
(* path may or may not mean the same file.                                 *)
First == <<"include", "csv2", "first">>
Second == <<"include", "csv2", "second">>
Inner == <<"include", "csv2", "h">>
Outer == <<"include", "h">>

Plain == { Angle(<<"h">>), Angle(<<"csv2", "h">>), Directive_(<<"h">>, TRUE, FALSE) }
Conditional == { [d EXCEPT !.when = TRUE] : d \in Plain }
Others == { Angle(<<"csv2", "first">>), Angle(<<"cstddef">>), [Angle(<<"h">>) EXCEPT !.comment = TRUE] }

SmallTrees ==
    { (First :> first) @@ (Second :> second) @@ (Inner :> inner) @@ (Outer :> outer) :
        first \in BoundedSeq(Plain \cup Conditional \cup Others, 2),
        second \in BoundedSeq(Plain \cup Others, 1),
        inner, outer \in BoundedSeq(Plain \cup Conditional \cup Others, 1) }

(* The headers of csv2.                                                    *)
Csv2(name) == <<"include", "csv2", name>>
Detail(name) == <<"include", "csv2", "detail", name>>
Of(name) == Angle(<<"csv2", name>>)
OfDetail(name) == Angle(<<"csv2", "detail", name>>)

Csv2Headers ==
    (Csv2("reader") :> << OfDetail("config"), OfDetail("conversion"), OfDetail("output"),
                          OfDetail("scanner"), OfDetail("validation"),
                          [Of("mio") EXCEPT !.when = TRUE], Of("parameters") >>)
    @@ (Csv2("writer") :> << OfDetail("config"), Of("parameters") >>)
    @@ (Csv2("errors") :> << >>)
    @@ (Csv2("mio") :> << OfDetail("config") >>)
    @@ (Csv2("parameters") :> << OfDetail("config") >>)
    @@ (Detail("config") :> << >>)
    @@ (Detail("conversion") :> << OfDetail("config"), Of("errors") >>)
    @@ (Detail("output") :> << OfDetail("config") >>)
    @@ (Detail("scanner") :> << OfDetail("config") >>)
    @@ (Detail("validation") :> << OfDetail("scanner"), Of("errors") >>)

SmallAndReal ==
    {[tree |-> t, sources |-> <<First, Second>>] : t \in SmallTrees}
    \cup {[tree |-> Csv2Headers, sources |-> <<Csv2("reader"), Csv2("writer")>>],
          [tree |-> Csv2Headers, sources |-> <<Csv2("reader"), Csv2("missing")>>]}

IncludePaths == << <<"include">> >>
=============================================================================
