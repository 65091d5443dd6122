------------------------------- MODULE Converter -------------------------------
(***************************************************************************)
(* ConvertController, ConvertWorker and ConvertService.execute.            *)
(*                                                                         *)
(* A conversion is prepared in a folder of its own beside the output and   *)
(* published from there, file by file, never over another file; what it    *)
(* has published is taken back when it fails or is cancelled.  It is not   *)
(* stopped at the end of a session: a conversion of an earlier login may   *)
(* be at work beside this login's, on the same names.  What the components *)
(* that convert do inside the prepared folder is left out but for its end. *)
(***************************************************************************)
EXTENDS DesktopSession

CONSTANT MaxOutputs  \* files of one conversion: pages as images, a bound

ASSUME ConverterAssumption == MaxOutputs \in Nat \ {0}

VARIABLES
  conversions,  \* _worker of the converter of each login
  folder,       \* the output folder: what stands at a name
  theirs,       \* names where somebody else has put a file, for a property
  said          \* what the converter in use shows

converterVars == <<conversions, folder, theirs, said>>

----------------------------------------------------------------------------
(* The formats *)

\* SUPPORTED_CONVERSIONS.
SupportedConversions ==
  {<<"PDF", "DOCX">>, <<"PDF", "JPG">>, <<"DOCX", "PDF">>, <<"DOCX", "JPG">>,
   <<"JPG", "PDF">>, <<"JPEG", "PDF">>, <<"PNG", "PDF">>, <<"PNG", "JPG">>,
   <<"TIFF", "PDF">>, <<"TIFF", "JPG">>, <<"TIF", "PDF">>, <<"TIF", "JPG">>,
   <<"XLSX", "CSV">>, <<"CSV", "XLSX">>, <<"TXT", "PDF">>}

CanonicalFormat(f) ==
  CASE f = "JPEG" -> "JPG" [] f = "TIF" -> "TIFF" [] OTHER -> f

Supports(source, target) ==
  <<CanonicalFormat(source), CanonicalFormat(target)>> \in SupportedConversions

\* The branches of _execute_to_staging, by the service each one calls.
ConvertedBy ==
  [PDFService   |-> {<<"PDF", "JPG">>, <<"PDF", "DOCX">>},
   DOCService   |-> {<<"DOCX", "PDF">>, <<"DOCX", "JPG">>},
   XLSXService  |-> {<<"XLSX", "CSV">>},
   CSVService   |-> {<<"CSV", "XLSX">>},
   TXTService   |-> {<<"TXT", "PDF">>},
   ImageService |-> {<<"JPG", "PDF">>, <<"PNG", "PDF">>, <<"TIFF", "PDF">>,
                     <<"PNG", "JPG">>, <<"TIFF", "JPG">>}]

\* A conversion the table offers meets one branch, whatever the spelling of
\* its formats: one without any would end with no file.
ASSUME EveryConversionIsMade ==
  \A pair \in SupportedConversions :
    Supports(pair[1], pair[2]) =>
      \E service \in DOMAIN ConvertedBy :
        <<CanonicalFormat(pair[1]), CanonicalFormat(pair[2])>>
          \in ConvertedBy[service]

----------------------------------------------------------------------------
(* The folder *)

\* The names output, output_2, output_3, ...
Outputs == 1 .. MaxOutputs

\* What stands at a name: nothing, a file of a conversion not yet delivered,
\* one of an earlier conversion, or somebody else's.
FreeName == <<"free">>
Earlier == <<"kept">>
Other == <<"other">>
Made(l) == <<"made", l>>

ConverterInit ==
  /\ conversions = [l \in Logins |-> NoWorker]
  /\ folder \in [Outputs -> {FreeName, Other}]
  /\ theirs = {x \in Outputs : folder[x] = Other}
  /\ said = "none"

ConverterShows(what) == said' = what

\* _build_job and job.validate: an output that exists is refused, whatever
\* stands at the names of the further pages.
CanConvert == folder[1] = FreeName

\* on_convert_requested.
OnConvertRequested ==
  /\ Gesture("convert")
  /\ conversions[login] = NoWorker /\ CanConvert
  /\ \E n \in Outputs :
       conversions' = [conversions EXCEPT ![login] =
         [at |-> "runs", step |-> "begins", count |-> n, made |-> 0,
          stop |-> FALSE, ends |-> "none"]]
  /\ ConverterShows("busy")
  /\ UNCHANGED <<session, folder, theirs>>

\* on_cancel_requested, of a button that works once.
OnCancelRequested ==
  /\ Gesture("convert")
  /\ said = "busy" /\ conversions[login] # NoWorker
  /\ conversions' = [conversions EXCEPT ![login].stop = TRUE]
  /\ ConverterShows("cancelling")
  /\ UNCHANGED <<session, folder, theirs>>

\* Somebody puts a file into the folder, over another one or not.
Elsewhere ==
  /\ Gesture("convert")
  /\ \E x \in Outputs :
       /\ folder' = [folder EXCEPT ![x] = Other]
       /\ theirs' = theirs \cup {x}
  /\ UNCHANGED <<session, conversions, said>>

----------------------------------------------------------------------------
(* The worker *)

ToStep(l, step) == conversions' = [conversions EXCEPT ![l].step = step]

\* What was published is taken back first, if anything was.
Abandon(l, how) ==
  conversions' = [conversions EXCEPT ![l].step = "undoes", ![l].ends = how]

\* execute, before the folder of its own is made.
Begins(l) ==
  /\ conversions[l].step = "begins"
  /\ CASE folder[1] # FreeName -> Abandon(l, "failed")
       [] folder[1] = FreeName /\ conversions[l].stop -> Abandon(l, "cancelled")
       [] OTHER -> ToStep(l, "stages")
  /\ UNCHANGED <<folder, theirs>>

\* _execute_to_staging, and the names of the pages put in order; a request
\* to stop is noticed between its stages and at its end, and some services
\* turn it into an error of their own.
Stages(l) ==
  LET c == conversions[l]
  IN  /\ c.step = "stages"
      /\ \/ Abandon(l, "failed")
         \/ c.stop /\ Abandon(l, "cancelled")
         \/ ~c.stop /\ ToStep(l, "publishes")
      /\ UNCHANGED <<folder, theirs>>

\* publish_file: a link, which refuses a name that is taken.
PublishFile(l, x) ==
  IF folder[x] = FreeName
  THEN /\ folder' = [folder EXCEPT ![x] = Made(l)]
       /\ conversions' = [conversions EXCEPT ![l].made = x]
  ELSE Abandon(l, "failed") /\ UNCHANGED folder

\* One more file, or the last look at the request to stop.
Publishes(l) ==
  LET c == conversions[l]
  IN  /\ c.step = "publishes"
      /\ CASE c.stop -> Abandon(l, "cancelled") /\ UNCHANGED folder
           [] ~c.stop /\ c.made < c.count -> PublishFile(l, c.made + 1)
           [] OTHER -> ToStep(l, "records") /\ UNCHANGED folder
      /\ UNCHANGED theirs

\* The published files that still are the same files are removed.
Undoes(l) ==
  /\ conversions[l].step = "undoes"
  /\ folder' = [x \in Outputs |->
                  IF folder[x] = Made(l) THEN FreeName ELSE folder[x]]
  /\ conversions' = [conversions EXCEPT ![l].at = "ended"]
  /\ UNCHANGED theirs

\* record_output of each file: refused when nobody is inside any more, which
\* takes nothing back.
Records(l) ==
  /\ conversions[l].step = "records"
  /\ conversions' = [conversions EXCEPT
       ![l].at = "ended", ![l].ends = IF inside THEN "done" ELSE "failed"]
  /\ UNCHANGED <<folder, theirs>>

ConversionWorks(l) ==
  /\ Runs(conversions[l])
  /\ Begins(l) \/ Stages(l) \/ Publishes(l) \/ Undoes(l) \/ Records(l)
  /\ UNCHANGED <<session, left, said>>

\* _on_succeeded, _on_cancelled, _on_failed, _cleanup_worker; an earlier
\* login's results go to a window that is closed.
ConversionDelivered(l) ==
  /\ conversions[l].at = "ended"
  /\ ConverterShows(IF Closing(l) THEN said ELSE conversions[l].ends)
  /\ conversions' = [conversions EXCEPT ![l] = NoWorker]
  /\ folder' = [x \in Outputs |->
                  IF folder[x] = Made(l) THEN Earlier ELSE folder[x]]
  /\ UNCHANGED <<session, left, theirs>>

ConverterMachine ==
  \E l \in Logins : ConversionWorks(l) \/ ConversionDelivered(l)

ConverterGesture == OnConvertRequested \/ OnCancelRequested \/ Elsewhere

\* At the end of a session, and for the converter of the next one.
ConverterShutdown ==
  said' = "none" /\ UNCHANGED <<conversions, folder, theirs>>

----------------------------------------------------------------------------

\* A conversion that says it is done has left all its files, one that says
\* it was cancelled none; and nobody else's file is ever lost to one.
ConversionIsWhole ==
  /\ \A x \in theirs : folder[x] = Other
  /\ \A l \in Logins :
       conversions[l].at = "ended" =>
         /\ conversions[l].ends = "done" =>
              \A x \in 1 .. conversions[l].count :
                folder[x] = Made(l) \/ x \in theirs
         /\ conversions[l].ends = "cancelled" =>
              \A x \in Outputs : folder[x] # Made(l)

\* The converter does not stay busy.
ConverterRests == said \notin {"busy", "cancelling"}
=============================================================================
