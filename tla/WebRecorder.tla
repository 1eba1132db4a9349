---------------------------- MODULE WebRecorder ----------------------------
(***************************************************************************)
(* Recording a voice note in the memo editor (useAudioRecorder, and what   *)
(* MemoEditor does with the result): the user may cancel, save or leave    *)
(* while the browser asks for the microphone, while the recorder is still  *)
(* handing over what it has, and while the server transcribes it.  The     *)
(* browser is one that can record.                                         *)
(***************************************************************************)
EXTENDS Naturals

CONSTANT MaxRecordings    \* bound: values of startRequestIdRef

ASSUME RecorderAssumption == MaxRecordings \in Nat

VARIABLES
    present,        \* whether the editor is on the screen
    able,           \* canTranscribe: the AI setting has come, with a provider
    request,        \* startRequestIdRef
    prompts,        \* calls of getUserMedia that wait for the user
    recorders,      \* MediaRecorders that have not fired their stop event
    streams,        \* the streams whose tracks are live: the microphone is on
    current,        \* mediaRecorderRef and mediaStreamRef, 0 for null
    mode,           \* completionModeRef
    status,         \* state.audioRecorder.status
    panel,          \* isAudioRecorderOpen
    transcribing,   \* isTranscribingAudio
    transcripts,    \* recordings that the server is transcribing
    saving,         \* whether the editor waits for a save
    begun,          \* history: the recordings that were started
    fates,          \* history: what became of them
    astray          \* history: what the editor does not provide for

recorderVars == <<present, able, request, prompts, recorders, streams, current, mode, status, panel,
                  transcribing, transcripts, saving, begun, fates, astray>>

Busy == status \in {"recording", "requesting"}

\* AudioRecorderPanel is drawn
PanelShown == present /\ panel /\ (Busy \/ transcribing)

\* resetRecorderRefs
ResetRefs == current' = 0 /\ streams' = streams \ {current}

\* The effect on [actions] runs again when canTranscribe has changed.
SettingArrives ==
    /\ present /\ ~able
    /\ able' = TRUE
    /\ ResetRefs /\ status' = "idle"
    /\ UNCHANGED <<present, request, prompts, recorders, mode, panel, transcribing, transcripts, saving,
                   begun, fates, astray>>

\* handleAudioRecorderClick, startRecording
ClickRecord ==
    /\ present /\ ~Busy /\ request < MaxRecordings
    /\ panel' = TRUE /\ status' = "requesting"
    /\ request' = request + 1
    /\ prompts' = prompts \cup {[id |-> request + 1, able |-> able]}
    /\ astray' = IF recorders # {} \/ transcripts # {} THEN astray \cup {"overlap"} ELSE astray
    /\ UNCHANGED <<present, able, recorders, streams, current, mode, transcribing, transcripts, saving,
                   begun, fates>>

\* startRequestIdRef.current === requestId
Wanted(id) == id = request

Granted(p) ==
    /\ prompts' = prompts \ {p}
    /\ IF Wanted(p.id)
       THEN /\ recorders' = recorders \cup {[id |-> p.id, able |-> p.able, stopping |-> FALSE]}
            /\ streams' = streams \cup {p.id} /\ current' = p.id
            /\ status' = "recording" /\ begun' = begun \cup {p.id}
       ELSE UNCHANGED <<recorders, streams, current, status, begun>>
    /\ UNCHANGED <<present, able, request, mode, panel, transcribing, transcripts, saving, fates, astray>>

\* Denied, or no microphone; the effect on the status closes the panel.
PromptRefused(p) ==
    /\ prompts' = prompts \ {p}
    /\ IF Wanted(p.id) THEN ResetRefs /\ status' = "error" /\ panel' = FALSE
       ELSE UNCHANGED <<streams, current, status, panel>>
    /\ UNCHANGED <<present, able, request, recorders, mode, transcribing, transcripts, saving, begun, fates,
                   astray>>

\* The microphone is unplugged.
TrackEnds ==
    /\ \E id \in streams : streams' = streams \ {id}
    /\ UNCHANGED <<present, able, request, prompts, recorders, current, mode, status, panel, transcribing,
                   transcripts, saving, begun, fates, astray>>

\* stopRecording: the recorder is told to stop, unless there is none or it is inactive.
StopRecording(m) ==
    /\ PanelShown /\ status # "requesting" /\ ~transcribing
    /\ m = "transcribe" => able
    /\ \E r \in recorders :
          /\ r.id = current /\ ~r.stopping /\ r.id \in streams
          /\ recorders' = (recorders \ {r}) \cup {[r EXCEPT !.stopping = TRUE]}
    /\ mode' = m /\ transcribing' = (m = "transcribe")
    /\ UNCHANGED <<present, able, request, prompts, streams, current, status, panel, transcripts, saving,
                   begun, fates, astray>>

\* Mutation of Heard: a stop event is handled whoever it is from.
HeardAnyway(r) == TRUE

\* The listeners of a recorder ignore it once another request was made.
Heard(r) == r.id = request

\* onRecordingComplete, onRecordingEmpty
Complete(r, empty) ==
    IF mode = "transcribe" /\ r.able /\ ~empty
    THEN transcripts' = transcripts \cup {r.id} /\ UNCHANGED <<panel, transcribing, fates>>
    ELSE /\ panel' = FALSE
         /\ transcribing' = (transcribing /\ mode # "transcribe")
         /\ fates' = fates \cup {<<r.id, IF empty THEN "empty" ELSE "file">>}
         /\ UNCHANGED transcripts

\* The last data and the stop event: after stop(), or because its tracks ended.
StopEvent(r, empty) ==
    /\ r.stopping \/ r.id \notin streams
    /\ recorders' = recorders \ {r}
    /\ IF Heard(r)
       THEN /\ Complete(r, empty)
            /\ mode' = "attach" /\ status' = "idle" /\ ResetRefs
       ELSE UNCHANGED <<mode, status, streams, current, panel, transcribing, transcripts, fates>>
    /\ UNCHANGED <<present, able, request, prompts, saving, begun, astray>>

\* handleTranscribeRecordedAudio: the text is inserted; an empty one, or an
\* error, leaves the file.
TranscriptArrives(id, fate) ==
    /\ transcripts' = transcripts \ {id}
    /\ transcribing' = FALSE /\ panel' = FALSE
    /\ fates' = fates \cup {<<id, fate>>}
    /\ UNCHANGED <<present, able, request, prompts, recorders, streams, current, mode, status, saving,
                   begun, astray>>

\* handleCancelAudioRecording, resetRecording
CancelRecording ==
    /\ PanelShown /\ ~transcribing
    /\ request' = request + 1 /\ mode' = "attach" /\ status' = "idle"
    /\ ResetRefs
    /\ panel' = FALSE
    /\ fates' = fates \cup {<<request, "cancelled">>}
    /\ UNCHANGED <<present, able, prompts, recorders, transcribing, transcripts, saving, begun, astray>>

\* canSave
SaveNote ==
    /\ present /\ ~Busy /\ ~saving
    /\ saving' = TRUE
    /\ UNCHANGED <<present, able, request, prompts, recorders, streams, current, mode, status, panel,
                   transcribing, transcripts, begun, fates, astray>>

\* RESET after a save that succeeded takes the status along.
SaveEnds(ok) ==
    /\ saving /\ saving' = FALSE
    /\ status' = IF ok THEN "idle" ELSE status
    /\ astray' = IF ok /\ Busy THEN astray \cup {"reset"} ELSE astray
    /\ UNCHANGED <<present, able, request, prompts, recorders, streams, current, mode, panel, transcribing,
                   transcripts, begun, fates>>

\* The editor is unmounted.  A prompt that is still open is not withdrawn.
LeaveEditor ==
    /\ present /\ present' = FALSE
    /\ ResetRefs
    /\ astray' = IF prompts # {} THEN astray \cup {"left"} ELSE astray
    /\ UNCHANGED <<able, request, prompts, recorders, mode, status, panel, transcribing, transcripts, saving,
                   begun, fates>>

RecorderInit ==
    /\ present = TRUE /\ able = FALSE /\ request = 0
    /\ prompts = {} /\ recorders = {} /\ streams = {} /\ current = 0
    /\ mode = "attach" /\ status = "idle" /\ panel = FALSE
    /\ transcribing = FALSE /\ transcripts = {} /\ saving = FALSE
    /\ begun = {} /\ fates = {} /\ astray = {}

RecorderNext ==
    \/ SettingArrives \/ ClickRecord \/ TrackEnds \/ CancelRecording \/ SaveNote \/ LeaveEditor
    \/ \E p \in prompts : Granted(p) \/ PromptRefused(p)
    \/ \E m \in {"attach", "transcribe"} : StopRecording(m)
    \/ \E r \in recorders, empty \in BOOLEAN : StopEvent(r, empty)
    \/ \E id \in transcripts, fate \in {"text", "file"} : TranscriptArrives(id, fate)
    \/ \E ok \in BOOLEAN : SaveEnds(ok)

RecorderSpec == RecorderInit /\ [][RecorderNext]_recorderVars

-----------------------------------------------------------------------------
RecorderTypeOK ==
    /\ {present, able, panel, transcribing, saving} \subseteq BOOLEAN
    /\ request \in 0..(2 * MaxRecordings)
    /\ status \in {"idle", "requesting", "recording", "error"} /\ mode \in {"attach", "transcribe"}
    /\ {p.id : p \in prompts} \cup {r.id : r \in recorders} \cup streams \cup transcripts \cup begun
           \subseteq 1..request
    /\ current \in 0..request /\ astray \subseteq {"overlap", "reset", "left"}

\* The microphone is on for the recording that the editor shows, and for no
\* other: whatever prompt is answered late, and whether the recording is
\* cancelled, torn down by the AI setting or ended by the device.  A recording
\* ends in one way, as a file, as text, empty or cancelled; and when nothing is
\* under way any more each has ended, and the editor waits for none.  Not so when
\* the editor was left with the prompt open or emptied by a save during the
\* recording, or a recording was begun while another was being transcribed.
RecordingIsShownUntilItEnds ==
    /\ astray \cap {"left", "reset"} = {} =>
           \A id \in streams : present /\ status = "recording" /\ id = current /\ id = request
    /\ astray = {} /\ streams # {} => panel
    /\ \A f, g \in fates : f[1] = g[1] => f = g
    /\ astray = {} /\ present /\ ~Busy /\ recorders = {} /\ transcripts = {} =>
           ~transcribing /\ begun \subseteq {f[1] : f \in fates}
=============================================================================
