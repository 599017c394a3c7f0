------------------------------- MODULE HttpForm -------------------------------
(***************************************************************************)
(* What the HTTP channel (channel/http.rs) accepts: the comparison of the  *)
(* bearer token and the reading of a multipart form.  A form is a sequence *)
(* of fields that is read once, from front to back; a later field replaces *)
(* an earlier one of the same name, and a field that must not be there     *)
(* ends the request at once.  Texts, types and sizes are abstracted to the *)
(* classes that the handler tells apart.                                   *)
(***************************************************************************)
EXTENDS Naturals, Sequences

NoUpload == "none"

-----------------------------------------------------------------------------
\* The byte at a position, or zero past the end (get(index).unwrap_or(0)).
ByteAt(text, i) == IF i \in DOMAIN text THEN text[i] ELSE 0

Longer(left, right) == IF Len(left) > Len(right) THEN Len(left) ELSE Len(right)

\* constant_time_eq: no early exit, every byte and the lengths enter `diff`.
ConstantTimeEq(left, right) ==
  /\ Len(left) = Len(right)
  /\ \A i \in 1 .. Longer(left, right) : ByteAt(left, i) = ByteAt(right, i)

\* ensure_bearer_token; a request without a Bearer header provides <<>>, and
\* an empty configured token switches the check off.
Authorised(provided, expected) ==
  expected = <<>> \/ ConstantTimeEq(provided, expected)

-----------------------------------------------------------------------------
\* A field has a name, the class of its text, whether its bytes could be read,
\* whether its type is an allowed image type, and whether it is too large.
Field == [name : {"message", "chat_id", "sender_id", "image", "file", "other"},
          text : {"blank", "words"}, readable : BOOLEAN,
          allowed : BOOLEAN, large : BOOLEAN]

\* The variables of handle_chat_multipart before the first field.
EmptyForm == [message |-> "empty", chat_id |-> "", sender_id |-> "",
              image |-> FALSE, file |-> NoUpload, status |-> 0]

Reject(form, code) == [form EXCEPT !.status = code]

\* One field of the form, after a prefix that was read without an error.
ReadNamed(form, field) ==
  CASE field.name = "message"   -> [form EXCEPT !.message = field.text]
    [] field.name = "chat_id"   -> [form EXCEPT !.chat_id = field.text]
    [] field.name = "sender_id" -> [form EXCEPT !.sender_id = field.text]
    [] field.name = "image" ->
         IF ~field.allowed THEN Reject(form, 400)
         ELSE IF field.large THEN Reject(form, 413)
         ELSE [form EXCEPT !.image = TRUE]
    [] field.name = "file" ->
         IF field.large THEN Reject(form, 413)
         ELSE [form EXCEPT !.file = field.text]
    [] OTHER -> form

\* The body of the loop: a rejected form is not read further, a field whose
\* bytes cannot be read is skipped.
ReadField(form, field) ==
  IF form.status # 0 \/ ~field.readable THEN form ELSE ReadNamed(form, field)

\* The loop over multipart.next_field(): the variables after each field.
FormAfter(fields) ==
  LET form[k \in 0 .. Len(fields)] ==
        IF k = 0 THEN EmptyForm ELSE ReadField(form[k - 1], fields[k])
  IN  form

ReadForm(fields) == FormAfter(fields)[Len(fields)]

\* Nothing to say: no text, no image and no file (message.trim().is_empty()).
IsEmptyForm(form) == form.message # "words" /\ ~form.image /\ form.file = NoUpload

\* The status of a form: the loop's, or 400 for an empty one, or 0 (go on).
FormStatus(fields) ==
  LET form == ReadForm(fields)
  IN  IF form.status # 0 THEN form.status
      ELSE IF IsEmptyForm(form) THEN 400 ELSE 0

\* What becomes of the content: the message with the file's text or a note
\* about the file appended, or the default question about the image, which
\* only replaces a message that is empty before trimming.
Content(form) ==
  CASE form.file # NoUpload        -> "message and file"
    [] form.message # "empty"  -> "message"
    [] OTHER                   -> "default"

-----------------------------------------------------------------------------
(* The check of the token is equality (lines 170-183 pad the shorter text   *)
(* with zero bytes, which must not make texts of two lengths equal).        *)
TokenExact(left, right) == ConstantTimeEq(left, right) <=> left = right

Readable(fields, name) ==
  {i \in DOMAIN fields : fields[i].name = name /\ fields[i].readable}

Bad(field) == \/ field.name = "image" /\ (~field.allowed \/ field.large)
              \/ field.name = "file" /\ field.large

(* The form against its declarative meaning: it is refused exactly when a   *)
(* readable image or file of it is unacceptable, whatever comes after, or   *)
(* when its LAST readable message is blank and it has neither image nor     *)
(* file; the status is that of the first unacceptable field; and the        *)
(* default question is asked only about an image.                           *)
FormExact(fields) ==
  LET bad == {i \in Readable(fields, "image") \cup Readable(fields, "file") : Bad(fields[i])}
      says == \E i \in Readable(fields, "message") :
                /\ fields[i].text = "words"
                /\ \A j \in Readable(fields, "message") : j <= i
  IN  /\ bad # {} =>
           \E i \in bad :
             /\ \A j \in bad : i <= j
             /\ FormStatus(fields) =
                  IF fields[i].name = "image" /\ ~fields[i].allowed THEN 400 ELSE 413
      /\ bad = {} =>
           FormStatus(fields) =
             IF says \/ Readable(fields, "image") # {} \/ Readable(fields, "file") # {}
               THEN 0 ELSE 400
      /\ FormStatus(fields) = 0 /\ Content(ReadForm(fields)) = "default" =>
           Readable(fields, "image") # {}
=============================================================================
