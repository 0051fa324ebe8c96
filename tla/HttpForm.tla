------------------------------ MODULE HttpForm ------------------------------
(* http/http_form.c: the arguments and files of a multipart body, byte by  *)
(* byte, in pieces of any length.                                          *)
EXTENDS HttpArgs, Words

CONSTANTS MAX_LABEL    \* bytes in the buffer for a label (256)

ASSUME LabelAssumption == MAX_LABEL \in Nat \ {0}

(* http_get_empty_file *)
http_get_empty_file(h) ==
  IF Len(h.file) >= MAX_FILES THEN [h EXCEPT !.file_cur = NULL]
  ELSE [h EXCEPT !.file = Append(@, http_file_t), !.file_cur = Len(h.file) + 1]

(* http_set_file and http_append_file do nothing once all slots are taken, *)
(* the last of them included.                                              *)
http_set_file(h, name) ==
  IF h.file_cur = NULL \/ Len(h.file) >= MAX_FILES THEN h
  ELSE [h EXCEPT !.file[h.file_cur].name = Stored(name, h.tmp_flag)]

http_append_file(h, c) ==
  LET item == h.file[h.file_cur]
      counted == [h EXCEPT !.file[h.file_cur].raw_file_len = @ + 1]
  IN  IF h.file_cur = NULL \/ h.null_file THEN h
      ELSE IF Len(item.value) + 1 > HTTP_FILE_MAX_LEN
           THEN [counted EXCEPT !.file[h.file_cur].complete_flag = 1]
      ELSE IF Len(h.file) >= MAX_FILES THEN counted
      ELSE [counted EXCEPT !.file[h.file_cur].value = http_append_str(@, <<c>>)]

(* What printf makes of the boundary when there is none: "(null)". *)
Printed(s) == IF s = <<>> THEN <<40, 110, 117, 108, 108, 41>> ELSE s

(* The text between two parts, as much of it as the buffer holds. *)
Label(h) == strlcpy2(MAX_LABEL, <<DASH, DASH>> \o Printed(h.str.boundary))

(* strlcpy2 into what is left of cache_buf; when nothing is left (as       *)
(* http_read_line may leave it), its length less one is a very large one,  *)
(* and it writes behind the buffer.                                        *)
Cached(h, c) ==
  IF Len(h.cache_buf) >= CACHE THEN [h EXCEPT !.crashed = TRUE]
  ELSE [h EXCEPT !.cache_buf = @ \o strlcpy2(CACHE - Len(@), <<c>>)]

(* Faulty: dashes are counted across the characters between them. *)
CountDashes_KeepCount(h, c) ==
  IF c = DASH
  THEN LET n == h.myform_label_num + 1
       IN  [h EXCEPT !.myform_label_num = n,
                     !.myform_label_state = IF n = h.boundary_cnt THEN "BEGIN" ELSE @]
  ELSE [h EXCEPT !.myform_label_state = IF @ \in {"BEGIN", "RUN"} THEN "RUN" ELSE "NULL"]

(* As many dashes as the label begins with, and the character behind them: *)
(* what follows may be the rest of a label.                                *)
CountDashes(h, c) ==
  IF c = DASH
  THEN LET n == h.myform_label_num + 1
       IN  [h EXCEPT !.myform_label_num = n,
                     !.myform_label_state = IF n = h.boundary_cnt THEN "BEGIN" ELSE @]
  ELSE [h EXCEPT !.myform_label_num = 0,
                 !.myform_label_state = IF @ \in {"BEGIN", "RUN"} THEN "RUN" ELSE "NULL"]

(* http_wait_label_str: the rest of a label is compared when it is there. *)
http_wait_label_str(h, c) ==
  LET waiting == Cached(h, c)
      rest == From(Label(h), h.boundary_cnt + 1)
      ready == Len(waiting.cache_buf) = Len(Label(h)) - h.boundary_cnt
  IN  [h |-> IF ready THEN [waiting EXCEPT !.cache_buf = <<>>, !.myform_label_state = "NULL"] ELSE waiting,
       found |-> ready /\ waiting.cache_buf = rest]

(* Whether c ends a label, outside a part's header. *)
ScanLabel(h, c) ==
  LET counted == CountDashes(h, c)
  IN  IF counted.myform_label_state = "RUN" THEN http_wait_label_str(counted, c)
      ELSE [h |-> counted, found |-> FALSE]

(* The label and the line break before it are taken off what was read; the *)
(* last character of the label was not added.                              *)
Trimmed(s, n) == SubSeq(s, 1, Len(s) - n)

TrimFile(h, n) ==
  IF h.file_cur = NULL \/ h.null_file \/ h.file[h.file_cur].value = <<>> THEN h
  ELSE LET raw == h.file[h.file_cur].raw_file_len - n
       IN  [h EXCEPT !.file[h.file_cur].value = Trimmed(@, n),
                     !.file[h.file_cur].raw_file_len = IF raw < 0 THEN 0 ELSE raw,
                     !.file[h.file_cur].complete_flag = 1]

TrimArg(h, n) ==
  IF h.arg_cur = NULL THEN h ELSE [h EXCEPT !.arg[h.arg_cur].value = Trimmed(@, n)]

(* HTTP_FORM_BEGIN: up to the first label. *)
FormBegin(h, c) ==
  LET scan == ScanLabel(h, c)
  IN  IF scan.found THEN [scan.h EXCEPT !.form_status = "HEADER", !.form_flag = "ARG"] ELSE scan.h

(* http_wait_line_str: whether c ends the header of a part. *)
http_wait_line_str(h, c) ==
  LET waiting == Cached(h, c)
      s == h.form_header_state
  IN  IF c = CR THEN [h |-> [waiting EXCEPT !.form_header_state = IF s \in {0, 2} THEN s + 1 ELSE s], found |-> FALSE]
      ELSE IF c = LF
      THEN [h |-> IF s = 3 THEN [waiting EXCEPT !.form_header_state = 0, !.cache_buf = <<>>]
                  ELSE [waiting EXCEPT !.form_header_state = IF s = 1 THEN 2 ELSE s],
            found |-> s = 3]
      ELSE [h |-> [waiting EXCEPT !.form_header_state = 0], found |-> FALSE]

(* http_get_form_lable_value: the text from a label to the next quote; not *)
(* found is different from empty.                                          *)
http_get_form_lable_value(data, label) ==
  LET at == strlstr(data, label)
      rest == From(data, at + Len(label))
      quote == strlstr(rest, <<QUOTE>>)
  IN  IF at = 0 \/ quote = 0 THEN [found |-> FALSE, value |-> <<>>]
      ELSE [found |-> TRUE, value |-> SubSeq(rest, 1, quote - 1)]

(* A part with a file's name is a file, if the name is not empty. *)
BeginFile(h, data) ==
  LET file_name == http_get_form_lable_value(data, <<FILE_WORD, NAME_IS>>)
  IN  IF ~file_name.found THEN h
      ELSE IF file_name.value = <<>> THEN [h EXCEPT !.null_file = TRUE]
      ELSE [http_set_file(http_get_empty_file([h EXCEPT !.null_file = FALSE]), file_name.value)
            EXCEPT !.form_flag = "FILE"]

(* One call under way: the record, the name that was read last, and        *)
(* whether an argument found no slot.                                      *)
BeginArg(p, data) ==
  LET name == http_get_form_lable_value(data, <<NAME_IS>>)
      label == IF name.found THEN name.value ELSE p.name
      slot == http_get_empty_arg(p.h)
  IN  IF p.h.form_flag = "FILE" THEN [p EXCEPT !.name = label]
      ELSE IF slot.arg_cur = NULL THEN [p EXCEPT !.h = slot, !.full = TRUE]
      ELSE [p EXCEPT !.h = Finish(slot, label, "arg_flag"), !.name = label]

(* HTTP_FORM_HEADER *)
FormHeader(p, c) ==
  LET line == http_wait_line_str(p.h, c)
      data == Cached(p.h, c).cache_buf
      body == [line.h EXCEPT !.form_status = "BODY"]
  IN  IF line.found THEN BeginArg([p EXCEPT !.h = BeginFile(body, data)], data)
      ELSE [p EXCEPT !.h = line.h]

(* HTTP_FORM_BODY: what is not the end of a label is content, the label's  *)
(* beginning included.                                                     *)
FormBody(h, c) ==
  LET scan == ScanLabel(h, c)
      n == Len(Label(h)) + 1
      isFile == h.form_flag = "FILE"
  IN  IF scan.found
      THEN [IF isFile THEN TrimFile(scan.h, n) ELSE TrimArg(scan.h, n)
            EXCEPT !.form_status = "HEADER", !.form_flag = "ARG"]
      ELSE IF isFile THEN http_append_file(scan.h, c) ELSE http_append_arg(scan.h, <<c>>)

FormChar(p, c) ==
  IF p.full \/ p.h.crashed THEN p
  ELSE CASE p.h.form_status = "BEGIN" -> [p EXCEPT !.h = FormBegin(@, c)]
         [] p.h.form_status = "HEADER" -> FormHeader(p, c)
         [] p.h.form_status = "BODY" -> [p EXCEPT !.h = FormBody(@, c)]

(* Where the body ends, what was read last loses a label once more. *)
EndForm(p) ==
  LET h == p.h
      n == Len(Label(h)) + 2
  IN  IF p.full \/ h.st # "NONE" THEN h
      ELSE IF h.form_flag = "FILE" THEN TrimFile(h, n)
      ELSE IF h.arg_cur # NULL /\ h.arg[h.arg_cur].value # <<>> /\ h.arg[h.arg_cur].value[1] # NUL
           THEN TrimArg(h, n) ELSE h

http_parse_form(h, data) ==
  EndForm(Read(FormChar, [h |-> h, name |-> <<>>, full |-> FALSE], data))

=============================================================================
