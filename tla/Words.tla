------------------------------- MODULE Words --------------------------------
(* The words of a request that the parser knows (http/http_table.c,        *)
(* http/http_header.c).  A word is compared as a whole, so it is one       *)
(* element of a text: a code of its own, beyond those of the bytes.        *)
EXTENDS Integers

(* Methods, one the program does not know, and those of WebDAV as a class *)
METHOD_NA == 1000
WEBDAV == 1016
CONNECT == 1001
COPY == 1002
DELETE == 1003
HEAD == 1004
GET == 1005
LOCK == 1006
MKCOL == 1007
MOVE == 1008
OPTIONS == 1009
POST == 1010
PUT == 1011
PROPFIND == 1012
PROPPATCH == 1013
TRACE == 1014
UNLOCK == 1015

HTTP_1_1 == 1020

(* Names of headers *)
AUTHORIZATION == 1101
CONTENT_LENGTH == 1102
CONTENT_TYPE == 1103
CONNECTION == 1104
COOKIE == 1105
HOST == 1106
LOCATION == 1107
REFERER == 1108
RANGE == 1109
TRANSFER_ENCODING == 1110
USER_AGENT == 1111

(* What the values of authorization begin with *)
DIGEST == 1201
NEGOTIATE == 1202
NTLM == 1203
BASIC == 1204

(* Content types, and "boundary=" and "type=" behind them *)
MULTIFORM == 1301
FORMENC == 1302
AMF == 1303
HTML_TYPE == 1304
OTHER_TYPE == 1305         \* any other one of http_content_type_table
BOUNDARY_IS == 1310
TYPE_IS == 1311
CHUNKED == 1312

(* filename=" is the word file before the word name=" *)
NAME_IS == 1401
FILE_WORD == 1402

=============================================================================
